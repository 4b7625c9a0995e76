------------------------- MODULE EventEmitter_proofs -------------------------
(***************************************************************************)
(* However listeners start, stop and flush batches while they are called,  *)
(* no event is lost or dispatched twice, and the emitter ends up in the    *)
(* batch mode that was asked for: for any listeners, any number of calls   *)
(* and any depth of nesting.                                               *)
(***************************************************************************)
EXTENDS EventEmitter, SequenceTheorems, FiniteSetTheorems, TLAPS

-----------------------------------------------------------------------------
(* Sequences whose elements have no type. *)

IsSequence(s) == s \in Seq(Range(s))

LEMMA SequenceOfAny ==
  ASSUME NEW S, NEW s \in Seq(S)
  PROVE  IsSequence(s)
  BY SeqOfRange DEF IsSequence

LEMMA SequenceLen ==
  ASSUME NEW s, IsSequence(s)
  PROVE  Len(s) \in Nat /\ DOMAIN s = 1 .. Len(s) /\ (s = <<>> <=> Len(s) = 0)
  BY LenProperties, EmptySeq DEF IsSequence

LEMMA Appended ==
  ASSUME NEW s, IsSequence(s), NEW f
  PROVE  /\ IsSequence(Append(s, f))
         /\ Len(Append(s, f)) = Len(s) + 1
         /\ \A i \in 1 .. Len(s) : Append(s, f)[i] = s[i]
         /\ Append(s, f)[Len(s) + 1] = f
<1> DEFINE S == Range(s) \cup {f}
<1>1. s \in Seq(S)
  BY SeqMonotonic DEF IsSequence
<1>2. f \in S
  OBVIOUS
<1> HIDE DEF S
<1>3. /\ Append(s, f) \in Seq(S)
      /\ Len(Append(s, f)) = Len(s) + 1
      /\ \A i \in 1 .. Len(s) : Append(s, f)[i] = s[i]
      /\ Append(s, f)[Len(s) + 1] = f
  BY <1>1, <1>2, AppendProperties
<1>4. IsSequence(Append(s, f))
  BY <1>3, SequenceOfAny
<1> QED
  BY <1>3, <1>4

LEMMA WithoutLast ==
  ASSUME NEW s, IsSequence(s), s # <<>>
  PROVE  /\ IsSequence(Front(s))
         /\ Len(Front(s)) = Len(s) - 1
         /\ \A i \in 1 .. Len(s) - 1 : Front(s)[i] = s[i]
<1>1. Len(s) \in Nat \ {0} /\ s \in Seq(Range(s))
  BY SequenceLen DEF IsSequence
<1> DEFINE S == Range(s)
<1> HIDE DEF S
<1>2. s \in Seq(S)
  BY <1>1 DEF S
<1> DEFINE n == Len(s) - 1
<1>3. n \in Nat /\ \A i \in 1 .. n : s[i] \in S
  BY <1>1, <1>2, ElementOfSeq
<1> HIDE DEF n
<1>4. /\ SubSeq(s, 1, n) \in Seq(S)
      /\ Len(SubSeq(s, 1, n)) = n
      /\ \A i \in 1 .. n : SubSeq(s, 1, n)[i] = s[i]
  BY <1>3, SubSeqProperties
<1>5. Front(s) = SubSeq(s, 1, n)
  BY DEF Front, n
<1> QED
  BY <1>4, <1>5, SequenceOfAny DEF n

LEMMA TopReplaced ==
  ASSUME NEW s, IsSequence(s), s # <<>>, NEW f
  PROVE  LET t == Append(Front(s), f)
         IN /\ IsSequence(t) /\ Len(t) = Len(s)
            /\ \A i \in 1 .. Len(s) - 1 : t[i] = s[i]
            /\ t[Len(s)] = f
<1>1. Len(s) \in Nat \ {0}
  BY SequenceLen
<1> QED
  BY <1>1, WithoutLast, Appended

-----------------------------------------------------------------------------
(* Frames on the stack. *)

Flushes == {i \in DOMAIN stack : ~IsDispatch(stack[i])}

StackTyped ==
  /\ IsSequence(stack)
  /\ \A i \in DOMAIN stack : "kind" \in DOMAIN stack[i] /\ stack[i].kind \in {"flush", "dispatch"}
  /\ \A i \in Flushes : stack[i].rest \in Seq(Nat)

\* What a step does that neither takes an event off a flush nor begins one.
FlushesKept ==
  /\ Flushes' \subseteq Flushes
  /\ \A i \in Flushes' : stack'[i].rest = stack[i].rest
  /\ \A i \in Flushes \ Flushes' : stack[i].rest = <<>>

LEMMA DispatchPushed ==
  ASSUME StackTyped, NEW e, Push(DispatchFrame(e))
  PROVE  StackTyped' /\ FlushesKept /\ Flushes' = Flushes
<1> DEFINE f == DispatchFrame(e)
<1>1. "kind" \in DOMAIN f /\ f.kind = "dispatch"
  BY DEF DispatchFrame, Dispatch
<1> HIDE DEF f
<1>2. stack' = Append(stack, f)
  BY DEF Push, f
<1>3. /\ IsSequence(stack') /\ Len(stack') = Len(stack) + 1
      /\ \A i \in 1 .. Len(stack) : stack'[i] = stack[i]
      /\ stack'[Len(stack) + 1] = f
  BY <1>2, Appended DEF StackTyped
<1>4. /\ Len(stack) \in Nat /\ DOMAIN stack = 1 .. Len(stack)
      /\ DOMAIN stack' = 1 .. Len(stack) + 1
  BY <1>3, SequenceLen DEF StackTyped
<1>5. Flushes' = Flushes /\ \A i \in Flushes' : stack'[i] = stack[i]
  BY <1>1, <1>3, <1>4 DEF Flushes, IsDispatch
<1> QED
  BY <1>1, <1>3, <1>4, <1>5 DEF StackTyped, FlushesKept

LEMMA FrameReplaced ==
  ASSUME StackTyped, stack # <<>>, IsDispatch(Top),
         NEW f, "kind" \in DOMAIN f, f.kind = "dispatch", ReplaceTop(f)
  PROVE  StackTyped' /\ FlushesKept /\ Flushes' = Flushes
<1>1. /\ IsSequence(stack') /\ Len(stack') = Len(stack)
      /\ \A i \in 1 .. Len(stack) - 1 : stack'[i] = stack[i]
      /\ stack'[Len(stack)] = f
  BY TopReplaced DEF StackTyped, ReplaceTop
<1>2. /\ Len(stack) \in Nat \ {0} /\ DOMAIN stack = 1 .. Len(stack)
      /\ DOMAIN stack' = 1 .. Len(stack)
  BY <1>1, SequenceLen DEF StackTyped
<1>3. Flushes' = Flushes /\ \A i \in Flushes' : stack'[i] = stack[i]
  BY <1>1, <1>2 DEF Flushes, IsDispatch, Top, Last
<1> QED
  BY <1>1, <1>2, <1>3 DEF StackTyped, FlushesKept

LEMMA FramePopped ==
  ASSUME StackTyped, stack # <<>>, Pop, IsDispatch(Top) \/ Top.rest = <<>>
  PROVE  StackTyped' /\ FlushesKept /\ (IsDispatch(Top) => Flushes' = Flushes)
<1>1. /\ IsSequence(stack') /\ Len(stack') = Len(stack) - 1
      /\ \A i \in 1 .. Len(stack) - 1 : stack'[i] = stack[i]
  BY WithoutLast DEF StackTyped, Pop
<1>2. /\ Len(stack) \in Nat \ {0} /\ DOMAIN stack = 1 .. Len(stack)
      /\ DOMAIN stack' = 1 .. Len(stack) - 1
  BY <1>1, SequenceLen DEF StackTyped
<1>3. /\ Flushes' = Flushes \ {Len(stack)}
      /\ \A i \in Flushes' : stack'[i] = stack[i]
  BY <1>1, <1>2 DEF Flushes
<1>4. Len(stack) \in Flushes => stack[Len(stack)].rest = <<>>
  BY DEF Flushes, Top, Last
<1> QED
  BY <1>1, <1>2, <1>3, <1>4 DEF StackTyped, FlushesKept, Flushes, Top, Last

LEMMA FramesUnregistered ==
  ASSUME StackTyped, NEW still, NEW l, Unregister(still, l)
  PROVE  StackTyped' /\ FlushesKept /\ Flushes' = Flushes
<1>1. Len(stack) \in Nat /\ DOMAIN stack = 1 .. Len(stack)
  BY SequenceLen DEF StackTyped
<1> DEFINE g(i) == IF ~IsDispatch(stack[i]) THEN stack[i]
                   ELSE [stack[i] EXCEPT
                           !.due = {d \in @ : d \in still},
                           !.shifted = @ \/ (stack[i].phase = "exact" /\ stack[i].list = l)]
           G == {g(i) : i \in 1 .. Len(stack)}
<1>2. stack' = [i \in 1 .. Len(stack) |-> g(i)]
  BY <1>1 DEF Unregister
<1>3. \A i \in 1 .. Len(stack) :
        /\ "kind" \in DOMAIN g(i) /\ g(i).kind = stack[i].kind
        /\ ~IsDispatch(stack[i]) => g(i) = stack[i]
  BY <1>1 DEF StackTyped, IsDispatch
<1>4. \A i \in 1 .. Len(stack) : g(i) \in G
  OBVIOUS
<1> HIDE DEF g, G
<1>5. stack' \in Seq(G)
  BY <1>1, <1>2, <1>4, IsASeq
<1>6. IsSequence(stack') /\ DOMAIN stack' = 1 .. Len(stack)
  BY <1>2, <1>5, SequenceOfAny
<1>7. Flushes' = Flushes /\ \A i \in Flushes' : stack'[i] = stack[i]
  BY <1>1, <1>2, <1>3, <1>6 DEF Flushes, IsDispatch
<1> QED
  BY <1>1, <1>2, <1>3, <1>6, <1>7 DEF StackTyped, FlushesKept

LEMMA StackUnchanged ==
  ASSUME StackTyped, UNCHANGED stack
  PROVE  StackTyped' /\ FlushesKept /\ Flushes' = Flushes
  BY DEF StackTyped, FlushesKept, Flushes

LEMMA FlushBegun ==
  ASSUME StackTyped, batched \in Seq(Nat), Push(Flush(batched))
  PROVE  /\ StackTyped'
         /\ Len(stack) + 1 \notin Flushes /\ Flushes' = Flushes \cup {Len(stack) + 1}
         /\ \A i \in Flushes : stack'[i].rest = stack[i].rest
         /\ stack'[Len(stack) + 1].rest = batched
<1> DEFINE f == Flush(batched)
<1>1. "kind" \in DOMAIN f /\ f.kind = "flush" /\ f.rest = batched
  BY DEF Flush
<1> HIDE DEF f
<1>2. stack' = Append(stack, f)
  BY DEF Push, f
<1>3. /\ IsSequence(stack') /\ Len(stack') = Len(stack) + 1
      /\ \A i \in 1 .. Len(stack) : stack'[i] = stack[i]
      /\ stack'[Len(stack) + 1] = f
  BY <1>2, Appended DEF StackTyped
<1>4. /\ Len(stack) \in Nat /\ DOMAIN stack = 1 .. Len(stack)
      /\ DOMAIN stack' = 1 .. Len(stack) + 1
  BY <1>3, SequenceLen DEF StackTyped
<1>5. /\ Flushes' = Flushes \cup {Len(stack) + 1}
      /\ Len(stack) + 1 \notin Flushes
      /\ \A i \in Flushes : stack'[i] = stack[i]
  BY <1>1, <1>3, <1>4 DEF Flushes, IsDispatch
<1> QED
  BY <1>1, <1>3, <1>4, <1>5 DEF StackTyped

LEMMA EventTaken ==
  ASSUME StackTyped, FlushNext
  PROVE  /\ StackTyped' /\ Len(stack) \in Flushes /\ Flushes' = Flushes
         /\ \A i \in Flushes \ {Len(stack)} : stack'[i].rest = stack[i].rest
         /\ stack'[Len(stack)].rest = Tail(stack[Len(stack)].rest)
<1> DEFINE top == stack[Len(stack)]
           f == Flush(Tail(top.rest))
           d == DispatchFrame(Head(top.rest))
           t == Append(Front(stack), f)
<1>1. top = Top /\ stack # <<>> /\ top.kind = "flush" /\ top.rest # <<>>
  BY DEF FlushNext, Top, Last
<1>2. Len(stack) \in Nat \ {0} /\ DOMAIN stack = 1 .. Len(stack)
  BY <1>1, SequenceLen DEF StackTyped
<1>3. Len(stack) \in Flushes /\ top.rest \in Seq(Nat) /\ Tail(top.rest) \in Seq(Nat)
  BY <1>1, <1>2, HeadTailProperties DEF Flushes, IsDispatch, StackTyped
<1>4. /\ "kind" \in DOMAIN f /\ f.kind = "flush" /\ f.rest = Tail(top.rest)
      /\ "kind" \in DOMAIN d /\ d.kind = "dispatch"
  BY DEF Flush, DispatchFrame, Dispatch
<1>5. /\ IsSequence(t) /\ Len(t) = Len(stack)
      /\ \A i \in 1 .. Len(stack) - 1 : t[i] = stack[i]
      /\ t[Len(stack)] = f
  BY <1>1, TopReplaced DEF StackTyped
<1>6. stack' = Append(t, d)
  <2>1. stack' = Front(stack) \o <<f, d>>
    BY <1>1 DEF FlushNext
  <2>2. IsSequence(Front(stack))
    BY <1>1, WithoutLast DEF StackTyped
  <2> DEFINE S == Range(Front(stack)) \cup {f, d}
  <2>3. Front(stack) \in Seq(S) /\ f \in S /\ d \in S
    BY <2>2, SeqMonotonic DEF IsSequence
  <2> HIDE DEF S, f, d
  <2>4. \A s \in Seq(S) : s \o <<f, d>> = Append(Append(s, f), d)
    BY <2>3
  <2> QED
    BY <2>1, <2>3, <2>4
<1> HIDE DEF top, f, d, t
<1>7. /\ IsSequence(stack') /\ Len(stack') = Len(stack) + 1
      /\ \A i \in 1 .. Len(stack) : stack'[i] = t[i]
      /\ stack'[Len(stack) + 1] = d
  BY <1>5, <1>6, Appended
<1>8. DOMAIN stack' = 1 .. Len(stack) + 1
  BY <1>7, SequenceLen
<1>9. /\ \A i \in 1 .. Len(stack) - 1 : stack'[i] = stack[i]
      /\ stack'[Len(stack)] = f /\ stack'[Len(stack) + 1] = d
  BY <1>2, <1>5, <1>7
<1>10. /\ Flushes' = Flushes
       /\ \A i \in Flushes \ {Len(stack)} : stack'[i] = stack[i]
  BY <1>1, <1>2, <1>4, <1>8, <1>9 DEF Flushes, IsDispatch, top
<1>11. \A i \in DOMAIN stack' : "kind" \in DOMAIN stack'[i] /\ stack'[i].kind \in {"flush", "dispatch"}
  BY <1>2, <1>4, <1>8, <1>9 DEF StackTyped
<1>12. \A i \in Flushes' : stack'[i].rest \in Seq(Nat)
  BY <1>3, <1>4, <1>9, <1>10 DEF StackTyped
<1> QED
  BY <1>3, <1>4, <1>7, <1>9, <1>10, <1>11, <1>12 DEF StackTyped, top

-----------------------------------------------------------------------------
(* Events. *)

\* An event waits in one place only, and there once.
Apart ==
  /\ IsInjective(batched)
  /\ \A i \in Flushes : IsInjective(stack[i].rest)
  /\ \A i, j \in Flushes : i # j => Range(stack[i].rest) \cap Range(stack[j].rest) = {}

Typed ==
  /\ StackTyped
  /\ batched \in Seq(Nat) /\ emitted \in Nat
  /\ batchMode \in BOOLEAN /\ stopped \in BOOLEAN /\ asked \in BOOLEAN

EventInv == Typed /\ Apart /\ NoEventLost

LEMMA WaitingUnion == ToFlush = UNION {Range(stack[i].rest) : i \in Flushes}
  BY DEF ToFlush, Flushes

LEMMA WaitingKept ==
  ASSUME Apart, FlushesKept
  PROVE  /\ ToFlush' = ToFlush
         /\ \A i \in Flushes' : IsInjective(stack'[i].rest)
         /\ \A i, j \in Flushes' : i # j => Range(stack'[i].rest) \cap Range(stack'[j].rest) = {}
<1>1. \A i \in Flushes \ Flushes' : Range(stack[i].rest) = {}
  BY DEF FlushesKept, Range
<1>2. ToFlush' = UNION {Range(stack'[i].rest) : i \in Flushes'}
  BY DEF ToFlush, Flushes
<1>3. ToFlush' = ToFlush
  BY <1>1, <1>2, WaitingUnion DEF FlushesKept
<1> QED
  BY <1>3 DEF Apart, FlushesKept

\* Steps that leave the batch alone.
LEMMA EventsKept ==
  ASSUME EventInv, FlushesKept, UNCHANGED <<batched, emitted, taken>>
  PROVE  (Apart /\ NoEventLost)'
<1>1. UNCHANGED ToFlush /\ Apart'
  BY WaitingKept DEF EventInv, Apart
<1> QED
  BY <1>1 DEF EventInv, NoEventLost, Event

LEMMA EventDispatched ==
  ASSUME EventInv, FlushesKept, UNCHANGED batched,
         emitted' = emitted + 1, taken' = taken \cup {emitted + 1}
  PROVE  (Apart /\ NoEventLost)'
<1>1. UNCHANGED ToFlush /\ Apart'
  BY WaitingKept DEF EventInv, Apart
<1>2. emitted \in Nat /\ Event' = Event \cup {emitted + 1} /\ emitted + 1 \notin Event
  BY DEF EventInv, Typed, Event
<1> QED
  BY <1>1, <1>2 DEF EventInv, NoEventLost

LEMMA EventBatched ==
  ASSUME EventInv, FlushesKept, UNCHANGED taken,
         emitted' = emitted + 1, batched' = Append(batched, emitted + 1)
  PROVE  (Apart /\ NoEventLost)'
<1>1. emitted \in Nat /\ Event' = Event \cup {emitted + 1} /\ emitted + 1 \notin Event
  BY DEF EventInv, Typed, Event
<1>2. Len(batched) \in Nat /\ DOMAIN batched = 1 .. Len(batched)
  BY LenProperties DEF EventInv, Typed
<1>3. /\ DOMAIN batched' = 1 .. Len(batched) + 1
      /\ \A i \in 1 .. Len(batched) : batched'[i] = batched[i]
      /\ batched'[Len(batched) + 1] = emitted + 1
  BY AppendProperties, LenProperties DEF EventInv, Typed
<1>4. Range(batched') = Range(batched) \cup {emitted + 1}
  BY <1>2, <1>3 DEF Range
<1>5. emitted + 1 \notin Range(batched)
  BY <1>1 DEF EventInv, NoEventLost
<1>6. IsInjective(batched')
  BY <1>2, <1>3, <1>5 DEF EventInv, Apart, IsInjective, Range
<1>7. UNCHANGED ToFlush /\ Apart'
  BY <1>6, WaitingKept DEF EventInv, Apart
<1> QED
  BY <1>1, <1>4, <1>7 DEF EventInv, NoEventLost

LEMMA BatchEmptied ==
  ASSUME EventInv, FlushesKept, UNCHANGED emitted,
         batched' = <<>>, taken' = taken \cup Range(batched)
  PROVE  (Apart /\ NoEventLost)'
<1>1. Range(batched') = {} /\ IsInjective(batched')
  BY DEF Range, IsInjective
<1>2. UNCHANGED ToFlush /\ Apart'
  BY <1>1, WaitingKept DEF EventInv, Apart
<1> QED
  BY <1>1, <1>2 DEF EventInv, NoEventLost, Event

LEMMA BatchHandedOver ==
  ASSUME EventInv, Push(Flush(batched)), batched' = <<>>, UNCHANGED <<emitted, taken>>
  PROVE  (Apart /\ NoEventLost)'
<1> DEFINE n == Len(stack) + 1
<1>1. /\ n \notin Flushes /\ Flushes' = Flushes \cup {n}
      /\ \A i \in Flushes : stack'[i].rest = stack[i].rest
      /\ stack'[n].rest = batched
  BY FlushBegun DEF EventInv, Typed
<1> HIDE DEF n
<1>2. Range(batched') = {} /\ IsInjective(batched')
  BY DEF Range, IsInjective
<1>3. ToFlush' = UNION {Range(stack'[i].rest) : i \in Flushes'}
  BY DEF ToFlush, Flushes
<1>4. ToFlush' = ToFlush \cup Range(batched)
  BY <1>1, <1>3, WaitingUnion
<1>5. \A i \in Flushes : Range(stack[i].rest) \cap Range(batched) = {}
  BY WaitingUnion DEF EventInv, NoEventLost
<1>6. Apart'
  BY <1>1, <1>2, <1>5 DEF EventInv, Apart
<1> QED
  BY <1>2, <1>4, <1>6 DEF EventInv, NoEventLost, Event

LEMMA NextEventDispatched ==
  ASSUME EventInv, FlushNext
  PROVE  (Apart /\ NoEventLost)'
<1> DEFINE n == Len(stack)
           r == stack[n].rest
           h == Head(r)
<1>1. /\ n \in Flushes /\ Flushes' = Flushes
      /\ \A i \in Flushes \ {n} : stack'[i].rest = stack[i].rest
      /\ stack'[n].rest = Tail(r)
  BY EventTaken DEF EventInv, Typed
<1>2. r \in Seq(Nat) /\ r # <<>> /\ taken' = taken \cup {h} /\ UNCHANGED <<batched, emitted>>
  BY <1>1 DEF FlushNext, Top, Last, EventInv, Typed, StackTyped, batchVars
<1>3. IsInjective(r) /\ \A i \in Flushes \ {n} : Range(stack[i].rest) \cap Range(r) = {}
  BY <1>1 DEF EventInv, Apart
<1> DEFINE t == Tail(r)
<1> HIDE DEF n, r, h, t
<1>4. /\ Len(r) \in Nat \ {0} /\ DOMAIN r = 1 .. Len(r) /\ h = r[1]
      /\ DOMAIN t = 1 .. Len(r) - 1 /\ \A i \in 1 .. Len(r) - 1 : t[i] = r[i + 1]
  BY <1>2, HeadTailProperties, LenProperties, EmptySeq DEF h, t
<1>5. Range(t) = Range(r) \ {h} /\ h \in Range(r)
  <2>1. \A x \in Range(t) : x \in Range(r) /\ x # h
    BY <1>3, <1>4 DEF Range, IsInjective
  <2>2. ASSUME NEW x \in Range(r), x # h PROVE x \in Range(t)
    <3>1. PICK i \in 1 .. Len(r) : x = r[i]
      BY <1>4 DEF Range
    <3>2. i # 1 /\ i - 1 \in 1 .. Len(r) - 1
      BY <1>4, <2>2, <3>1
    <3>3. t[i - 1] = x
      BY <1>4, <3>1, <3>2
    <3> QED
      BY <1>4, <3>2, <3>3 DEF Range
  <2>3. h \in Range(r)
    BY <1>4 DEF Range
  <2> QED
    BY <2>1, <2>2, <2>3
<1>6. IsInjective(t)
  BY <1>3, <1>4 DEF IsInjective
<1>7. stack'[n].rest = t /\ stack[n].rest = r
  BY <1>1 DEF t, r
<1>8. ToFlush' = UNION {Range(stack'[i].rest) : i \in Flushes'}
  BY DEF ToFlush, Flushes
<1>9. ToFlush' = ToFlush \ {h} /\ h \in ToFlush
  <2>1. Range(stack'[n].rest) = Range(stack[n].rest) \ {h} /\ h \in Range(stack[n].rest)
    BY <1>5, <1>7
  <2>2. \A i \in Flushes \ {n} : Range(stack'[i].rest) = Range(stack[i].rest)
                                  /\ h \notin Range(stack[i].rest)
    BY <1>1, <1>3, <1>5
  <2>3. ToFlush' = UNION {Range(stack'[i].rest) : i \in Flushes}
    BY <1>1, <1>8
  <2>4. \A x \in ToFlush' : x \in ToFlush /\ x # h
    BY <1>1, <2>1, <2>2, <2>3, WaitingUnion
  <2>5. \A x \in ToFlush : x # h => x \in ToFlush'
    BY <1>1, <2>1, <2>2, <2>3, WaitingUnion
  <2>6. h \in ToFlush
    BY <1>1, <2>1, WaitingUnion
  <2> QED
    BY <2>4, <2>5, <2>6
<1>10. Apart'
  BY <1>1, <1>2, <1>3, <1>5, <1>6, <1>7 DEF EventInv, Apart
<1> QED
  BY <1>2, <1>9, <1>10 DEF EventInv, NoEventLost, Event

-----------------------------------------------------------------------------
(* The batch mode. *)

\* Whatever flush is in progress, its end brings back what was asked for.
ModeKept ==
  /\ Flushes = {} => (asked <=> batchMode)
  /\ Flushes # {} => (asked <=> batchMode \/ ~stopped)

IInv == EventInv /\ ModeKept

LEMMA InitInv == Init => IInv
<1> SUFFICES ASSUME Init PROVE IInv
  OBVIOUS
<1>1. IsSequence(stack) /\ DOMAIN stack = {} /\ batched \in Seq(Nat)
  BY EmptySeq DEF Init, IsSequence
<1>2. Flushes = {} /\ ToFlush = {} /\ Range(batched) = {} /\ IsInjective(batched)
  BY <1>1 DEF Init, Flushes, ToFlush, Range, IsInjective
<1>3. Typed
  BY <1>1, <1>2 DEF Init, Typed, StackTyped
<1>4. Apart
  BY <1>2 DEF Apart
<1>5. NoEventLost
  BY <1>2 DEF Init, NoEventLost, Event
<1>6. ModeKept
  BY <1>2 DEF Init, ModeKept
<1> QED
  BY <1>3, <1>4, <1>5, <1>6 DEF IInv, EventInv

LEMMA StepInv == IInv /\ [Next]_vars => IInv'
<1> SUFFICES ASSUME IInv, [Next]_vars PROVE IInv'
  OBVIOUS
<1>0. EventInv /\ ModeKept /\ Typed /\ StackTyped
  BY DEF IInv, EventInv, Typed
\* What changes only the listeners, or the frames without a flush.
<1>1. ASSUME StackTyped', FlushesKept, Flushes' = Flushes,
             UNCHANGED <<batchVars, emitted, taken>>
      PROVE  IInv'
  <2>1. (Apart /\ NoEventLost)'
    BY <1>0, <1>1, EventsKept DEF batchVars
  <2>2. Typed' /\ ModeKept'
    BY <1>0, <1>1 DEF Typed, ModeKept, batchVars
  <2> QED
    BY <2>1, <2>2 DEF IInv, EventInv
<1>2. CASE Emit
  <2>1. CASE batchMode
    <3>1. StackTyped' /\ FlushesKept /\ Flushes' = Flushes
      BY <1>0, <1>2, <2>1, StackUnchanged DEF Emit
    <3>2. (Apart /\ NoEventLost)'
      BY <1>0, <1>2, <2>1, <3>1, EventBatched DEF Emit
    <3>3. Typed' /\ ModeKept'
      BY <1>0, <1>2, <2>1, <3>1, AppendProperties DEF Emit, Typed, ModeKept
    <3> QED
      BY <3>2, <3>3 DEF IInv, EventInv
  <2>2. CASE ~batchMode
    <3>1. StackTyped' /\ FlushesKept /\ Flushes' = Flushes
      BY <1>0, <1>2, <2>2, DispatchPushed DEF Emit
    <3>2. (Apart /\ NoEventLost)'
      BY <1>0, <1>2, <2>2, <3>1, EventDispatched DEF Emit
    <3>3. Typed' /\ ModeKept'
      BY <1>0, <1>2, <2>2, <3>1 DEF Emit, Typed, ModeKept
    <3> QED
      BY <3>2, <3>3 DEF IInv, EventInv
  <2> QED
    BY <2>1, <2>2
<1>3. ASSUME NEW kind \in Kinds, NEW l \in Listener, On(kind, l) PROVE IInv'
  BY <1>0, <1>1, <1>3, StackUnchanged DEF On
<1>4. ASSUME NEW kind \in Kinds, NEW l \in Listener, Off(kind, l) PROVE IInv'
  <2>1. UNCHANGED <<batchVars, emitted, taken>> /\ \E still, x : Unregister(still, x)
    BY <1>4 DEF Off
  <2> QED
    BY <1>0, <1>1, <2>1, FramesUnregistered
<1>5. CASE Clear
  BY <1>0, <1>1, <1>5, FramesUnregistered DEF Clear
<1>6. ASSUME NEW kind \in Kinds, ClearEvent(kind) PROVE IInv'
  BY <1>0, <1>1, <1>6, FramesUnregistered DEF ClearEvent
<1>7. CASE StartBatch \/ StopBatch
  <2>1. StackTyped' /\ FlushesKept /\ Flushes' = Flushes
    BY <1>0, <1>7, StackUnchanged DEF StartBatch, StopBatch
  <2>2. (Apart /\ NoEventLost)'
    BY <1>0, <1>7, <2>1, BatchEmptied DEF StartBatch, StopBatch
  <2>3. Typed' /\ ModeKept'
    BY <1>0, <1>7, <2>1, EmptySeq DEF StartBatch, StopBatch, Typed, ModeKept
  <2> QED
    BY <2>2, <2>3 DEF IInv, EventInv
<1>8. CASE FlushBatch
  <2>1. CASE ~batchMode
    BY <1>0, <1>1, <1>8, <2>1, StackUnchanged DEF FlushBatch
  <2>2. CASE batchMode
    <3>1. /\ Push(Flush(batched)) /\ batched' = <<>> /\ UNCHANGED <<emitted, taken, asked>>
          /\ batchMode' = FALSE /\ stopped' = FALSE
      BY <1>8, <2>2 DEF FlushBatch
    <3>2. (Apart /\ NoEventLost)'
      BY <1>0, <3>1, BatchHandedOver
    <3>3. StackTyped' /\ Flushes' # {}
      BY <1>0, <3>1, FlushBegun DEF Typed
    <3>4. Typed'
      BY <1>0, <3>1, <3>3, EmptySeq DEF Typed
    <3>5. ModeKept'
      BY <1>0, <2>2, <3>1, <3>3 DEF ModeKept
    <3> QED
      BY <3>2, <3>4, <3>5 DEF IInv, EventInv
  <2> QED
    BY <2>1, <2>2
<1>9. CASE FlushNext
  <2>1. (Apart /\ NoEventLost)' /\ StackTyped' /\ Flushes' = Flushes
    BY <1>0, <1>9, NextEventDispatched, EventTaken
  <2>2. Typed' /\ ModeKept'
    BY <1>0, <1>9, <2>1 DEF FlushNext, batchVars, Typed, ModeKept
  <2> QED
    BY <2>1, <2>2 DEF IInv, EventInv
<1>10. CASE FlushEnds
  <2>1. /\ stack # <<>> /\ Top.rest = <<>> /\ Pop /\ UNCHANGED <<batched, emitted, taken>>
        /\ batchMode' = (batchMode \/ ~stopped) /\ UNCHANGED <<asked, stopped>>
    BY <1>10 DEF FlushEnds
  <2>2. StackTyped' /\ FlushesKept
    BY <1>0, <2>1, FramePopped
  <2>3. (Apart /\ NoEventLost)'
    BY <1>0, <2>1, <2>2, EventsKept
  <2>4. Typed'
    BY <1>0, <2>1, <2>2 DEF Typed
  <2>5. Flushes # {}
    <3>1. Len(stack) \in DOMAIN stack
      BY <1>0, <2>1, SequenceLen DEF StackTyped
    <3> QED
      BY <1>10, <3>1 DEF FlushEnds, Flushes, IsDispatch, Top, Last
  <2>6. ModeKept'
    BY <1>0, <2>1, <2>5 DEF ModeKept, Typed
  <2> QED
    BY <2>3, <2>4, <2>6 DEF IInv, EventInv
<1>11. CASE CallListener \/ ListenerReturns \/ GoOnWithWildcards
  <2>1. stack # <<>> /\ IsDispatch(Top) /\ UNCHANGED <<batchVars, emitted, taken>>
    BY <1>11 DEF CallListener, ListenerReturns, GoOnWithWildcards, Dispatching, Calls
  <2>2. "kind" \in DOMAIN Top /\ Top.kind = "dispatch"
    BY <1>0, <2>1, SequenceLen DEF StackTyped, Top, Last, IsDispatch
  <2>3. \E f : ReplaceTop(f) /\ "kind" \in DOMAIN f /\ f.kind = "dispatch"
    <3> DEFINE called == [Top EXCEPT !.calling = TRUE, !.next = @ + 1,
                            !.due = @ \ {<<Top.phase, Items(Top.list)[Top.next]>>}]
               back == [Top EXCEPT !.calling = FALSE]
               onward == [Top EXCEPT !.phase = "wild", !.list = wild, !.next = 1]
    <3>1. /\ "kind" \in DOMAIN called /\ called.kind = "dispatch"
          /\ "kind" \in DOMAIN back /\ back.kind = "dispatch"
          /\ "kind" \in DOMAIN onward /\ onward.kind = "dispatch"
      BY <2>2
    <3>2. ReplaceTop(called) \/ ReplaceTop(back) \/ ReplaceTop(onward)
      BY <1>11 DEF CallListener, ListenerReturns, GoOnWithWildcards
    <3> QED
      BY <3>1, <3>2
  <2>4. PICK f : ReplaceTop(f) /\ "kind" \in DOMAIN f /\ f.kind = "dispatch"
    BY <2>3
  <2> QED
    BY <1>0, <1>1, <2>1, <2>4, FrameReplaced
<1>12. CASE DispatchEnds
  BY <1>0, <1>1, <1>12, FramePopped DEF DispatchEnds, Dispatching
<1>13. CASE UNCHANGED vars
  BY <1>0, <1>1, <1>13, StackUnchanged DEF vars
<1> QED
  BY <1>2, <1>3, <1>4, <1>5, <1>6, <1>7, <1>8, <1>9, <1>10, <1>11, <1>12, <1>13 DEF Next

LEMMA IInvInvariant == Spec => []IInv
  BY InitInv, StepInv, PTL DEF Spec

\* However emit, start_batch, stop_batch and flush_batch are called, by clients
\* and by listeners in the middle of each other, every event is in exactly one
\* place: batched, to be flushed, or dispatched, handed out or dropped.
THEOREM EventsAreKept == Spec => []NoEventLost
<1>1. IInv => NoEventLost
  BY DEF IInv, EventInv
<1> QED
  BY IInvInvariant, <1>1, PTL

\* When no flush is in progress, the emitter is in the batch mode that the last
\* start_batch or stop_batch asked for.
THEOREM ModeIsAsAsked == Spec => []BatchModeAsAsked
<1>1. IInv => BatchModeAsAsked
  BY DEF IInv, EventInv, Typed, ModeKept, BatchModeAsAsked, Flushes
<1> QED
  BY IInvInvariant, <1>1, PTL

-----------------------------------------------------------------------------
(* Dispatches and the lists they walk over. *)

LEMMA SubsequenceIsOne ==
  ASSUME NEW s, IsSequence(s), NEW K, K \subseteq DOMAIN s
  PROVE  IsSequence(Subsequence(s, K))
<1>1. Len(s) \in Nat /\ DOMAIN s = 1 .. Len(s)
  BY SequenceLen
<1>2. IsFiniteSet(1 .. Len(s))
  BY <1>1, FS_Interval
<1>3. IsFiniteSet(K)
  BY <1>1, <1>2, FS_Subset
<1> DEFINE c == Cardinality(K)
           p(n) == s[Ascending(K)[n]]
           S == {p(n) : n \in 1 .. c}
<1>4. c \in Nat
  BY <1>3, FS_CardinalityType
<1>5. Subsequence(s, K) = [n \in 1 .. c |-> p(n)]
  BY Zenon DEF Subsequence
<1>6. \A n \in 1 .. c : p(n) \in S
  OBVIOUS
<1> HIDE DEF c, p, S
<1>7. [n \in 1 .. c |-> p(n)] \in Seq(S)
  BY <1>4, <1>6, IsASeq
<1> QED
  BY <1>5, <1>7, SequenceOfAny

\* Every list that is still walked over exists, and the exact and the wildcard
\* listeners are never in the same list.
Lists ==
  /\ IsSequence(lists) /\ \A L \in DOMAIN lists : IsSequence(lists[L])
  /\ exact \in {0} \cup DOMAIN lists /\ wild \in DOMAIN lists /\ exact # wild

\* `l` is in list `L` at position `n` or after it.
Ahead(l, L, n) == L # 0 /\ \E k \in DOMAIN lists[L] : n <= k /\ lists[L][k] = l

FrameTyped(f) ==
  /\ DOMAIN f = {"kind", "event", "phase", "list", "next", "calling", "due", "shifted"}
  /\ f.kind = "dispatch" /\ f.phase \in Kinds /\ f.next \in Nat \ {0} /\ f.shifted \in BOOLEAN

\* Who is due is ahead: in the list that is walked over, or in the current list
\* of wildcard listeners until the walk over that one begins.
FrameOk(f) ==
  /\ FrameTyped(f)
  /\ f.phase = "wild" => f.list \in DOMAIN lists /\ f.list # exact
  /\ f.phase = "exact" => f.list \in {0} \cup DOMAIN lists /\ f.list # wild
  /\ \A l : <<"wild", l>> \in f.due =>
       IF f.phase = "wild" THEN Ahead(l, f.list, f.next) ELSE l \in Range(lists[wild])
  /\ \A l : <<"exact", l>> \in f.due =>
       f.shifted = TRUE \/ (f.phase = "exact" /\ Ahead(l, f.list, f.next))

Frames == \A f \in Range(stack) : f.kind = "dispatch" => FrameOk(f)

WalkInv == Lists /\ Frames

LEMMA InitWalks == Init => WalkInv
<1> SUFFICES ASSUME Init PROVE WalkInv
  OBVIOUS
<1>1. lists = << <<>> >> /\ exact = 0 /\ wild = 1 /\ stack = <<>>
  BY DEF Init
<1>2. IsSequence(<<>>) /\ << <<>> >> \in Seq({<<>>})
  BY EmptySeq DEF IsSequence
<1>3. IsSequence(lists) /\ DOMAIN lists = {1} /\ lists[1] = <<>>
  <2>1. IsSequence(lists)
    BY <1>1, <1>2, SequenceOfAny
  <2>2. Len(lists) = 1 /\ lists[1] = <<>>
    BY <1>1
  <2>3. DOMAIN lists = 1 .. Len(lists)
    BY <2>1, SequenceLen
  <2> QED
    BY <2>1, <2>2, <2>3
<1>4. Lists
  BY <1>1, <1>2, <1>3 DEF Lists
<1>5. Frames
  BY <1>1 DEF Frames, Range
<1> QED
  BY <1>4, <1>5 DEF WalkInv

LEMMA RangeAppended ==
  ASSUME NEW s, IsSequence(s), NEW f
  PROVE  Range(Append(s, f)) = Range(s) \cup {f}
<1>1. Len(s) \in Nat /\ DOMAIN s = 1 .. Len(s)
  BY SequenceLen
<1> DEFINE t == Append(s, f)
<1>2. /\ Len(t) = Len(s) + 1 /\ IsSequence(t)
      /\ \A i \in 1 .. Len(s) : t[i] = s[i]
      /\ t[Len(s) + 1] = f
  BY Appended
<1> HIDE DEF t
<1>3. DOMAIN t = 1 .. Len(s) + 1
  BY <1>2, SequenceLen
<1>4. Range(t) = Range(s) \cup {f}
  BY <1>1, <1>2, <1>3 DEF Range
<1> QED
  BY <1>4 DEF t

LEMMA RangeWithoutLast ==
  ASSUME NEW s, IsSequence(s), s # <<>>
  PROVE  Range(Front(s)) \subseteq Range(s)
<1>1. Len(s) \in Nat /\ DOMAIN s = 1 .. Len(s)
  BY SequenceLen
<1>2. /\ Len(Front(s)) = Len(s) - 1 /\ IsSequence(Front(s))
      /\ \A i \in 1 .. Len(s) - 1 : Front(s)[i] = s[i]
  BY WithoutLast
<1>3. DOMAIN Front(s) = 1 .. Len(s) - 1
  BY <1>2, SequenceLen
<1> QED
  BY <1>1, <1>2, <1>3 DEF Range

\* Frames are put on the stack or replaced while the lists stay as they are.
LEMMA FramesAdded ==
  ASSUME WalkInv, UNCHANGED <<lists, exact, wild>>, NEW f,
         Range(stack') \subseteq Range(stack) \cup {f}, f.kind = "dispatch" => FrameOk(f)
  PROVE  WalkInv'
<1>1. Lists'
  BY DEF WalkInv, Lists
<1>2. \A g : FrameOk(g)' <=> FrameOk(g)
  BY DEF FrameOk, FrameTyped, Ahead
<1>3. Frames'
  BY <1>2 DEF WalkInv, Frames
<1> QED
  BY <1>1, <1>3 DEF WalkInv

\* A dispatch begins.
LEMMA DispatchOk == ASSUME Lists, NEW e PROVE FrameOk(DispatchFrame(e))
<1> DEFINE f == DispatchFrame(e)
<1>1. /\ FrameTyped(f) /\ f.phase = "exact" /\ f.list = exact /\ f.next = 1
      /\ f.due = Registered
  BY DEF DispatchFrame, Dispatch, FrameTyped, Kinds
<1> HIDE DEF f
<1>2. \A l : <<"wild", l>> \in Registered => l \in Range(lists[wild])
  BY SequenceLen DEF Registered, Items, Lists
<1>3. ASSUME NEW l, <<"exact", l>> \in Registered PROVE Ahead(l, exact, 1)
  <2>1. l \in Range(Items(exact))
    BY <1>3 DEF Registered
  <2>2. exact # 0
    BY <2>1 DEF Items, Range
  <2>3. PICK k \in DOMAIN lists[exact] : lists[exact][k] = l
    BY <2>1, <2>2 DEF Items, Range
  <2>4. k >= 1
    BY <2>2, SequenceLen DEF Lists
  <2> QED
    BY <2>2, <2>3, <2>4 DEF Ahead
<1>4. FrameOk(f)
  BY <1>1, <1>2, <1>3 DEF FrameOk, Lists
<1> QED
  BY <1>4 DEF f

-----------------------------------------------------------------------------
(* What the emitter does next in a dispatch. *)

LEMMA TopIsOk ==
  ASSUME WalkInv, IsSequence(stack), stack # <<>>, IsDispatch(Top)
  PROVE  FrameOk(Top)
<1>1. Len(stack) \in DOMAIN stack
  BY SequenceLen
<1> QED
  BY <1>1 DEF WalkInv, Frames, Range, Top, Last, IsDispatch

LEMMA ReplacedFrames ==
  ASSUME IsSequence(stack), stack # <<>>, NEW f, ReplaceTop(f)
  PROVE  Range(stack') \subseteq Range(stack) \cup {f}
<1>1. IsSequence(Front(stack)) /\ Range(Front(stack)) \subseteq Range(stack)
  BY WithoutLast, RangeWithoutLast
<1> QED
  BY <1>1, RangeAppended DEF ReplaceTop

LEMMA CalledOk ==
  ASSUME WalkInv, IsSequence(stack), CallListener
  PROVE  WalkInv'
<1> DEFINE f == Top
           l == Items(f.list)[f.next]
           g == [f EXCEPT !.calling = TRUE, !.next = @ + 1, !.due = @ \ {<<f.phase, l>>}]
<1>1. /\ stack # <<>> /\ IsDispatch(f) /\ ReplaceTop(g) /\ UNCHANGED <<lists, exact, wild>>
  BY DEF CallListener, Dispatching
<1>2. FrameOk(f)
  BY <1>1, TopIsOk
<1> HIDE DEF f
<1>3. /\ FrameTyped(g) /\ g.phase = f.phase /\ g.list = f.list /\ g.next = f.next + 1
      /\ g.due = f.due \ {<<f.phase, l>>} /\ g.shifted = f.shifted
  BY <1>2 DEF FrameOk, FrameTyped
<1> HIDE DEF g
<1>4. ASSUME NEW x, <<f.phase, x>> \in g.due, Ahead(x, f.list, f.next)
      PROVE  Ahead(x, g.list, g.next)
  <2>1. f.list # 0 /\ x # l
    BY <1>3, <1>4 DEF Ahead
  <2>2. f.list \in DOMAIN lists
    BY <1>2, <2>1 DEF FrameOk, FrameTyped, Kinds
  <2>3. PICK k \in DOMAIN lists[f.list] : f.next <= k /\ lists[f.list][k] = x
    BY <1>4 DEF Ahead
  <2>4. k # f.next
    BY <2>1, <2>3 DEF Items
  <2>5. k \in Nat /\ f.next \in Nat
    BY <1>2, <2>2, SequenceLen DEF WalkInv, Lists, FrameOk, FrameTyped
  <2>6. f.next + 1 <= k
    BY <2>3, <2>4, <2>5
  <2> QED
    BY <1>3, <2>1, <2>3, <2>6 DEF Ahead
<1>5. FrameOk(g)
  BY <1>2, <1>3, <1>4 DEF FrameOk
<1> QED
  BY <1>1, <1>5, ReplacedFrames, FramesAdded

LEMMA ReturnedOk ==
  ASSUME WalkInv, IsSequence(stack), ListenerReturns
  PROVE  WalkInv'
<1> DEFINE f == Top
           g == [f EXCEPT !.calling = FALSE]
<1>1. /\ stack # <<>> /\ IsDispatch(f) /\ ReplaceTop(g) /\ UNCHANGED <<lists, exact, wild>>
  BY DEF ListenerReturns, Calls
<1>2. FrameOk(f)
  BY <1>1, TopIsOk
<1> HIDE DEF f
<1>3. FrameOk(g)
  BY <1>2 DEF FrameOk, FrameTyped
<1> QED
  BY <1>1, <1>3, ReplacedFrames, FramesAdded

\* When the walk over a list is at its end, nobody is ahead.
LEMMA NobodyAhead ==
  ASSUME WalkInv, IsSequence(stack), Dispatching, Exhausted
  PROVE  \A l : ~Ahead(l, Top.list, Top.next)
<1> DEFINE f == Top
<1>1. FrameOk(f) /\ f.next > Len(Items(f.list))
  BY TopIsOk DEF Dispatching, Exhausted
<1> HIDE DEF f
<1>2. SUFFICES ASSUME NEW l, Ahead(l, f.list, f.next) PROVE FALSE
  BY DEF f
<1>3. f.list \in DOMAIN lists /\ f.list # 0
  BY <1>1, <1>2 DEF FrameOk, FrameTyped, Kinds, Ahead
<1>4. PICK k \in DOMAIN lists[f.list] : f.next <= k
  BY <1>2 DEF Ahead
<1>5. Len(lists[f.list]) \in Nat /\ DOMAIN lists[f.list] = 1 .. Len(lists[f.list])
  BY <1>3, SequenceLen DEF WalkInv, Lists
<1>6. f.next > Len(lists[f.list]) /\ f.next \in Nat
  BY <1>1, <1>3 DEF Items, FrameOk, FrameTyped
<1> QED
  BY <1>4, <1>5, <1>6

LEMMA OnwardOk ==
  ASSUME WalkInv, IsSequence(stack), GoOnWithWildcards
  PROVE  WalkInv'
<1> DEFINE f == Top
           g == [f EXCEPT !.phase = "wild", !.list = wild, !.next = 1]
<1>1. /\ stack # <<>> /\ IsDispatch(f) /\ ReplaceTop(g) /\ UNCHANGED <<lists, exact, wild>>
      /\ f.phase = "exact" /\ \A l : ~Ahead(l, f.list, f.next)
  BY NobodyAhead DEF GoOnWithWildcards, Dispatching
<1>2. FrameOk(f)
  BY <1>1, TopIsOk
<1> HIDE DEF f
<1>3. /\ FrameTyped(g) /\ g.phase = "wild" /\ g.list = wild /\ g.next = 1
      /\ g.due = f.due /\ g.shifted = f.shifted
  BY <1>2 DEF FrameOk, FrameTyped, Kinds
<1> HIDE DEF g
<1>4. ASSUME NEW l, <<"wild", l>> \in g.due PROVE Ahead(l, g.list, g.next)
  <2>1. l \in Range(lists[wild])
    BY <1>1, <1>2, <1>3, <1>4 DEF FrameOk
  <2>2. wild # 0 /\ DOMAIN lists[wild] \subseteq Nat \ {0}
    BY SequenceLen DEF WalkInv, Lists
  <2> QED
    BY <1>3, <2>1, <2>2 DEF Ahead, Range
<1>5. \A l : <<"exact", l>> \in g.due => g.shifted = TRUE
  BY <1>1, <1>2, <1>3 DEF FrameOk
<1>6. FrameOk(g)
  BY <1>3, <1>4, <1>5 DEF FrameOk, WalkInv, Lists
<1> QED
  BY <1>1, <1>6, ReplacedFrames, FramesAdded

-----------------------------------------------------------------------------
(* What registering and unregistering does to the dispatches in progress. *)

LEMMA ListReplaced ==
  ASSUME NEW s, IsSequence(s), NEW L \in DOMAIN s, NEW x
  PROVE  /\ IsSequence([s EXCEPT ![L] = x]) /\ DOMAIN [s EXCEPT ![L] = x] = DOMAIN s
         /\ Len([s EXCEPT ![L] = x]) = Len(s)
         /\ [s EXCEPT ![L] = x][L] = x
         /\ \A i \in DOMAIN s \ {L} : [s EXCEPT ![L] = x][i] = s[i]
<1> DEFINE S == Range(s) \cup {x}
           t == [s EXCEPT ![L] = x]
<1>1. s \in Seq(S) /\ x \in S
  BY SeqMonotonic DEF IsSequence
<1> HIDE DEF S
<1>2. L \in 1 .. Len(s) /\ DOMAIN s = 1 .. Len(s)
  BY SequenceLen
<1>3. t \in Seq(S) /\ Len(t) = Len(s)
  BY <1>1, <1>2, ExceptSeq
<1>4. IsSequence(t)
  BY <1>3, SequenceOfAny
<1>5. DOMAIN t = DOMAIN s /\ t[L] = x /\ \A i \in DOMAIN s \ {L} : t[i] = s[i]
  OBVIOUS
<1> QED
  BY <1>3, <1>4, <1>5

LEMMA ListAdded ==
  ASSUME NEW s, IsSequence(s), NEW x
  PROVE  /\ IsSequence(Append(s, x)) /\ DOMAIN Append(s, x) = DOMAIN s \cup {Len(s) + 1}
         /\ Append(s, x)[Len(s) + 1] = x /\ Len(s) + 1 \notin {0} \cup DOMAIN s
         /\ \A i \in DOMAIN s : Append(s, x)[i] = s[i]
<1>1. Len(s) \in Nat /\ DOMAIN s = 1 .. Len(s)
  BY SequenceLen
<1>2. DOMAIN Append(s, x) = 1 .. Len(s) + 1
  BY <1>1, Appended, SequenceLen
<1> QED
  BY <1>1, <1>2, Appended

\* The lists only become longer, and a new one is nobody's yet.
LEMMA ListsExtended ==
  ASSUME WalkInv, Lists', UNCHANGED <<wild, stack>>, DOMAIN lists \subseteq DOMAIN lists',
         exact' = exact \/ exact' \notin DOMAIN lists,
         \A L \in DOMAIN lists : \A k \in DOMAIN lists[L] :
           k \in DOMAIN lists'[L] /\ lists'[L][k] = lists[L][k]
  PROVE  WalkInv'
<1>1. SUFFICES ASSUME NEW f \in Range(stack), f.kind = "dispatch" PROVE FrameOk(f)'
  BY DEF WalkInv, Frames
<1>2. FrameOk(f)
  BY <1>1 DEF WalkInv, Frames
<1>3. f.list \in {0} \cup DOMAIN lists
  BY <1>2 DEF FrameOk, FrameTyped, Kinds
<1>4. \A l : Ahead(l, f.list, f.next) => Ahead(l, f.list, f.next)'
  BY <1>3 DEF Ahead
<1>5. \A l : l \in Range(lists[wild]) => l \in Range(lists'[wild'])
  BY DEF Range, WalkInv, Lists
<1> QED
  BY <1>2, <1>4, <1>5 DEF FrameOk, FrameTyped

LEMMA OnOk ==
  ASSUME WalkInv, NEW kind, NEW l, On(kind, l)
  PROVE  WalkInv'
<1> USE DEF WalkInv, Lists
<1>1. ASSUME NEW L \in DOMAIN lists, UNCHANGED <<wild, exact, stack>>,
             lists' = [lists EXCEPT ![L] = Append(@, l)]
      PROVE  WalkInv'
  <2>1. /\ IsSequence(lists') /\ DOMAIN lists' = DOMAIN lists
        /\ lists'[L] = Append(lists[L], l)
        /\ \A i \in DOMAIN lists \ {L} : lists'[i] = lists[i]
    BY <1>1, ListReplaced
  <2>2. /\ IsSequence(lists'[L])
        /\ \A k \in DOMAIN lists[L] : k \in DOMAIN lists'[L] /\ lists'[L][k] = lists[L][k]
    BY <2>1, ListAdded
  <2>3. Lists'
    BY <1>1, <2>1, <2>2
  <2> HIDE DEF WalkInv, Lists
  <2> QED
    BY <1>1, <2>1, <2>2, <2>3, ListsExtended
<1>2. ASSUME exact = 0, lists' = Append(lists, <<l>>), exact' = Len(lists) + 1, UNCHANGED <<wild, stack>>
      PROVE  WalkInv'
  <2>1. IsSequence(<<l>>)
    <3>1. <<l>> \in Seq({l})
      OBVIOUS
    <3> QED
      BY <3>1, SequenceOfAny
  <2>2. /\ IsSequence(lists') /\ DOMAIN lists' = DOMAIN lists \cup {exact'}
        /\ lists'[exact'] = <<l>> /\ exact' \notin DOMAIN lists
        /\ \A i \in DOMAIN lists : lists'[i] = lists[i]
    BY <1>2, ListAdded
  <2>3. Lists'
    BY <1>2, <2>1, <2>2
  <2> HIDE DEF WalkInv, Lists
  <2> QED
    BY <1>2, <2>2, <2>3, ListsExtended
<1> QED
  BY <1>1, <1>2 DEF On

\* Frame g is what an unregistration in list L has made of frame f.
TookOver(f, g, still, L) ==
  /\ FrameOk(f) /\ FrameTyped(g)
  /\ g.phase = f.phase /\ g.list = f.list /\ g.next = f.next
  /\ \A d : d \in g.due => d \in f.due /\ d \in still
  /\ f.shifted = TRUE => g.shifted = TRUE
  /\ f.phase = "exact" /\ f.list = L => g.shifted = TRUE

\* A dispatch in progress after something was unregistered.
LEMMA UnregisteredFrame ==
  ASSUME IsSequence(stack), Frames, NEW still, NEW L, Unregister(still, L),
         NEW g \in Range(stack'), g.kind = "dispatch"
  PROVE  \E f : TookOver(f, g, still, L)
<1>1. PICK i \in DOMAIN stack :
        g = IF ~IsDispatch(stack[i]) THEN stack[i]
            ELSE [stack[i] EXCEPT
                    !.due = {d \in @ : d \in still},
                    !.shifted = @ \/ (stack[i].phase = "exact" /\ stack[i].list = L)]
  BY DEF Unregister, Range
<1>2. PICK f \in Range(stack) : f = stack[i]
  BY DEF Range
<1>3. IsDispatch(f)
  BY <1>1, <1>2 DEF IsDispatch
<1>4. FrameOk(f)
  BY <1>3 DEF Frames, IsDispatch
<1> DEFINE due == {d \in f.due : d \in still}
           shifted == f.shifted \/ (f.phase = "exact" /\ f.list = L)
<1>5. g = [f EXCEPT !.due = due, !.shifted = shifted]
  BY <1>1, <1>2, <1>3
<1>6. /\ shifted \in BOOLEAN
      /\ f.shifted = TRUE => shifted = TRUE
      /\ f.phase = "exact" /\ f.list = L => shifted = TRUE
  BY <1>4 DEF FrameOk, FrameTyped
<1>7. \A d : d \in due => d \in f.due /\ d \in still
  OBVIOUS
<1> HIDE DEF due, shifted
<1>8. /\ FrameTyped(g) /\ g.phase = f.phase /\ g.list = f.list /\ g.next = f.next
      /\ g.due = due /\ g.shifted = shifted
  BY <1>4, <1>5, <1>6 DEF FrameOk, FrameTyped
<1>9. TookOver(f, g, still, L)
  BY <1>4, <1>6, <1>7, <1>8 DEF TookOver
<1> QED
  BY <1>9

\* What a new list of wildcard listeners needs to be, when frames are told of
\* what is still registered.
LEMMA UnregisteredOk ==
  ASSUME WalkInv, IsSequence(stack), Lists', NEW still, NEW L, Unregister(still, L),
         exact' \in {0, exact}, wild' = wild \/ wild' \notin {0} \cup DOMAIN lists,
         DOMAIN lists \subseteq DOMAIN lists',
         \A l : <<"wild", l>> \in still /\ l \in Range(lists[wild]) => l \in Range(lists'[wild']),
         still = {} \/ \A i \in DOMAIN lists : lists'[i] = lists[i] \/ (i = L /\ i = exact)
  PROVE  WalkInv'
<1>1. SUFFICES ASSUME NEW g \in Range(stack'), g.kind = "dispatch" PROVE FrameOk(g)'
  BY DEF WalkInv, Frames
<1>2. PICK f : /\ FrameOk(f) /\ FrameTyped(g)
               /\ g.phase = f.phase /\ g.list = f.list /\ g.next = f.next
               /\ \A d : d \in g.due => d \in f.due /\ d \in still
               /\ f.shifted = TRUE => g.shifted = TRUE
               /\ f.phase = "exact" /\ f.list = L => g.shifted = TRUE
  <2>1. Frames
    BY DEF WalkInv
  <2>2. PICK f : TookOver(f, g, still, L)
    <3> HIDE DEF WalkInv, Frames, Lists, Unregister, IsSequence
    <3> QED
      BY <1>1, <2>1, UnregisteredFrame
  <2> QED
    BY <2>2 DEF TookOver
<1>3. ASSUME NEW l, Ahead(l, f.list, f.next), still # {}, f.list # exact \/ f.list # L
      PROVE  Ahead(l, g.list, g.next)'
  <2>1. f.list \in DOMAIN lists
    BY <1>2, <1>3 DEF Ahead, FrameOk, FrameTyped, Kinds
  <2>2. lists'[f.list] = lists[f.list]
    BY <1>3, <2>1
  <2> QED
    BY <1>2, <1>3, <2>2 DEF Ahead
<1>4. g.phase = "wild" => g.list \in DOMAIN lists' /\ g.list # exact'
  <2>1. g.phase = "wild" => g.list \in DOMAIN lists /\ g.list # exact
    BY <1>2 DEF FrameOk
  <2>2. 0 \notin DOMAIN lists
    BY SequenceLen DEF WalkInv, Lists
  <2> QED
    BY <2>1, <2>2
<1>5. g.phase = "exact" => g.list \in {0} \cup DOMAIN lists' /\ g.list # wild'
  BY <1>2 DEF FrameOk
<1>6. ASSUME NEW l, <<"wild", l>> \in g.due
      PROVE  IF g.phase = "wild" THEN Ahead(l, g.list, g.next)' ELSE l \in Range(lists'[wild'])
  <2>1. <<"wild", l>> \in f.due /\ <<"wild", l>> \in still
    BY <1>2, <1>6
  <2>2. CASE g.phase = "wild"
    <3>1. f.list # exact /\ Ahead(l, f.list, f.next)
      BY <1>2, <2>1, <2>2 DEF FrameOk
    <3> QED
      BY <1>3, <2>1, <2>2, <3>1
  <2>3. CASE g.phase # "wild"
    BY <1>2, <2>1, <2>3 DEF FrameOk
  <2> QED
    BY <2>2, <2>3
<1>7. ASSUME NEW l, <<"exact", l>> \in g.due, g.shifted # TRUE
      PROVE  g.phase = "exact" /\ Ahead(l, g.list, g.next)'
  <2>1. <<"exact", l>> \in f.due /\ <<"exact", l>> \in still
    BY <1>2, <1>7
  <2>2. f.phase = "exact" /\ Ahead(l, f.list, f.next) /\ f.list # L
    BY <1>2, <1>7, <2>1 DEF FrameOk
  <2> QED
    BY <1>2, <1>3, <2>1, <2>2
<1>8. FrameTyped(g)'
  BY <1>2 DEF FrameTyped
<1> QED
  BY <1>4, <1>5, <1>6, <1>7, <1>8 DEF FrameOk

LEMMA OffOk ==
  ASSUME WalkInv, IsSequence(stack), NEW kind, NEW l, Off(kind, l)
  PROVE  WalkInv'
<1> DEFINE exactItems == IF kind = "exact" THEN WithoutFirst(Items(exact), l) ELSE Items(exact)
           wildItems == IF kind = "wild" THEN WithoutAll(Items(wild), l) ELSE Items(wild)
           base == IF exact = 0 THEN lists ELSE [lists EXCEPT ![exact] = exactItems]
           still == {<<"exact", x>> : x \in Range(exactItems)} \cup {<<"wild", x>> : x \in Range(wildItems)}
           L == IF exactItems = Items(exact) THEN 0 ELSE exact
<1>1. /\ lists' = Append(base, wildItems) /\ wild' = Len(lists) + 1 /\ exact' = exact
      /\ Unregister(still, L)
  BY DEF Off
<1>2. Lists
  BY DEF WalkInv
<1>3. IsSequence(exactItems) /\ IsSequence(wildItems)
  <2>1. IsSequence(<<>>)
    BY EmptySeq DEF IsSequence
  <2>2. IsSequence(Items(exact)) /\ IsSequence(Items(wild))
    BY <1>2, <2>1 DEF Lists, Items
  <2>3. IsSequence(WithoutFirst(Items(exact), l)) /\ IsSequence(WithoutAll(Items(wild), l))
    BY <2>2, SubsequenceIsOne DEF WithoutFirst, WithoutAll
  <2> QED
    BY <2>2, <2>3
<1>4. 0 \notin DOMAIN lists
  BY <1>2, SequenceLen DEF Lists
<1>5. exact # 0 => (exactItems = Items(exact) <=> exactItems = lists[exact])
  BY DEF Items
<1>6. \A x : <<"wild", x>> \in still => x \in Range(wildItems)
  OBVIOUS
<1> HIDE DEF exactItems, wildItems, still
<1>7. /\ IsSequence(base) /\ DOMAIN base = DOMAIN lists /\ Len(base) = Len(lists)
      /\ \A i \in DOMAIN lists : IsSequence(base[i]) /\ (base[i] = lists[i] \/ (i = L /\ i = exact))
  <2>1. CASE exact = 0
    BY <1>2, <2>1 DEF Lists
  <2>2. CASE exact # 0
    <3>1. /\ IsSequence(base) /\ DOMAIN base = DOMAIN lists /\ Len(base) = Len(lists)
          /\ base[exact] = exactItems /\ \A i \in DOMAIN lists \ {exact} : base[i] = lists[i]
      BY <1>2, <2>2, ListReplaced DEF Lists
    <3> HIDE DEF base
    <3> QED
      BY <1>2, <1>3, <1>5, <2>2, <3>1 DEF Lists
  <2> QED
    BY <2>1, <2>2
<1> HIDE DEF base, L
<1>8. /\ IsSequence(lists') /\ DOMAIN lists' = DOMAIN lists \cup {wild'}
      /\ lists'[wild'] = wildItems /\ wild' \notin {0} \cup DOMAIN lists
      /\ \A i \in DOMAIN lists : lists'[i] = base[i]
  BY <1>1, <1>7, ListAdded
<1>9. Lists'
  BY <1>1, <1>2, <1>3, <1>7, <1>8 DEF Lists
<1> QED
  BY <1>1, <1>6, <1>7, <1>8, <1>9, UnregisteredOk

LEMMA ClearOk ==
  ASSUME WalkInv, IsSequence(stack), Clear
  PROVE  WalkInv'
<1>1. lists' = [lists EXCEPT ![wild] = <<>>] /\ exact' = 0 /\ wild' = wild /\ Unregister({}, 0)
  BY DEF Clear
<1>2. Lists /\ IsSequence(<<>>)
  BY EmptySeq DEF WalkInv, IsSequence
<1>3. /\ IsSequence(lists') /\ DOMAIN lists' = DOMAIN lists
      /\ \A i \in DOMAIN lists : lists'[i] = <<>> \/ lists'[i] = lists[i]
  BY <1>1, <1>2, ListReplaced DEF Lists
<1>4. 0 \notin DOMAIN lists
  BY <1>2, SequenceLen DEF Lists
<1>5. Lists'
  BY <1>1, <1>2, <1>3, <1>4 DEF Lists
<1> QED
  BY <1>1, <1>3, <1>5, UnregisteredOk

LEMMA ClearEventOk ==
  ASSUME WalkInv, IsSequence(stack), NEW kind \in Kinds, ClearEvent(kind)
  PROVE  WalkInv'
<1> DEFINE wildItems == IF kind = "wild" THEN <<>> ELSE Items(wild)
           still == {d \in Kinds \X Listener : d[1] # kind}
<1>1. /\ lists' = Append(lists, wildItems) /\ wild' = Len(lists) + 1
      /\ exact' \in {0, exact} /\ Unregister(still, 0)
  BY DEF ClearEvent
<1>2. Lists /\ IsSequence(<<>>)
  BY EmptySeq DEF WalkInv, IsSequence
<1>3. IsSequence(wildItems)
  BY <1>2 DEF Lists, Items
<1>4. \A l : <<"wild", l>> \in still /\ l \in Range(lists[wild]) => l \in Range(wildItems)
  BY <1>2, SequenceLen DEF Lists, Items
<1> HIDE DEF wildItems, still
<1>5. /\ IsSequence(lists') /\ DOMAIN lists' = DOMAIN lists \cup {wild'}
      /\ lists'[wild'] = wildItems /\ wild' \notin {0} \cup DOMAIN lists
      /\ \A i \in DOMAIN lists : lists'[i] = lists[i]
  BY <1>1, <1>2, ListAdded DEF Lists
<1>6. Lists'
  BY <1>1, <1>2, <1>3, <1>5 DEF Lists
<1> QED
  BY <1>1, <1>4, <1>5, <1>6, UnregisteredOk

LEMMA StepWalks == IInv /\ WalkInv /\ [Next]_vars => WalkInv'
<1> SUFFICES ASSUME IInv, WalkInv, [Next]_vars PROVE WalkInv'
  OBVIOUS
<1>0. IsSequence(stack) /\ Lists
  BY DEF IInv, EventInv, Typed, StackTyped, WalkInv
<1>1. ASSUME UNCHANGED <<lists, exact, wild>>, Range(stack') \subseteq Range(stack) PROVE WalkInv'
  <2>1. Lists'
    BY <1>0, <1>1 DEF Lists
  <2>2. \A g : FrameOk(g)' <=> FrameOk(g)
    BY <1>1 DEF FrameOk, FrameTyped, Ahead
  <2> QED
    BY <1>1, <2>1, <2>2 DEF WalkInv, Frames
<1>2. ASSUME NEW e, UNCHANGED <<lists, exact, wild>>,
             Range(stack') \subseteq Range(stack) \cup {DispatchFrame(e)}
      PROVE  WalkInv'
  BY <1>0, <1>2, DispatchOk, FramesAdded
<1>3. CASE Emit
  <2>1. UNCHANGED <<lists, exact, wild>> /\ (UNCHANGED stack \/ Push(DispatchFrame(emitted + 1)))
    BY <1>3 DEF Emit
  <2>2. CASE UNCHANGED stack
    BY <1>1, <2>1, <2>2
  <2>3. CASE Push(DispatchFrame(emitted + 1))
    BY <1>0, <1>2, <2>1, <2>3, RangeAppended DEF Push
  <2> QED
    BY <2>1, <2>2, <2>3
<1>4. CASE StartBatch \/ StopBatch
  BY <1>1, <1>4 DEF StartBatch, StopBatch
<1>5. CASE FlushBatch
  <2>1. UNCHANGED <<lists, exact, wild>> /\ (UNCHANGED stack \/ Push(Flush(batched)))
    BY <1>5 DEF FlushBatch
  <2>2. CASE UNCHANGED stack
    BY <1>1, <2>1, <2>2
  <2>3. CASE Push(Flush(batched))
    <3>1. Flush(batched).kind # "dispatch"
      BY DEF Flush
    <3> QED
      BY <1>0, <2>1, <2>3, <3>1, RangeAppended, FramesAdded DEF Push
  <2> QED
    BY <2>1, <2>2, <2>3
<1>6. CASE FlushNext
  <2> DEFINE f == Flush(Tail(Top.rest))
             d == DispatchFrame(Head(Top.rest))
  <2>1. /\ stack # <<>> /\ stack' = Front(stack) \o <<f, d>> /\ UNCHANGED <<lists, exact, wild>>
    BY <1>6 DEF FlushNext
  <2>2. f.kind # "dispatch" /\ FrameOk(d)
    BY <1>0, DispatchOk DEF Flush
  <2> HIDE DEF f, d
  <2>3. IsSequence(Front(stack)) /\ Range(Front(stack)) \subseteq Range(stack)
    BY <1>0, <2>1, WithoutLast, RangeWithoutLast
  <2>4. stack' = Append(Append(Front(stack), f), d)
    <3> DEFINE S == Range(Front(stack)) \cup {f, d}
    <3>1. Front(stack) \in Seq(S) /\ f \in S /\ d \in S
      BY <2>3, SeqMonotonic DEF IsSequence
    <3> HIDE DEF S
    <3>2. \A s \in Seq(S) : s \o <<f, d>> = Append(Append(s, f), d)
      BY <3>1
    <3> QED
      BY <2>1, <3>1, <3>2
  <2>5. Range(stack') = Range(Front(stack)) \cup {f} \cup {d}
    BY <2>3, <2>4, RangeAppended, Appended
  <2>6. \A g : FrameOk(g)' <=> FrameOk(g)
    BY <2>1 DEF FrameOk, FrameTyped, Ahead
  <2>7. Frames'
    BY <2>2, <2>3, <2>5, <2>6 DEF WalkInv, Frames
  <2>8. Lists'
    BY <1>0, <2>1 DEF Lists
  <2> QED
    BY <2>7, <2>8 DEF WalkInv
<1>7. CASE FlushEnds \/ DispatchEnds
  <2>1. stack # <<>> /\ Pop /\ UNCHANGED <<lists, exact, wild>>
    BY <1>7 DEF FlushEnds, DispatchEnds, Dispatching
  <2> QED
    BY <1>0, <1>1, <2>1, RangeWithoutLast DEF Pop
<1>8. CASE UNCHANGED vars
  BY <1>1, <1>8 DEF vars
<1> QED
  BY <1>0, <1>3, <1>4, <1>5, <1>6, <1>7, <1>8, CalledOk, ReturnedOk, OnwardOk, OnOk, OffOk,
     ClearOk, ClearEventOk DEF Next

LEMMA WalksInvariant == Spec => []WalkInv
  BY InitInv, StepInv, InitWalks, StepWalks, PTL DEF Spec

\* A dispatch calls every listener that stays registered until its end, however
\* many listeners register, unregister, emit and flush while it goes on; one
\* under the exact name is skipped only if another one was removed in place.
THEOREM NobodySkipped == Spec => []RegisteredAreCalled
<1>1. IInv /\ WalkInv => RegisteredAreCalled
  <2> SUFFICES ASSUME IInv, WalkInv, Dispatching, Exhausted, NEW l \in Listener
               PROVE  /\ Top.phase = "wild" => <<"wild", l>> \notin Top.due
                      /\ <<"exact", l>> \in Top.due => Top.shifted
    BY DEF RegisteredAreCalled
  <2>1. IsSequence(stack)
    BY DEF IInv, EventInv, Typed, StackTyped
  <2>2. FrameOk(Top)
    BY <2>1, TopIsOk DEF Dispatching
  <2>3. ~Ahead(l, Top.list, Top.next)
    BY <2>1, NobodyAhead
  <2> QED
    BY <2>2, <2>3 DEF FrameOk
<1> QED
  BY IInvInvariant, WalksInvariant, <1>1, PTL
=============================================================================
