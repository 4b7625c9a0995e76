---------------------------- MODULE EventEmitter ----------------------------
(***************************************************************************)
(* EventEmitter, the object through which a client hears of what its        *)
(* operations do.  A listener is called in the middle of emit or            *)
(* flush_batch and may call any method of the emitter itself, so calls nest *)
(* and the lists that are being iterated over change under the iteration.   *)
(* The model has one type of event; a listener is registered under its      *)
(* exact name or under a wildcard pattern that matches it.                  *)
(*                                                                         *)
(* Python lists are objects: `lists` holds them by identity, and a method   *)
(* changes one in place or binds a new one as the code does.                *)
(***************************************************************************)
EXTENDS Subsequences, SequencesExt

CONSTANTS
  Listener,
  MaxCalls,   \* bound on the calls of the emitter's methods
  MaxDepth    \* bound on how deep flushes and dispatches nest

ASSUME EventEmitterAssumption == MaxCalls \in Nat /\ MaxDepth \in Nat

VARIABLES
  lists,      \* list objects, by identity
  exact,      \* _listeners[event]: a list, or 0 when the key is missing
  wild,       \* the list that _wildcard_listeners is bound to
  batchMode,  \* _batch_mode
  batched,    \* _batched_events
  stopped,    \* _batch_stopped_during_flush
  stack,      \* the flushes and dispatches that are in progress, the last on top
  emitted,    \* number of events emitted so far; events are numbered
  calls,
  asked,      \* what the last start_batch or stop_batch asked for
  taken       \* events dispatched, returned by stop_batch, dropped by start_batch

batchVars == <<batchMode, batched, stopped, asked>>
vars == <<lists, exact, wild, batchVars, stack, emitted, calls, taken>>

Kinds == {"exact", "wild"}
Event == 1 .. emitted

\* A frame of _dispatch: `due` are the registrations it has yet to serve,
\* `shifted` says that a list it walks over has lost an element meanwhile.
Dispatch(e, due) ==
  [kind |-> "dispatch", event |-> e, phase |-> "exact", list |-> exact, next |-> 1,
   calling |-> FALSE, due |-> due, shifted |-> FALSE]

Flush(events) == [kind |-> "flush", rest |-> events]

IsDispatch(f) == f.kind = "dispatch"
Calls(f) == IsDispatch(f) /\ f.calling
Items(l) == IF l = 0 THEN <<>> ELSE lists[l]

Init ==
  /\ lists = << <<>> >> /\ exact = 0 /\ wild = 1
  /\ batchMode = FALSE /\ batched = <<>> /\ stopped = FALSE /\ asked = FALSE
  /\ stack = <<>>
  /\ emitted = 0 /\ calls = 0 /\ taken = {}

-----------------------------------------------------------------------------
Top == Last(stack)
Push(f) == stack' = Append(stack, f)
Pop == stack' = Front(stack)
ReplaceTop(f) == stack' = Append(Front(stack), f)

\* Client code runs at the outermost level and inside listeners.
UserCall ==
  /\ stack # <<>> => Calls(Top)
  /\ calls < MaxCalls /\ calls' = calls + 1

Registered == {<<"exact", l>> : l \in Range(Items(exact))}
                \cup {<<"wild", l>> : l \in Range(Items(wild))}

\* _dispatch begins.
DispatchFrame(e) == Dispatch(e, Registered)

Emit ==
  /\ UserCall
  /\ emitted' = emitted + 1
  /\ IF batchMode
       THEN batched' = Append(batched, emitted + 1) /\ UNCHANGED <<stack, taken>>
       ELSE /\ Len(stack) < MaxDepth
            /\ Push(DispatchFrame(emitted + 1))
            /\ taken' = taken \cup {emitted + 1}
            /\ UNCHANGED batched
  /\ UNCHANGED <<lists, exact, wild, batchMode, stopped, asked>>

\* on appends in place, or makes the list.
On(kind, l) ==
  /\ UserCall
  /\ IF kind = "wild"
       THEN lists' = [lists EXCEPT ![wild] = Append(@, l)] /\ UNCHANGED exact
       ELSE IF exact = 0
         THEN lists' = Append(lists, <<l>>) /\ exact' = Len(lists) + 1
         ELSE lists' = [lists EXCEPT ![exact] = Append(@, l)] /\ UNCHANGED exact
  /\ UNCHANGED <<wild, batchVars, stack, emitted, taken>>

\* What is no longer registered is not due any more.  A dispatch that walks
\* over the list object `l` has it shortened under it.
Unregister(still, l) ==
  stack' = [i \in DOMAIN stack |->
    IF ~IsDispatch(stack[i]) THEN stack[i]
    ELSE [stack[i] EXCEPT
            !.due = {d \in @ : d \in still},
            !.shifted = @ \/ (stack[i].phase = "exact" /\ stack[i].list = l)]]

WithoutFirst(s, x) ==
  Subsequence(s, {i \in DOMAIN s : s[i] # x \/ \E j \in 1 .. (i - 1) : s[j] = x})

WithoutAll(s, x) == Subsequence(s, {i \in DOMAIN s : s[i] # x})

\* Faulty Off: removes wildcard listeners in place as well.
OffInPlace(kind, l) ==
  LET exactItems == IF kind = "exact" THEN WithoutFirst(Items(exact), l) ELSE Items(exact)
      wildItems == IF kind = "wild" THEN WithoutAll(Items(wild), l) ELSE Items(wild)
  IN /\ UserCall
     /\ lists' = [i \in DOMAIN lists |->
          IF i = exact THEN exactItems ELSE IF i = wild THEN wildItems ELSE lists[i]]
     /\ Unregister({<<"exact", x>> : x \in Range(exactItems)}
                     \cup {<<"wild", x>> : x \in Range(wildItems)},
                   IF exactItems = Items(exact) THEN 0 ELSE exact)
     /\ UNCHANGED <<exact, wild, batchVars, emitted, taken>>

\* off removes the first entry from the exact list in place; it always binds a
\* new list of wildcard listeners, one without the entries it removes.
Off(kind, l) ==
  LET exactItems == IF kind = "exact" THEN WithoutFirst(Items(exact), l) ELSE Items(exact)
      wildItems == IF kind = "wild" THEN WithoutAll(Items(wild), l) ELSE Items(wild)
  IN /\ UserCall
     /\ lists' = Append(IF exact = 0 THEN lists ELSE [lists EXCEPT ![exact] = exactItems],
                        wildItems)
     /\ wild' = Len(lists) + 1
     /\ Unregister({<<"exact", x>> : x \in Range(exactItems)}
                     \cup {<<"wild", x>> : x \in Range(wildItems)},
                   IF exactItems = Items(exact) THEN 0 ELSE exact)
     /\ UNCHANGED <<exact, batchVars, emitted, taken>>

\* clear() drops the exact lists and empties the wildcard list in place.
Clear ==
  /\ UserCall
  /\ exact' = 0
  /\ lists' = [lists EXCEPT ![wild] = <<>>]
  /\ Unregister({}, 0)
  /\ UNCHANGED <<wild, batchVars, emitted, taken>>

\* clear(event): one name or one pattern.
ClearEvent(kind) ==
  LET wildItems == IF kind = "wild" THEN <<>> ELSE Items(wild)
  IN /\ UserCall
     /\ exact' = IF kind = "exact" THEN 0 ELSE exact
     /\ lists' = Append(lists, wildItems) /\ wild' = Len(lists) + 1
     /\ Unregister({d \in Kinds \X Listener : d[1] # kind}, 0)
     /\ UNCHANGED <<batchVars, emitted, taken>>

\* start_batch drops what an earlier batch still holds.
StartBatch ==
  /\ UserCall
  /\ batchMode' = TRUE /\ asked' = TRUE
  /\ batched' = <<>> /\ taken' = taken \cup Range(batched)
  /\ stopped' = FALSE
  /\ UNCHANGED <<lists, exact, wild, stack, emitted>>

StopBatch ==
  /\ UserCall
  /\ batchMode' = FALSE /\ asked' = FALSE
  /\ stopped' = TRUE
  /\ batched' = <<>> /\ taken' = taken \cup Range(batched)
  /\ UNCHANGED <<lists, exact, wild, stack, emitted>>

\* Faulty FlushBatch: the batch keeps the events it hands to the flush.
FlushKeepsBatch ==
  /\ UserCall
  /\ IF ~batchMode THEN UNCHANGED <<batchVars, stack>>
     ELSE /\ Len(stack) < MaxDepth - 1
          /\ Push(Flush(batched))
          /\ batchMode' = FALSE /\ stopped' = FALSE
          /\ UNCHANGED <<asked, batched>>
  /\ UNCHANGED <<lists, exact, wild, emitted, taken>>

FlushBatch ==
  /\ UserCall
  /\ IF ~batchMode THEN UNCHANGED <<batchVars, stack>>
     ELSE /\ Len(stack) < MaxDepth - 1
          /\ Push(Flush(batched))
          /\ batched' = <<>> /\ batchMode' = FALSE /\ stopped' = FALSE
          /\ UNCHANGED asked
  /\ UNCHANGED <<lists, exact, wild, emitted, taken>>

-----------------------------------------------------------------------------
(* What goes on in the emitter itself. *)

\* The next event of the batch.
FlushNext ==
  /\ stack # <<>> /\ Top.kind = "flush" /\ Top.rest # <<>>
  /\ stack' = Front(stack) \o <<Flush(Tail(Top.rest)), DispatchFrame(Head(Top.rest))>>
  /\ taken' = taken \cup {Head(Top.rest)}
  /\ UNCHANGED <<lists, exact, wild, batchVars, emitted, calls>>

\* Faulty FlushEnds: batch mode always comes back.
FlushRestores ==
  /\ stack # <<>> /\ Top.kind = "flush" /\ Top.rest = <<>>
  /\ Pop
  /\ batchMode' = TRUE
  /\ UNCHANGED <<lists, exact, wild, batched, stopped, asked, emitted, calls, taken>>

\* Batch mode comes back unless a listener has called stop_batch.
FlushEnds ==
  /\ stack # <<>> /\ Top.kind = "flush" /\ Top.rest = <<>>
  /\ Pop
  /\ batchMode' = (batchMode \/ ~stopped)
  /\ UNCHANGED <<lists, exact, wild, batched, stopped, asked, emitted, calls, taken>>

Dispatching == stack # <<>> /\ IsDispatch(Top) /\ ~Top.calling
Exhausted == Top.next > Len(Items(Top.list))

CallListener ==
  /\ Dispatching /\ ~Exhausted
  /\ ReplaceTop([Top EXCEPT !.calling = TRUE, !.next = @ + 1,
                            !.due = @ \ {<<Top.phase, Items(Top.list)[Top.next]>>}])
  /\ UNCHANGED <<lists, exact, wild, batchVars, emitted, calls, taken>>

\* A listener returns, or raises: _handle_listener_error.
ListenerReturns ==
  /\ stack # <<>> /\ Calls(Top)
  /\ ReplaceTop([Top EXCEPT !.calling = FALSE])
  /\ UNCHANGED <<lists, exact, wild, batchVars, emitted, calls, taken>>

GoOnWithWildcards ==
  /\ Dispatching /\ Exhausted /\ Top.phase = "exact"
  /\ ReplaceTop([Top EXCEPT !.phase = "wild", !.list = wild, !.next = 1])
  /\ UNCHANGED <<lists, exact, wild, batchVars, emitted, calls, taken>>

DispatchEnds ==
  /\ Dispatching /\ Exhausted /\ Top.phase = "wild"
  /\ Pop
  /\ UNCHANGED <<lists, exact, wild, batchVars, emitted, calls, taken>>

Next ==
  \/ Emit \/ StartBatch \/ StopBatch \/ FlushBatch \/ Clear
  \/ \E kind \in Kinds : ClearEvent(kind)
  \/ \E kind \in Kinds, l \in Listener : On(kind, l) \/ Off(kind, l)
  \/ FlushNext \/ FlushEnds
  \/ CallListener \/ ListenerReturns \/ GoOnWithWildcards \/ DispatchEnds

Spec == Init /\ [][Next]_vars
-----------------------------------------------------------------------------
\* The events that a flush in progress has yet to dispatch.
ToFlush == UNION {Range(stack[i].rest) : i \in {j \in DOMAIN stack : ~IsDispatch(stack[j])}}

\* No event gets lost or is dispatched again, however listeners start, stop
\* and flush batches: it is batched, or about to be flushed, or it has been
\* dispatched, handed out by stop_batch or dropped by start_batch.
NoEventLost ==
  /\ Event = Range(batched) \cup ToFlush \cup taken
  /\ Range(batched) \cap ToFlush = {} /\ taken \cap (Range(batched) \cup ToFlush) = {}

\* Outside a flush the emitter is in the mode that the last start_batch or
\* stop_batch asked for, also when a listener called it during the flush.  An
\* event that is only batched while nobody means to flush would never arrive.
BatchModeAsAsked ==
  (\A i \in DOMAIN stack : IsDispatch(stack[i])) => batchMode = asked

\* An event reaches every listener that is registered from the beginning to
\* the end of its dispatch, whatever the others register and unregister; a
\* listener under the exact name can be skipped when an earlier one of them is
\* unregistered meanwhile.
RegisteredAreCalled ==
  Dispatching /\ Exhausted =>
    \A l \in Listener :
      /\ Top.phase = "wild" => <<"wild", l>> \notin Top.due
      /\ <<"exact", l>> \in Top.due => Top.shifted
=============================================================================
