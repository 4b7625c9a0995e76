----------------------------- MODULE AsyncClient -----------------------------
(***************************************************************************)
(* AsyncDBLiftClient, which runs the operations of a synchronous client on  *)
(* one worker thread for the tasks of an event loop.  Tasks call operations *)
(* and close the client, and may be cancelled at any time: in the queue of  *)
(* the lock, where a call has done nothing yet, or while the worker is busy *)
(* with its operation, which nothing can stop.                              *)
(*                                                                         *)
(* A step of a task is what it does between two awaits.  asyncio.Lock and   *)
(* the thread pool are external: `waiters` and `future` are those of the    *)
(* lock, `executor` the thread pool's queue of jobs.                        *)
(***************************************************************************)
EXTENDS Naturals, SequencesExt

CONSTANTS
  Task,
  MaxCancels   \* bound on the cancellations of one call

ASSUME AsyncClientAssumption == MaxCancels \in Nat

VARIABLES
  pc,          \* "idle", "queued" (for the lock), "working" (awaits its job), "ended"
  kind,        \* of the call: "operation" or "close"
  request,     \* a cancellation that the task has not seen yet
  cancelled,   \* the variable of _run_in_thread
  told,        \* how the call ended for the caller
  cancels,     \* cancellations of the call so far
  locked, waiters, future,
  job,         \* "none", "submitted", "running", "ok" or "raised" (the thread is
               \* done), and whether the loop has heard of it
  executor,
  closed,      \* _closed
  exited       \* the synchronous client's __exit__ has begun

taskVars == <<pc, kind, request, cancelled, told, cancels>>
lockVars == <<locked, waiters, future>>
workVars == <<job, executor>>
vars == <<taskVars, lockVars, workVars, closed, exited>>

Kinds == {"operation", "close"}
NoJob == [state |-> "none", heard |-> FALSE]

Init ==
  /\ pc = [t \in Task |-> "idle"] /\ kind = [t \in Task |-> "operation"]
  /\ request = [t \in Task |-> FALSE] /\ cancelled = [t \in Task |-> FALSE]
  /\ told = [t \in Task |-> "nothing"] /\ cancels = [t \in Task |-> 0]
  /\ locked = FALSE /\ waiters = <<>> /\ future = [t \in Task |-> "none"]
  /\ job = [t \in Task |-> NoJob] /\ executor = <<>>
  /\ closed = FALSE /\ exited = FALSE

-----------------------------------------------------------------------------
\* The lock: a newcomer takes it only if nobody waits who may still get it.
CanTake == ~locked /\ \A i \in DOMAIN waiters : future[waiters[i]] = "cancelled"

Woken(ws, f) ==
  IF ws # <<>> /\ f[Head(ws)] = "pending" THEN [f EXCEPT ![Head(ws)] = "set"] ELSE f

\* A task is in the queue once.
Leave(t) == RemoveAt(waiters, CHOOSE i \in DOMAIN waiters : waiters[i] = t)

\* The task leaves `async with self._lock`.
Release(ws, f) == locked' = FALSE /\ waiters' = ws /\ future' = Woken(ws, f)

Ends(t, answer) ==
  /\ pc' = [pc EXCEPT ![t] = "ended"] /\ told' = [told EXCEPT ![t] = answer]

\* With the lock: a closed client refuses operations and has nothing to close.
Enter(t, k, ws, f) ==
  \/ /\ closed /\ Ends(t, IF k = "close" THEN "ok" ELSE "refused")
     /\ Release(ws, f)
     /\ job' = [job EXCEPT ![t] = NoJob] /\ UNCHANGED executor
  \/ /\ ~closed /\ pc' = [pc EXCEPT ![t] = "working"]
     /\ told' = [told EXCEPT ![t] = "nothing"]
     /\ locked' = TRUE /\ waiters' = ws /\ future' = f
     /\ job' = [job EXCEPT ![t] = [NoJob EXCEPT !.state = "submitted"]]
     /\ executor' = Append(executor, t)

\* A new call, in a task that has none in progress.
Call(t, k) ==
  /\ pc[t] \in {"idle", "ended"}
  /\ kind' = [kind EXCEPT ![t] = k] /\ cancels' = [cancels EXCEPT ![t] = 0]
  /\ cancelled' = [cancelled EXCEPT ![t] = FALSE] /\ request' = [request EXCEPT ![t] = FALSE]
  /\ \/ CanTake /\ Enter(t, k, waiters, future)
     \/ /\ ~CanTake
        /\ pc' = [pc EXCEPT ![t] = "queued"]
        /\ waiters' = Append(waiters, t) /\ future' = [future EXCEPT ![t] = "pending"]
        /\ job' = [job EXCEPT ![t] = NoJob] /\ told' = [told EXCEPT ![t] = "nothing"]
        /\ UNCHANGED <<locked, executor>>
  /\ UNCHANGED <<closed, exited>>

GetsLock(t) ==
  /\ pc[t] = "queued" /\ future[t] = "set" /\ ~request[t]
  /\ Enter(t, kind[t], Leave(t), [future EXCEPT ![t] = "none"])
  /\ UNCHANGED <<kind, request, cancelled, cancels, closed, exited>>

\* A cancelled waiter passes on a lock that was meant for it.
LeavesQueue(t) ==
  /\ pc[t] = "queued" /\ request[t]
  /\ waiters' = Leave(t)
  /\ LET rest == [future EXCEPT ![t] = "none"] IN
     future' = IF locked THEN rest ELSE Woken(Leave(t), rest)
  /\ request' = [request EXCEPT ![t] = FALSE] /\ Ends(t, "cancelled")
  /\ UNCHANGED <<kind, cancelled, cancels, locked, workVars, closed, exited>>

-----------------------------------------------------------------------------
\* Faulty: closed only if the caller was not cancelled.
FinishUncancelled(t, answer) ==
  /\ Ends(t, answer)
  /\ closed' = (closed \/ (kind[t] = "close" /\ answer # "cancelled"))
  /\ Release(waiters, future)

\* Faulty: the lock is given back after a success only.
FinishReleases(t, answer) ==
  /\ Ends(t, answer)
  /\ closed' = (closed \/ kind[t] = "close")
  /\ IF answer = "ok" THEN Release(waiters, future) ELSE UNCHANGED lockVars

\* _run_in_thread is over; closing sets _closed whatever came of it.
Finish(t, answer) ==
  /\ Ends(t, answer)
  /\ closed' = (closed \/ kind[t] = "close")
  /\ Release(waiters, future)

\* Faulty: the cancellation is passed on at once.
GivesUp(t) == Finish(t, "cancelled") /\ UNCHANGED cancelled

\* The await is cancelled, the job is not: the task awaits it again.
AwaitAgain(t) ==
  /\ cancelled' = [cancelled EXCEPT ![t] = TRUE]
  /\ UNCHANGED <<pc, told, lockVars, closed>>

SeesCancel(t) ==
  /\ pc[t] = "working" /\ request[t]
  /\ request' = [request EXCEPT ![t] = FALSE]
  /\ \/ job[t].heard /\ Finish(t, "cancelled") /\ UNCHANGED cancelled
     \/ ~job[t].heard /\ AwaitAgain(t)
  /\ UNCHANGED <<kind, cancels, workVars, exited>>

Resumes(t) ==
  /\ pc[t] = "working" /\ job[t].heard /\ ~request[t]
  /\ Finish(t, IF cancelled[t] THEN "cancelled" ELSE job[t].state)
  /\ UNCHANGED <<kind, request, cancelled, cancels, workVars, exited>>

\* Somebody cancels the task.
Cancel(t) ==
  /\ pc[t] \in {"queued", "working"} /\ ~request[t] /\ cancels[t] < MaxCancels
  /\ request' = [request EXCEPT ![t] = TRUE] /\ cancels' = [cancels EXCEPT ![t] = @ + 1]
  /\ future' = [future EXCEPT ![t] = IF @ = "pending" THEN "cancelled" ELSE @]
  /\ UNCHANGED <<pc, kind, cancelled, told, locked, waiters, workVars, closed, exited>>

-----------------------------------------------------------------------------
\* The worker thread.  The synchronous client's __exit__ reports no errors.
Running(t) == job[t].state = "running"

StartJob(t) ==
  /\ executor # <<>> /\ Head(executor) = t /\ \A u \in Task : ~Running(u)
  /\ executor' = Tail(executor) /\ job' = [job EXCEPT ![t].state = "running"]
  /\ exited' = (exited \/ kind[t] = "close")
  /\ UNCHANGED <<taskVars, lockVars, closed>>

FinishJob(t) ==
  /\ Running(t)
  /\ \E result \in IF kind[t] = "close" THEN {"ok"} ELSE {"ok", "raised"} :
       job' = [job EXCEPT ![t].state = result]
  /\ UNCHANGED <<taskVars, lockVars, executor, closed, exited>>

\* The loop hears of it later.
Hears(t) ==
  /\ job[t].state \in {"ok", "raised"} /\ ~job[t].heard
  /\ job' = [job EXCEPT ![t].heard = TRUE]
  /\ UNCHANGED <<taskVars, lockVars, executor, closed, exited>>

TaskSteps(t) == GetsLock(t) \/ LeavesQueue(t) \/ SeesCancel(t) \/ Resumes(t)
WorkerSteps(t) == StartJob(t) \/ FinishJob(t) \/ Hears(t)

Next ==
  \E t \in Task : \/ \E k \in Kinds : Call(t, k)
                  \/ Cancel(t) \/ TaskSteps(t) \/ WorkerSteps(t)

\* The loop runs every task that can go on, and operations come to an end.
Fairness == \A t \in Task : WF_vars(TaskSteps(t)) /\ WF_vars(WorkerSteps(t))

Spec == Init /\ [][Next]_vars
FairSpec == Spec /\ Fairness
-----------------------------------------------------------------------------
\* What a caller is told is what came of its call: whoever is told anything,
\* cancelled callers included, has no job left in the thread; a result is that
\* of the call's own job; a refused call had none; a cancellation is never
\* swallowed, and reported to nobody else.
ToldTheTruth ==
  \A t \in Task : pc[t] = "ended" =>
    /\ job[t].state \notin {"submitted", "running"}
    /\ told[t] = "cancelled" <=> cancels[t] # 0
    /\ told[t] \in {"ok", "raised"} => job[t].state = told[t] \/ (kind[t] = "close" /\ closed)
    /\ told[t] = "refused" => job[t].state = "none" /\ closed

\* The synchronous client would open a new connection for an operation after
\* its __exit__, and nobody would close it: nothing starts after that, however
\* calls, cancellations and closings overlap, and the exit runs once.
NothingAfterExit == [][\A t \in Task : StartJob(t) => ~exited]_vars

\* Every call comes to an end, cancelled or not, whatever becomes of the calls
\* before it in the queue: no way out keeps the lock.
EveryCallEnds == \A t \in Task : pc[t] \in {"queued", "working"} ~> pc[t] = "ended"
=============================================================================
