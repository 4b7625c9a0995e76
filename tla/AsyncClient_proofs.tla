-------------------------- MODULE AsyncClient_proofs --------------------------
(***************************************************************************)
(* For any number of tasks and cancellations, callers of the asynchronous  *)
(* client are told what became of their calls, and nothing runs in its     *)
(* worker thread after the client was closed.                              *)
(***************************************************************************)
EXTENDS AsyncClient, SequenceTheorems, TLAPS

States == {"idle", "queued", "working", "ended"}
Answers == {"nothing", "ok", "raised", "refused", "cancelled"}
Futures == {"none", "pending", "set", "cancelled"}
Job == [state : {"none", "submitted", "running", "ok", "raised"}, heard : BOOLEAN]

TasksTyped ==
  /\ pc \in [Task -> States] /\ kind \in [Task -> Kinds]
  /\ request \in [Task -> BOOLEAN] /\ cancelled \in [Task -> BOOLEAN]
  /\ told \in [Task -> Answers] /\ cancels \in [Task -> Nat]
LockTyped == locked \in BOOLEAN /\ waiters \in Seq(Task) /\ future \in [Task -> Futures]
WorkTyped ==
  /\ job \in [Task -> Job] /\ executor \in Seq(Task)
  /\ closed \in BOOLEAN /\ exited \in BOOLEAN

Typed == TasksTyped /\ LockTyped /\ WorkTyped

Working(t) == pc[t] = "working"
Busy(t) == job[t].state \in {"submitted", "running"}

\* The lock is held by the one task that is working.  Only the first in the
\* queue has been woken, and only while nobody has the lock.
Exclusive ==
  /\ locked <=> \E t \in Task : Working(t)
  /\ \A t, u \in Task : Working(t) /\ Working(u) => t = u
Queue ==
  /\ \A t \in Task : pc[t] = "queued" => \E i \in DOMAIN waiters : waiters[i] = t
  /\ \A t \in Task : future[t] = "set" => ~locked /\ waiters # <<>> /\ Head(waiters) = t

\* A job belongs to the working task, and only its own can be in the thread
\* pool's queue.
Jobs ==
  /\ \A t \in Task : Busy(t) => Working(t)
  /\ \A t \in Task : Working(t) => job[t].state # "none"
  /\ \A t \in Task : job[t].heard => job[t].state \in {"ok", "raised"}
  /\ \A t \in Task : job[t].state = "submitted" => executor = <<t>>
  /\ executor # <<>> => \E t \in Task : job[t].state = "submitted"

\* Where the cancellations of a call are, until it ends.
Cancellations ==
  \A t \in Task :
    /\ pc[t] = "queued" => (cancels[t] # 0 <=> request[t]) /\ ~cancelled[t]
    /\ Working(t) => (cancels[t] # 0 <=> request[t] \/ cancelled[t])

\* Nobody works with a closed client; it is closed once its exit is over.
Closing ==
  /\ closed => \A t \in Task : ~Working(t)
  /\ exited => \/ closed
               \/ \E t \in Task : Working(t) /\ kind[t] = "close" /\ job[t].state # "submitted"

\* ToldTheTruth, of one task.
TruthOf(t) ==
  pc[t] = "ended" =>
    /\ job[t].state \notin {"submitted", "running"}
    /\ told[t] = "cancelled" <=> cancels[t] # 0
    /\ told[t] \in {"ok", "raised"} => job[t].state = told[t] \/ (kind[t] = "close" /\ closed)
    /\ told[t] = "refused" => job[t].state = "none" /\ closed

IInv == Typed /\ Exclusive /\ Queue /\ Jobs /\ Cancellations /\ Closing /\ ToldTheTruth

LEMMA InitIInv == Init => IInv
<1> SUFFICES ASSUME Init PROVE IInv
  OBVIOUS
<1>1. Typed
  <2>1. NoJob \in Job
    BY DEF NoJob, Job
  <2>2. TasksTyped
    <3>1. pc \in [Task -> States] /\ kind \in [Task -> Kinds] /\ told \in [Task -> Answers]
      BY DEF Init, Kinds, States, Answers
    <3>2. request \in [Task -> BOOLEAN] /\ cancelled \in [Task -> BOOLEAN]
      BY DEF Init
    <3>3. cancels \in [Task -> Nat]
      BY DEF Init
    <3> QED
      BY <3>1, <3>2, <3>3 DEF TasksTyped
  <2>3. LockTyped
    <3>1. locked \in BOOLEAN /\ waiters \in Seq(Task)
      BY EmptySeq DEF Init
    <3>2. future \in [Task -> Futures]
      BY DEF Init, Futures
    <3> QED
      BY <3>1, <3>2 DEF LockTyped
  <2>4. WorkTyped
    BY <2>1, EmptySeq DEF Init, WorkTyped
  <2> QED
    BY <2>2, <2>3, <2>4 DEF Typed
<1>2. Exclusive /\ Queue /\ Jobs
  BY DEF Init, Exclusive, Queue, Jobs, NoJob, Working, Busy
<1>3. Cancellations /\ Closing /\ ToldTheTruth
  BY DEF Init, Cancellations, Closing, ToldTheTruth, Working
<1> QED
  BY <1>1, <1>2, <1>3 DEF IInv

LEMMA Unchanged == IInv /\ UNCHANGED vars => IInv'
  BY DEF IInv, Typed, TasksTyped, LockTyped, WorkTyped, Exclusive, Queue, Jobs,
      Cancellations, Closing, ToldTheTruth, Working, Busy,
      vars, taskVars, lockVars, workVars

-----------------------------------------------------------------------------
\* A task that leaves the queue leaves everybody else in it, and the first in
\* the queue where it is.
LEMMA Leaving ==
  ASSUME NEW t \in Task, waiters \in Seq(Task), \E i \in DOMAIN waiters : waiters[i] = t
  PROVE  /\ Leave(t) \in Seq(Task)
         /\ \A u \in Task \ {t} : (\E i \in DOMAIN waiters : waiters[i] = u)
                                    => \E i \in DOMAIN Leave(t) : Leave(t)[i] = u
         /\ Head(waiters) # t => Leave(t) # <<>> /\ Head(Leave(t)) = Head(waiters)
<1> DEFINE n == Len(waiters)
           j == CHOOSE i \in DOMAIN waiters : waiters[i] = t
           before == SubSeq(waiters, 1, j - 1)
           after == SubSeq(waiters, j + 1, n)
<1>1. n \in Nat /\ DOMAIN waiters = 1..n /\ \A i \in 1..n : waiters[i] \in Task
  BY LenProperties, ElementOfSeq
<1>2. j \in 1..n /\ waiters[j] = t
  BY <1>1
<1> HIDE DEF j
<1>3. /\ before \in Seq(Task) /\ Len(before) = j - 1
      /\ \A i \in 1..(j - 1) : before[i] = waiters[i]
  <2>1. \A i \in 1..(j - 1) : waiters[i] \in Task
    BY <1>1, <1>2
  <2>2. /\ before \in Seq(Task) /\ Len(before) = IF 1 <= j - 1 THEN (j - 1) - 1 + 1 ELSE 0
        /\ \A i \in 1..((j - 1) - 1 + 1) : before[i] = waiters[1 + i - 1]
    BY <2>1, <1>1, <1>2, SubSeqProperties
  <2> HIDE DEF before
  <2>3. (j - 1) - 1 + 1 = j - 1 /\ \A i \in 1..(j - 1) : 1 + i - 1 = i
    BY <1>1, <1>2
  <2>4. Len(before) = j - 1
    BY <2>2, <1>1, <1>2
  <2> QED
    BY <2>2, <2>3, <2>4
<1>4. /\ after \in Seq(Task) /\ Len(after) = n - j
      /\ \A i \in 1..(n - j) : after[i] = waiters[j + i]
  <2>1. \A i \in (j + 1)..n : waiters[i] \in Task
    BY <1>1, <1>2
  <2>2. /\ after \in Seq(Task) /\ Len(after) = IF j + 1 <= n THEN n - (j + 1) + 1 ELSE 0
        /\ \A i \in 1..(n - (j + 1) + 1) : after[i] = waiters[(j + 1) + i - 1]
    BY <2>1, <1>1, <1>2, SubSeqProperties
  <2> HIDE DEF after
  <2>3. n - (j + 1) + 1 = n - j
    BY <1>1, <1>2
  <2>4. Len(after) = n - j
    <3>1. Len(after) = IF j + 1 <= n THEN n - (j + 1) + 1 ELSE 0
      BY <2>2
    <3>2. n \in Nat /\ j \in 1..n
      BY <1>1, <1>2
    <3> HIDE DEF n
    <3> QED
      BY ONLY <3>1, <3>2
  <2>5. ASSUME NEW i \in 1..(n - j) PROVE after[i] = waiters[j + i]
    <3>1. (j + 1) + i - 1 = j + i
      BY <1>1, <1>2
    <3> QED
      BY <2>2, <2>3, <3>1
  <2>6. after \in Seq(Task)
    BY <2>2
  <2> QED
    BY ONLY <2>4, <2>5, <2>6
<1> HIDE DEF before, after, n
<1>5. Leave(t) = before \o after
  BY DEF Leave, RemoveAt, j, before, after, n
<1>6. /\ Leave(t) \in Seq(Task) /\ Len(Leave(t)) = n - 1 /\ DOMAIN Leave(t) = 1..(n - 1)
      /\ \A i \in 1..(n - 1) : Leave(t)[i] = IF i < j THEN waiters[i] ELSE waiters[i + 1]
  <2>1. /\ before \o after \in Seq(Task)
        /\ Len(before \o after) = Len(before) + Len(after)
        /\ \A i \in 1..(Len(before) + Len(after)) : (before \o after)[i] =
              IF i <= Len(before) THEN before[i] ELSE after[i - Len(before)]
    BY <1>3, <1>4, ConcatProperties
  <2>2. Len(before) + Len(after) = n - 1 /\ n - 1 \in Nat
    BY <1>1, <1>2, <1>3, <1>4
  <2>3. ASSUME NEW i \in 1..(n - 1)
        PROVE  Leave(t)[i] = IF i < j THEN waiters[i] ELSE waiters[i + 1]
    <3>1. CASE i < j
      BY <3>1, <2>1, <2>2, <1>1, <1>2, <1>3, <1>5
    <3>2. CASE ~(i < j)
      <4>1. i - (j - 1) \in 1..(n - j) /\ j + (i - (j - 1)) = i + 1 /\ ~(i <= j - 1)
        BY <3>2, <1>1, <1>2
      <4> QED
        BY <4>1, <3>2, <2>1, <2>2, <1>3, <1>4, <1>5
    <3> QED
      BY <3>1, <3>2
  <2> QED
    BY <2>1, <2>2, <2>3, <1>5, LenProperties
<1>7. ASSUME NEW u \in Task \ {t}, NEW i \in 1..n, waiters[i] = u
      PROVE  \E l \in 1..(n - 1) : Leave(t)[l] = u
  <2>1. CASE i < j
    BY <2>1, <1>1, <1>2, <1>6, <1>7
  <2>2. CASE i > j
    <3>1. i - 1 \in 1..(n - 1) /\ ~(i - 1 < j) /\ (i - 1) + 1 = i
      BY <2>2, <1>1, <1>2
    <3> QED
      BY <3>1, <1>6, <1>7
  <2> QED
    BY <2>1, <2>2, <1>1, <1>2, <1>7
<1>8. ASSUME Head(waiters) # t
      PROVE  Leave(t) # <<>> /\ Head(Leave(t)) = Head(waiters)
  <2>1. Head(waiters) = waiters[1]
    BY <1>1, <1>2
  <2>2. 1 < j
    BY <2>1, <1>8, <1>1, <1>2
  <2>3. 1 \in 1..(n - 1) /\ Leave(t)[1] = waiters[1]
    BY <2>2, <1>1, <1>2, <1>6
  <2> QED
    BY <2>1, <2>3, <1>6, EmptySeq
<1> QED
  BY <1>1, <1>6, <1>7, <1>8

LEMMA OneTruth ==
  /\ ToldTheTruth <=> \A t \in Task : TruthOf(t)
  /\ ToldTheTruth' <=> \A t \in Task : TruthOf(t)'
BY DEF ToldTheTruth, TruthOf

\* Only the first in the queue is woken.
LEMMA Waking ==
  ASSUME NEW ws \in Seq(Task), NEW f \in [Task -> Futures], \A u \in Task : f[u] # "set"
  PROVE  /\ Woken(ws, f) \in [Task -> Futures]
         /\ \A u \in Task : Woken(ws, f)[u] = "set" => ws # <<>> /\ Head(ws) = u
<1>1. CASE ws # <<>> /\ f[Head(ws)] = "pending"
  <2>1. Head(ws) \in Task
    BY <1>1, HeadTailProperties
  <2>2. Woken(ws, f) = [f EXCEPT ![Head(ws)] = "set"]
    BY <1>1 DEF Woken
  <2> QED
    BY <1>1, <2>1, <2>2 DEF Futures
<1>2. CASE ~(ws # <<>> /\ f[Head(ws)] = "pending")
  BY <1>2 DEF Woken
<1> QED
  BY <1>1, <1>2

\* While nobody has the lock, nobody works and the thread pool is idle; while
\* somebody has it, nobody has been woken.
LEMMA Idle ==
  ASSUME IInv, ~locked
  PROVE  executor = <<>> /\ \A u \in Task : ~Working(u) /\ ~Busy(u)
BY DEF IInv, Exclusive, Jobs, Busy, Working

LEMMA NobodyWoken ==
  ASSUME IInv, NEW t \in Task, Working(t)
  PROVE  /\ locked /\ \A u \in Task : future[u] # "set"
         /\ \A u \in Task \ {t} : ~Working(u) /\ ~Busy(u)
BY DEF IInv, Exclusive, Queue, Jobs

-----------------------------------------------------------------------------
\* A call gets the lock, at once or after the queue: it has not been cancelled.
LEMMA EnterKeeps ==
  ASSUME IInv, ~locked, NEW t \in Task, NEW k \in Kinds,
         NEW ws \in Seq(Task), NEW f \in [Task -> Futures],
         \A u \in Task : f[u] # "set",
         \A u \in Task \ {t} : (\E i \in DOMAIN waiters : waiters[i] = u)
                                  => \E i \in DOMAIN ws : ws[i] = u,
         Enter(t, k, ws, f),
         kind' = [kind EXCEPT ![t] = k], TasksTyped',
         \A u \in Task : /\ cancels'[u] = IF u = t THEN 0 ELSE cancels[u]
                         /\ cancelled'[u] = IF u = t THEN FALSE ELSE cancelled[u]
                         /\ request'[u] = IF u = t THEN FALSE ELSE request[u],
         UNCHANGED <<closed, exited>>
  PROVE  IInv'
<1>1. /\ TasksTyped /\ LockTyped /\ WorkTyped
      /\ executor = <<>> /\ \A u \in Task : ~Working(u) /\ ~Busy(u)
  BY Idle DEF IInv, Typed
<1>2. CASE closed /\ Ends(t, IF k = "close" THEN "ok" ELSE "refused") /\ Release(ws, f)
           /\ job' = [job EXCEPT ![t] = NoJob] /\ UNCHANGED executor
  <2>1. /\ \A u \in Task : /\ pc'[u] = IF u = t THEN "ended" ELSE pc[u]
                           /\ kind'[u] = IF u = t THEN k ELSE kind[u]
                           /\ job'[u] = IF u = t THEN NoJob ELSE job[u]
                           /\ told'[u] = IF u # t THEN told[u]
                                         ELSE IF k = "close" THEN "ok" ELSE "refused"
        /\ ~locked' /\ waiters' = ws /\ closed' /\ exited' = exited /\ executor' = <<>>
    BY <1>1, <1>2 DEF Ends, Release, TasksTyped, WorkTyped
  <2>2. future' \in [Task -> Futures]
        /\ \A u \in Task : future'[u] = "set" => ws # <<>> /\ Head(ws) = u
    BY <1>2, Waking DEF Release
  <2>3. Typed'
    <3>1. LockTyped'
      <4>1. locked' \in BOOLEAN /\ waiters' \in Seq(Task)
        BY <1>2 DEF Release
      <4> QED
        BY <4>1, <2>2 DEF LockTyped
    <3>2. WorkTyped'
      BY <1>1, <1>2 DEF WorkTyped, NoJob, Job
    <3> QED
      BY <3>1, <3>2 DEF Typed
  <2>4. Exclusive'
    BY <1>1, <2>1 DEF Exclusive, Working
  <2>5. Queue'
    BY <2>1, <2>2 DEF IInv, Queue
  <2>6. Jobs'
    BY <1>1, <2>1 DEF IInv, Jobs, Busy, Working, NoJob
  <2>7. Cancellations' /\ Closing'
    BY <1>1, <2>1 DEF IInv, Cancellations, Closing, Working
  <2>8. ToldTheTruth'
    <3>1. k = "close" \/ k = "operation"
      BY DEF Kinds
    <3>2. ASSUME NEW u \in Task \ {t} PROVE TruthOf(u)'
      <4>1. /\ pc'[u] = pc[u] /\ job'[u] = job[u] /\ told'[u] = told[u]
            /\ kind'[u] = kind[u] /\ cancels'[u] = cancels[u] /\ closed /\ closed'
        BY <1>2, <2>1
      <4>2. TruthOf(u)
        BY OneTruth DEF IInv
      <4> QED
        BY <4>1, <4>2 DEF TruthOf
    <3>3. TruthOf(t)'
      <4>1. job'[t] = NoJob /\ cancels'[t] = 0 /\ kind'[t] = k /\ closed'
            /\ told'[t] = IF k = "close" THEN "ok" ELSE "refused"
        BY <2>1
      <4>2. NoJob.state = "none"
        BY DEF NoJob
      <4> QED
        BY <3>1, <4>1, <4>2 DEF TruthOf
    <3> QED
      BY <3>2, <3>3, OneTruth
  <2> QED
    BY <2>3, <2>4, <2>5, <2>6, <2>7, <2>8 DEF IInv
<1>3. CASE ~closed /\ pc' = [pc EXCEPT ![t] = "working"]
           /\ told' = [told EXCEPT ![t] = "nothing"]
           /\ locked' = TRUE /\ waiters' = ws /\ future' = f
           /\ job' = [job EXCEPT ![t] = [NoJob EXCEPT !.state = "submitted"]]
           /\ executor' = Append(executor, t)
  <2> DEFINE NewJob == [NoJob EXCEPT !.state = "submitted"]
  <2>0. NewJob \in Job /\ NewJob.state = "submitted" /\ ~NewJob.heard
    BY DEF NoJob, Job
  <2> HIDE DEF NewJob
  <2>1. /\ \A u \in Task : /\ pc'[u] = IF u = t THEN "working" ELSE pc[u]
                           /\ kind'[u] = IF u = t THEN k ELSE kind[u]
                           /\ told'[u] = IF u = t THEN "nothing" ELSE told[u]
                           /\ job'[u] = IF u = t THEN NewJob ELSE job[u]
        /\ locked' /\ waiters' = ws /\ future' = f /\ ~closed' /\ exited' = exited
        /\ executor' = <<t>>
    <3>2. executor' = <<t>>
      BY <1>1, <1>3
    <3>3. ~closed' /\ exited' = exited
      BY <1>3
    <3> QED
      BY <1>1, <1>3, <3>2, <3>3 DEF TasksTyped, WorkTyped, NewJob
  <2>2. ~exited
    BY <1>1, <1>3 DEF IInv, Closing
  <2>3. Typed'
    <3>1. LockTyped'
      BY <2>1 DEF LockTyped
    <3>2. WorkTyped'
      BY <1>1, <1>3, <2>0, <2>1 DEF WorkTyped, NewJob
    <3> QED
      BY <3>1, <3>2 DEF Typed
  <2>4. Exclusive'
    BY <1>1, <2>1 DEF Exclusive, Working
  <2>5. Queue'
    BY <2>1 DEF IInv, Queue
  <2>6. Jobs'
    BY <1>1, <2>0, <2>1 DEF IInv, Jobs, Busy, Working
  <2>7. Cancellations' /\ Closing'
    <3>1. Cancellations'
      BY <1>1, <2>1 DEF IInv, Cancellations, Working
    <3>2. Closing'
      BY <1>1, <2>1, <2>2 DEF Closing, Working
    <3> QED
      BY <3>1, <3>2
  <2>8. ToldTheTruth'
    <3>1. ASSUME NEW u \in Task \ {t} PROVE TruthOf(u)'
      <4>1. /\ pc'[u] = pc[u] /\ job'[u] = job[u] /\ told'[u] = told[u]
            /\ kind'[u] = kind[u] /\ cancels'[u] = cancels[u] /\ ~closed
        BY <1>3, <2>1
      <4>2. TruthOf(u)
        BY OneTruth DEF IInv
      <4> QED
        BY <4>1, <4>2 DEF TruthOf
    <3>2. TruthOf(t)'
      BY <2>1 DEF TruthOf
    <3> QED
      BY <3>1, <3>2, OneTruth
  <2> QED
    BY <2>3, <2>4, <2>5, <2>6, <2>7, <2>8 DEF IInv
<1> QED
  BY <1>2, <1>3 DEF Enter

\* A call is over: the lock is free, and a client that was to be closed is.
LEMMA FinishKeeps ==
  ASSUME IInv, NEW t \in Task, Working(t), job[t].heard,
         NEW answer \in Answers, Finish(t, answer),
         answer = "cancelled" <=> cancels[t] # 0,
         answer # "cancelled" => answer = job[t].state,
         TasksTyped',
         UNCHANGED <<kind, cancels, workVars, exited>>,
         \A u \in Task \ {t} : request'[u] = request[u] /\ cancelled'[u] = cancelled[u]
  PROVE  IInv'
<1>1. /\ TasksTyped /\ LockTyped /\ WorkTyped /\ ~closed
      /\ \A u \in Task : future[u] # "set"
      /\ \A u \in Task \ {t} : ~Working(u) /\ ~Busy(u)
  BY NobodyWoken DEF IInv, Typed, Closing
<1>2. /\ \A u \in Task : /\ pc'[u] = IF u = t THEN "ended" ELSE pc[u]
                         /\ told'[u] = IF u = t THEN answer ELSE told[u]
      /\ ~locked' /\ waiters' = waiters /\ job' = job /\ executor' = executor
      /\ kind' = kind /\ cancels' = cancels /\ exited' = exited
  BY <1>1 DEF Finish, Ends, Release, TasksTyped, workVars
<1>3. closed' <=> kind[t] = "close"
  BY <1>1 DEF Finish
<1>4. future' \in [Task -> Futures]
      /\ \A u \in Task : future'[u] = "set" => waiters # <<>> /\ Head(waiters) = u
  BY <1>1, Waking DEF Finish, Release, LockTyped
<1>5. job[t].state \in {"ok", "raised"}
  BY DEF IInv, Jobs
<1>6. Typed'
  <2>1. locked' \in BOOLEAN /\ closed' \in BOOLEAN
    BY <1>1 DEF Finish, Release, WorkTyped
  <2>2. LockTyped'
    BY <1>1, <1>2, <1>4, <2>1 DEF LockTyped
  <2>3. WorkTyped'
    BY <1>1, <1>2, <2>1 DEF WorkTyped
  <2> QED
    BY <2>2, <2>3 DEF Typed
<1>7. Exclusive'
  BY <1>1, <1>2 DEF Exclusive, Working
<1>8. Queue'
  BY <1>2, <1>4 DEF IInv, Queue
<1>9. Jobs'
  BY <1>1, <1>2, <1>5 DEF IInv, Jobs, Busy, Working
<1>10. Cancellations'
  BY <1>1, <1>2 DEF IInv, Cancellations, Working
<1>11. Closing'
  <2>1. \A u \in Task : ~Working(u)'
    BY <1>1, <1>2 DEF Working
  <2>2. exited => kind[t] = "close"
    BY <1>1 DEF IInv, Closing
  <2> QED
    BY <1>2, <1>3, <2>1, <2>2 DEF Closing
<1>12. ToldTheTruth'
  <2>1. ASSUME NEW u \in Task \ {t} PROVE TruthOf(u)'
    <3>1. pc'[u] = pc[u] /\ told'[u] = told[u]
      BY <1>2
    <3> QED
      BY <3>1, <1>1, <1>2, OneTruth DEF TruthOf, IInv
  <2>2. TruthOf(t)'
    <3>1. told'[t] = answer /\ answer # "refused"
      BY <1>2, <1>5
    <3> QED
      BY <3>1, <1>2, <1>5 DEF TruthOf
  <2> QED
    BY <2>1, <2>2, OneTruth
<1> QED
  BY <1>6, <1>7, <1>8, <1>9, <1>10, <1>11, <1>12 DEF IInv

-----------------------------------------------------------------------------
LEMMA CallKeeps ==
  ASSUME IInv, NEW t \in Task, NEW k \in Kinds, Call(t, k)
  PROVE  IInv'
<1>1. /\ TasksTyped /\ LockTyped /\ WorkTyped
      /\ ~Working(t) /\ pc[t] # "queued" /\ ~Busy(t)
  BY DEF IInv, Typed, Call, Working, Jobs
<1>2. \A u \in Task : /\ cancels'[u] = IF u = t THEN 0 ELSE cancels[u]
                      /\ cancelled'[u] = IF u = t THEN FALSE ELSE cancelled[u]
                      /\ request'[u] = IF u = t THEN FALSE ELSE request[u]
  BY <1>1 DEF Call, TasksTyped
<1>3. kind' = [kind EXCEPT ![t] = k] /\ closed' = closed /\ exited' = exited
  BY DEF Call
<1>4. TasksTyped'
  <2>1. kind' \in [Task -> Kinds] /\ cancels' \in [Task -> Nat]
    BY <1>1 DEF Call, TasksTyped
  <2>2. cancelled' \in [Task -> BOOLEAN] /\ request' \in [Task -> BOOLEAN]
    BY <1>1 DEF Call, TasksTyped
  <2>3. pc' \in [Task -> States] /\ told' \in [Task -> Answers]
    BY <1>1 DEF Call, TasksTyped, Enter, Ends, States, Answers
  <2> QED
    BY <2>1, <2>2, <2>3 DEF TasksTyped
<1>5. CASE CanTake /\ Enter(t, k, waiters, future)
  <2>1. ~locked
    BY <1>5 DEF CanTake
  <2>2. ASSUME NEW u \in Task, future[u] = "set" PROVE FALSE
    <3>1. waiters # <<>> /\ Head(waiters) = u
      BY <2>2 DEF IInv, Queue
    <3>2. 1 \in DOMAIN waiters /\ waiters[1] = u
      BY <3>1, <1>1, LenProperties, EmptySeq DEF LockTyped
    <3> QED
      BY <3>2, <2>2, <1>5 DEF CanTake
  <2>3. waiters \in Seq(Task) /\ future \in [Task -> Futures]
    BY <1>1 DEF LockTyped
  <2> QED
    BY <1>2, <1>3, <1>4, <1>5, <2>1, <2>2, <2>3, EnterKeeps
<1>6. CASE /\ pc' = [pc EXCEPT ![t] = "queued"]
           /\ waiters' = Append(waiters, t) /\ future' = [future EXCEPT ![t] = "pending"]
           /\ job' = [job EXCEPT ![t] = NoJob] /\ told' = [told EXCEPT ![t] = "nothing"]
           /\ UNCHANGED <<locked, executor>>
  <2>1. /\ \A u \in Task : /\ pc'[u] = IF u = t THEN "queued" ELSE pc[u]
                           /\ kind'[u] = IF u = t THEN k ELSE kind[u]
                           /\ told'[u] = IF u = t THEN "nothing" ELSE told[u]
                           /\ future'[u] = IF u = t THEN "pending" ELSE future[u]
                           /\ job'[u] = IF u = t THEN NoJob ELSE job[u]
        /\ locked' = locked /\ executor' = executor
    BY <1>1, <1>3, <1>6 DEF TasksTyped, LockTyped, WorkTyped
  <2>2. NoJob \in Job /\ NoJob.state = "none" /\ ~NoJob.heard
    BY DEF NoJob, Job
  <2>3. Typed'
    <3>1. waiters' \in Seq(Task)
      BY <1>1, <1>6, AppendProperties DEF LockTyped
    <3>2. LockTyped'
      BY <1>1, <1>6, <3>1 DEF LockTyped, Futures
    <3>3. WorkTyped'
      BY <1>1, <1>3, <1>6, <2>2 DEF WorkTyped
    <3> QED
      BY <1>4, <3>2, <3>3 DEF Typed
  <2>4. Exclusive'
    BY <1>1, <2>1 DEF IInv, Exclusive, Working
  <2>5. Queue'
    <3>1. /\ DOMAIN waiters = 1..Len(waiters) /\ Len(waiters) \in Nat
          /\ DOMAIN waiters' = 1..(Len(waiters) + 1)
          /\ \A i \in 1..Len(waiters) : waiters'[i] = waiters[i]
          /\ waiters'[Len(waiters) + 1] = t
          /\ waiters' # <<>> /\ waiters # <<>> => Head(waiters') = Head(waiters)
      BY <1>1, <1>6, AppendProperties, LenProperties, HeadTailAppend DEF LockTyped
    <3>2. ASSUME NEW u \in Task, pc'[u] = "queued"
          PROVE  \E i \in DOMAIN waiters' : waiters'[i] = u
      <4>1. CASE u = t
        BY <4>1, <3>1
      <4>2. CASE u # t
        <5>1. PICK i \in DOMAIN waiters : waiters[i] = u
          BY <2>1, <3>2, <4>2 DEF IInv, Queue
        <5> QED
          BY <5>1, <3>1
      <4> QED
        BY <4>1, <4>2
    <3>3. ASSUME NEW u \in Task, future'[u] = "set"
          PROVE  ~locked' /\ waiters' # <<>> /\ Head(waiters') = u
      <4>1. future[u] = "set"
        BY <2>1, <3>3
      <4> QED
        BY <4>1, <2>1, <3>1 DEF IInv, Queue
    <3> QED
      BY <3>2, <3>3 DEF Queue
  <2>6. Jobs'
    BY <1>1, <2>1, <2>2 DEF IInv, Jobs, Busy, Working
  <2>7. Cancellations'
    BY <1>1, <1>2, <2>1 DEF IInv, Cancellations, Working
  <2>8. Closing'
    <3>1. \A u \in Task : Working(u)' <=> Working(u)
      BY <1>1, <2>1 DEF Working
    <3>2. \A u \in Task : Working(u) => u # t /\ kind'[u] = kind[u] /\ job'[u] = job[u]
      BY <1>1, <2>1
    <3> QED
      BY <1>3, <3>1, <3>2 DEF IInv, Closing
  <2>9. ToldTheTruth'
    <3>1. ASSUME NEW u \in Task \ {t} PROVE TruthOf(u)'
      <4>1. /\ pc'[u] = pc[u] /\ job'[u] = job[u] /\ told'[u] = told[u]
            /\ kind'[u] = kind[u] /\ cancels'[u] = cancels[u] /\ closed' = closed
        BY <1>2, <1>3, <2>1
      <4>2. TruthOf(u)
        BY OneTruth DEF IInv
      <4> QED
        BY <4>1, <4>2 DEF TruthOf
    <3>2. TruthOf(t)'
      BY <2>1 DEF TruthOf
    <3> QED
      BY <3>1, <3>2, OneTruth
  <2> QED
    BY <2>3, <2>4, <2>5, <2>6, <2>7, <2>8, <2>9 DEF IInv
<1> QED
  BY <1>5, <1>6 DEF Call

LEMMA GetsLockKeeps ==
  ASSUME IInv, NEW t \in Task, GetsLock(t)
  PROVE  IInv'
<1> DEFINE f == [future EXCEPT ![t] = "none"]
<1>1. /\ TasksTyped /\ LockTyped /\ WorkTyped
      /\ pc[t] = "queued" /\ future[t] = "set" /\ ~request[t]
      /\ Enter(t, kind[t], Leave(t), f)
  BY DEF IInv, Typed, GetsLock
<1>2. /\ ~locked /\ \A u \in Task : future[u] = "set" => u = t
      /\ \E i \in DOMAIN waiters : waiters[i] = t
      /\ cancels[t] = 0 /\ ~cancelled[t]
  BY <1>1 DEF IInv, Queue, Cancellations
<1>3. f \in [Task -> Futures] /\ \A u \in Task : f[u] # "set"
  BY <1>1, <1>2 DEF LockTyped, Futures
<1>4. /\ Leave(t) \in Seq(Task)
      /\ \A u \in Task \ {t} : (\E i \in DOMAIN waiters : waiters[i] = u)
                                  => \E i \in DOMAIN Leave(t) : Leave(t)[i] = u
  BY <1>1, <1>2, Leaving DEF LockTyped
<1>5. /\ kind' = [kind EXCEPT ![t] = kind[t]] /\ kind[t] \in Kinds
      /\ closed' = closed /\ exited' = exited
      /\ cancels' = cancels /\ cancelled' = cancelled /\ request' = request
  BY <1>1 DEF GetsLock, TasksTyped
<1>6. TasksTyped'
  <2>1. pc' \in [Task -> States] /\ told' \in [Task -> Answers]
    BY <1>1 DEF TasksTyped, Enter, Ends, States, Answers
  <2> QED
    BY <1>1, <1>5, <2>1 DEF TasksTyped
<1>7. \A u \in Task : /\ cancels'[u] = IF u = t THEN 0 ELSE cancels[u]
                      /\ cancelled'[u] = IF u = t THEN FALSE ELSE cancelled[u]
                      /\ request'[u] = IF u = t THEN FALSE ELSE request[u]
  BY <1>1, <1>2, <1>5 DEF TasksTyped
<1> HIDE DEF f
<1> QED
  BY <1>1, <1>2, <1>3, <1>4, <1>5, <1>6, <1>7, EnterKeeps

\* The lock goes on to the next in the queue if it was meant for this task.
LEMMA LeavesQueueKeeps ==
  ASSUME IInv, NEW t \in Task, LeavesQueue(t)
  PROVE  IInv'
<1> DEFINE rest == [future EXCEPT ![t] = "none"]
<1>1. /\ TasksTyped /\ LockTyped /\ WorkTyped
      /\ pc[t] = "queued" /\ request[t] /\ cancels[t] # 0
      /\ \E i \in DOMAIN waiters : waiters[i] = t
  BY DEF IInv, Typed, LeavesQueue, Queue, Cancellations
<1>2. /\ Leave(t) \in Seq(Task)
      /\ \A u \in Task \ {t} : (\E i \in DOMAIN waiters : waiters[i] = u)
                                  => \E i \in DOMAIN Leave(t) : Leave(t)[i] = u
      /\ Head(waiters) # t => Leave(t) # <<>> /\ Head(Leave(t)) = Head(waiters)
  BY <1>1, Leaving DEF LockTyped
<1>3. /\ \A u \in Task : /\ pc'[u] = IF u = t THEN "ended" ELSE pc[u]
                         /\ told'[u] = IF u = t THEN "cancelled" ELSE told[u]
                         /\ u # t => request'[u] = request[u]
      /\ kind' = kind /\ cancelled' = cancelled /\ cancels' = cancels
      /\ locked' = locked /\ job' = job /\ executor' = executor
      /\ closed' = closed /\ exited' = exited /\ waiters' = Leave(t)
      /\ future' = IF locked THEN rest ELSE Woken(Leave(t), rest)
  BY <1>1 DEF LeavesQueue, Ends, TasksTyped, workVars
<1>4. /\ rest \in [Task -> Futures] /\ rest[t] = "none"
      /\ \A u \in Task \ {t} : rest[u] = future[u]
  BY <1>1 DEF LockTyped, Futures
<1> HIDE DEF rest
<1>5. ~Busy(t) /\ ~Working(t)
  BY <1>1 DEF IInv, Jobs, Working
<1>6. /\ future' \in [Task -> Futures]
      /\ \A u \in Task : future'[u] = "set"
           => ~locked /\ Leave(t) # <<>> /\ Head(Leave(t)) = u
  <2>1. CASE locked
    <3>1. \A u \in Task : future[u] # "set"
      BY <2>1 DEF IInv, Queue
    <3> QED
      BY <2>1, <3>1, <1>3, <1>4
  <2>2. CASE ~locked /\ \A u \in Task : rest[u] # "set"
    BY <2>2, <1>2, <1>3, <1>4, Waking
  <2>3. CASE ~locked /\ \E u \in Task : rest[u] = "set"
    <3>1. PICK u \in Task : rest[u] = "set"
      BY <2>3
    <3>2. u # t /\ future[u] = "set"
      BY <3>1, <1>4
    <3>3. /\ Head(waiters) = u /\ Leave(t) # <<>> /\ Head(Leave(t)) = u
          /\ \A w \in Task : rest[w] = "set" => w = u
      BY <3>2, <1>2, <1>4 DEF IInv, Queue
    <3>4. Woken(Leave(t), rest) = rest
      BY <3>1, <3>3 DEF Woken
    <3> QED
      BY <2>3, <3>3, <3>4, <1>3, <1>4
  <2> QED
    BY <2>1, <2>2, <2>3
<1>7. Typed'
  <2>1. request' \in [Task -> BOOLEAN] /\ pc' \in [Task -> States] /\ told' \in [Task -> Answers]
    BY <1>1 DEF LeavesQueue, Ends, TasksTyped, States, Answers
  <2>2. TasksTyped'
    BY <1>1, <1>3, <2>1 DEF TasksTyped
  <2>3. LockTyped'
    BY <1>1, <1>2, <1>3, <1>6 DEF LockTyped
  <2>4. WorkTyped'
    BY <1>1, <1>3 DEF WorkTyped
  <2> QED
    BY <2>2, <2>3, <2>4 DEF Typed
<1>8. \A u \in Task : Working(u)' <=> Working(u)
  BY <1>1, <1>3 DEF Working
<1>9. Exclusive'
  BY <1>3, <1>8 DEF IInv, Exclusive
<1>10. Queue'
  <2>1. \A u \in Task : pc'[u] = "queued" => u # t /\ pc[u] = "queued"
    BY <1>3
  <2> QED
    BY <2>1, <1>2, <1>3, <1>6 DEF IInv, Queue
<1>11. Jobs'
  BY <1>3, <1>8 DEF IInv, Jobs, Busy
<1>12. Cancellations'
  <2>1. \A u \in Task : pc'[u] = "queued" \/ Working(u)' => u # t /\ pc'[u] = pc[u]
    BY <1>3 DEF Working
  <2> QED
    BY <2>1, <1>3 DEF IInv, Cancellations, Working
<1>13. Closing'
  BY <1>3, <1>8 DEF IInv, Closing
<1>14. ToldTheTruth'
  <2>1. ASSUME NEW u \in Task \ {t} PROVE TruthOf(u)'
    <3>1. pc'[u] = pc[u] /\ told'[u] = told[u]
      BY <1>3
    <3>2. TruthOf(u)
      BY OneTruth DEF IInv
    <3> QED
      BY <3>1, <3>2, <1>3 DEF TruthOf
  <2>2. TruthOf(t)'
    BY <1>1, <1>3, <1>5 DEF TruthOf, Busy
  <2> QED
    BY <2>1, <2>2, OneTruth
<1> QED
  BY <1>7, <1>9, <1>10, <1>11, <1>12, <1>13, <1>14 DEF IInv

LEMMA SeesCancelKeeps ==
  ASSUME IInv, NEW t \in Task, SeesCancel(t)
  PROVE  IInv'
<1>1. TasksTyped /\ Working(t) /\ request[t] /\ cancels[t] # 0
  BY DEF IInv, Typed, SeesCancel, Working, Cancellations
<1>2. /\ \A u \in Task : request'[u] = IF u = t THEN FALSE ELSE request[u]
      /\ request' \in [Task -> BOOLEAN]
      /\ UNCHANGED <<kind, cancels, workVars, exited>>
  BY <1>1 DEF SeesCancel, TasksTyped
<1>3. CASE job[t].heard /\ Finish(t, "cancelled") /\ UNCHANGED cancelled
  <2>1. TasksTyped'
    <3>1. pc' \in [Task -> States] /\ told' \in [Task -> Answers]
      BY <1>1, <1>3 DEF Finish, Ends, TasksTyped, States, Answers
    <3> QED
      BY <3>1, <1>1, <1>2, <1>3 DEF TasksTyped
  <2>2. "cancelled" \in Answers
    BY DEF Answers
  <2>3. \A u \in Task \ {t} : request'[u] = request[u] /\ cancelled'[u] = cancelled[u]
    BY <1>2, <1>3
  <2> QED
    BY <1>1, <1>2, <1>3, <2>1, <2>2, <2>3, FinishKeeps
<1>4. CASE ~job[t].heard /\ AwaitAgain(t)
  <2>1. /\ \A u \in Task : cancelled'[u] = IF u = t THEN TRUE ELSE cancelled[u]
        /\ cancelled' \in [Task -> BOOLEAN]
        /\ pc' = pc /\ told' = told /\ locked' = locked /\ waiters' = waiters
        /\ future' = future /\ closed' = closed
    BY <1>1, <1>4 DEF AwaitAgain, TasksTyped, lockVars
  <2>2. kind' = kind /\ cancels' = cancels /\ job' = job /\ executor' = executor
        /\ exited' = exited
    BY <1>2 DEF workVars
  <2>3. Typed'
    BY <1>2, <2>1, <2>2 DEF IInv, Typed, TasksTyped, LockTyped, WorkTyped
  <2>4. Exclusive' /\ Queue'
    BY <2>1, <2>2 DEF IInv, Exclusive, Queue, Working
  <2>5. Jobs' /\ Closing'
    BY <2>1, <2>2 DEF IInv, Jobs, Closing, Working, Busy
  <2>6. Cancellations'
    <3>1. ASSUME NEW u \in Task, u # t
          PROVE  request'[u] = request[u] /\ cancelled'[u] = cancelled[u]
      BY <1>2, <2>1, <3>1
    <3>2. pc[t] # "queued" /\ cancelled'[t] /\ cancels'[t] # 0
      BY <1>1, <2>1, <2>2 DEF Working
    <3> QED
      BY <2>1, <2>2, <3>1, <3>2 DEF IInv, Cancellations, Working
  <2>7. ToldTheTruth'
    BY <2>1, <2>2 DEF IInv, ToldTheTruth
  <2> QED
    BY <2>3, <2>4, <2>5, <2>6, <2>7 DEF IInv
<1> QED
  BY <1>3, <1>4 DEF SeesCancel

LEMMA ResumesKeeps ==
  ASSUME IInv, NEW t \in Task, Resumes(t)
  PROVE  IInv'
<1> DEFINE answer == IF cancelled[t] THEN "cancelled" ELSE job[t].state
<1>1. /\ TasksTyped /\ Working(t) /\ job[t].heard /\ ~request[t] /\ Finish(t, answer)
      /\ UNCHANGED <<kind, request, cancelled, cancels, workVars, exited>>
  BY DEF IInv, Typed, Resumes, Working
<1>2. job[t].state \in {"ok", "raised"}
  BY <1>1 DEF IInv, Jobs
<1>3. cancels[t] # 0 <=> cancelled[t]
  BY <1>1 DEF IInv, Cancellations
<1>4. /\ answer \in Answers
      /\ answer = "cancelled" <=> cancels[t] # 0
      /\ answer # "cancelled" => answer = job[t].state
  BY <1>2, <1>3 DEF Answers
<1> HIDE DEF answer
<1>5. TasksTyped'
  <2>1. pc' \in [Task -> States] /\ told' \in [Task -> Answers]
    BY <1>1, <1>4 DEF Finish, Ends, TasksTyped, States
  <2> QED
    BY <2>1, <1>1 DEF TasksTyped
<1> QED
  BY <1>1, <1>4, <1>5, FinishKeeps

LEMMA CancelKeeps ==
  ASSUME IInv, NEW t \in Task, Cancel(t)
  PROVE  IInv'
<1>1. TasksTyped /\ LockTyped /\ WorkTyped
  BY DEF IInv, Typed
<1>2. /\ \A u \in Task : /\ request'[u] = IF u = t THEN TRUE ELSE request[u]
                         /\ cancels'[u] = IF u = t THEN cancels[u] + 1 ELSE cancels[u]
                         /\ future'[u] = "set" => future[u] = "set"
      /\ pc[t] \in {"queued", "working"}
      /\ pc' = pc /\ kind' = kind /\ cancelled' = cancelled /\ told' = told
      /\ locked' = locked /\ waiters' = waiters /\ job' = job /\ executor' = executor
      /\ closed' = closed /\ exited' = exited
  BY <1>1 DEF Cancel, TasksTyped, LockTyped, workVars
<1>3. cancels'[t] # 0
  <2>1. cancels[t] \in Nat /\ cancels'[t] = cancels[t] + 1
    BY <1>1 DEF TasksTyped, Cancel
  <2> QED
    BY ONLY <2>1
<1>4. Typed'
  <2>1. request' \in [Task -> BOOLEAN] /\ cancels' \in [Task -> Nat]
    BY <1>1 DEF Cancel, TasksTyped
  <2>2. future' \in [Task -> Futures]
    BY <1>1 DEF Cancel, LockTyped, Futures
  <2> QED
    BY <2>1, <2>2, <1>1, <1>2 DEF Typed, TasksTyped, LockTyped, WorkTyped
<1>5. Exclusive' /\ Queue'
  BY <1>2 DEF IInv, Exclusive, Queue, Working
<1>6. Jobs' /\ Closing'
  BY <1>2 DEF IInv, Jobs, Closing, Working, Busy
<1>7. Cancellations'
  <2>1. \A u \in Task \ {t} : request'[u] = request[u] /\ cancels'[u] = cancels[u]
    BY <1>2
  <2>2. request'[t]
    BY <1>2
  <2> QED
    BY <1>2, <1>3, <2>1, <2>2 DEF IInv, Cancellations, Working
<1>8. ToldTheTruth'
  <2>1. \A u \in Task : pc[u] = "ended" => cancels'[u] = cancels[u]
    BY <1>2
  <2> QED
    BY <1>2, <2>1 DEF IInv, ToldTheTruth
<1> QED
  BY <1>4, <1>5, <1>6, <1>7, <1>8 DEF IInv

-----------------------------------------------------------------------------
\* The worker takes up the one job there is, whose task waits for it.
LEMMA Submitted ==
  ASSUME IInv, NEW t \in Task, StartJob(t)
  PROVE  job[t].state = "submitted" /\ Working(t) /\ executor = <<t>>
<1>1. executor # <<>> /\ Head(executor) = t
  BY DEF StartJob
<1>2. PICK u \in Task : job[u].state = "submitted" /\ executor = <<u>>
  BY <1>1 DEF IInv, Jobs
<1>3. u = t
  BY <1>1, <1>2
<1> QED
  BY <1>2, <1>3 DEF IInv, Jobs, Busy

LEMMA StartJobKeeps ==
  ASSUME IInv, NEW t \in Task, StartJob(t)
  PROVE  IInv'
<1>1. /\ TasksTyped /\ LockTyped /\ WorkTyped
      /\ job[t].state = "submitted" /\ Working(t) /\ executor = <<t>>
  BY Submitted DEF IInv, Typed
<1> DEFINE NewJob == [job[t] EXCEPT !.state = "running"]
<1>2. NewJob \in Job /\ NewJob.state = "running" /\ (NewJob.heard <=> job[t].heard)
  BY <1>1 DEF WorkTyped, Job
<1> HIDE DEF NewJob
<1>3. /\ \A u \in Task : job'[u] = IF u = t THEN NewJob ELSE job[u]
      /\ job' \in [Task -> Job]
  BY <1>1, <1>2 DEF StartJob, WorkTyped, NewJob
<1>4. /\ executor' = <<>> /\ UNCHANGED <<taskVars, lockVars, closed>>
      /\ exited' <=> exited \/ kind[t] = "close"
      /\ exited' \in BOOLEAN
  <2>1. executor' = Tail(<<t>>)
    BY <1>1 DEF StartJob
  <2>2. executor' = <<>>
    BY <2>1
  <2>3. exited' = (exited \/ kind[t] = "close") /\ exited \in BOOLEAN
    BY <1>1 DEF StartJob, WorkTyped
  <2>4. UNCHANGED <<taskVars, lockVars, closed>>
    BY DEF StartJob
  <2> QED
    BY <2>2, <2>3, <2>4
<1>5. \A u \in Task : job[u].state = "submitted" => u = t
  BY <1>1 DEF IInv, Jobs
<1>6. Typed'
  <2>1. WorkTyped'
    BY <1>1, <1>3, <1>4, EmptySeq DEF WorkTyped
  <2> QED
    BY <2>1, <1>1, <1>4 DEF Typed, TasksTyped, LockTyped, taskVars, lockVars
<1>7. Exclusive' /\ Queue' /\ Cancellations'
  BY <1>4 DEF IInv, Exclusive, Queue, Cancellations, Working, taskVars, lockVars
<1>8. Jobs'
  <2>1. ~job[t].heard
    BY <1>1 DEF IInv, Jobs
  <2> QED
    BY <2>1, <1>1, <1>2, <1>3, <1>4, <1>5 DEF IInv, Jobs, Busy, Working, taskVars
<1>9. Closing'
  <2>1. ~closed /\ (exited => kind[t] = "close")
    BY <1>1 DEF IInv, Closing, Exclusive
  <2> QED
    BY <2>1, <1>1, <1>2, <1>3, <1>4 DEF Closing, Working, taskVars
<1>10. ToldTheTruth'
  <2>1. \A u \in Task : pc[u] = "ended" => job'[u] = job[u]
    BY <1>1, <1>3 DEF Working
  <2> QED
    BY <1>4, <2>1 DEF IInv, ToldTheTruth, taskVars
<1> QED
  BY <1>6, <1>7, <1>8, <1>9, <1>10 DEF IInv

LEMMA FinishJobKeeps ==
  ASSUME IInv, NEW t \in Task, FinishJob(t)
  PROVE  IInv'
<1>1. /\ TasksTyped /\ LockTyped /\ WorkTyped
      /\ job[t].state = "running" /\ Working(t)
  BY DEF IInv, Typed, FinishJob, Running, Jobs, Busy
<1>2. PICK result \in {"ok", "raised"} : job' = [job EXCEPT ![t].state = result]
  BY DEF FinishJob
<1> DEFINE NewJob == [job[t] EXCEPT !.state = result]
<1>3. NewJob \in Job /\ NewJob.state = result /\ (NewJob.heard <=> job[t].heard)
  BY <1>1 DEF WorkTyped, Job
<1> HIDE DEF NewJob
<1>4. /\ \A u \in Task : job'[u] = IF u = t THEN NewJob ELSE job[u]
      /\ job' \in [Task -> Job]
      /\ UNCHANGED <<taskVars, lockVars, executor, closed, exited>>
  BY <1>1, <1>2, <1>3 DEF FinishJob, WorkTyped, NewJob
<1>5. result # "none" /\ result # "submitted"
  BY <1>2
<1>6. Typed'
  BY <1>1, <1>4 DEF Typed, TasksTyped, LockTyped, WorkTyped, taskVars, lockVars
<1>7. Exclusive' /\ Queue' /\ Cancellations'
  BY <1>4 DEF IInv, Exclusive, Queue, Cancellations, Working, taskVars, lockVars
<1>8. Jobs'
  BY <1>1, <1>3, <1>4, <1>5 DEF IInv, Jobs, Busy, Working, taskVars
<1>9. Closing'
  BY <1>1, <1>3, <1>4, <1>5 DEF IInv, Closing, Working, taskVars
<1>10. ToldTheTruth'
  <2>1. \A u \in Task : pc[u] = "ended" => job'[u] = job[u]
    BY <1>1, <1>4 DEF Working
  <2> QED
    BY <1>4, <2>1 DEF IInv, ToldTheTruth, taskVars
<1> QED
  BY <1>6, <1>7, <1>8, <1>9, <1>10 DEF IInv

LEMMA HearsKeeps ==
  ASSUME IInv, NEW t \in Task, Hears(t)
  PROVE  IInv'
<1>1. /\ TasksTyped /\ LockTyped /\ WorkTyped
      /\ job[t].state \in {"ok", "raised"}
  BY DEF IInv, Typed, Hears
<1> DEFINE NewJob == [job[t] EXCEPT !.heard = TRUE]
<1>2. NewJob \in Job /\ NewJob.state = job[t].state
  BY <1>1 DEF WorkTyped, Job
<1> HIDE DEF NewJob
<1>3. /\ \A u \in Task : job'[u] = IF u = t THEN NewJob ELSE job[u]
      /\ job' \in [Task -> Job]
      /\ UNCHANGED <<taskVars, lockVars, executor, closed, exited>>
  BY <1>1, <1>2 DEF Hears, WorkTyped, NewJob
<1>4. \A u \in Task : job'[u].state = job[u].state /\ (u # t => job'[u] = job[u])
  BY <1>2, <1>3
<1>5. Typed'
  BY <1>1, <1>3 DEF Typed, TasksTyped, LockTyped, WorkTyped, taskVars, lockVars
<1>6. Exclusive' /\ Queue' /\ Cancellations'
  BY <1>3 DEF IInv, Exclusive, Queue, Cancellations, Working, taskVars, lockVars
<1>7. Jobs'
  BY <1>1, <1>3, <1>4 DEF IInv, Jobs, Busy, Working, taskVars
<1>8. Closing'
  BY <1>3, <1>4 DEF IInv, Closing, Working, taskVars
<1>9. ToldTheTruth'
  BY <1>3, <1>4 DEF IInv, ToldTheTruth, taskVars
<1> QED
  BY <1>5, <1>6, <1>7, <1>8, <1>9 DEF IInv

-----------------------------------------------------------------------------
LEMMA Step == IInv /\ [Next]_vars => IInv'
<1> SUFFICES ASSUME IInv, [Next]_vars PROVE IInv'
  OBVIOUS
<1>1. CASE UNCHANGED vars
  BY <1>1, Unchanged
<1>2. ASSUME NEW t \in Task, NEW k \in Kinds, Call(t, k) PROVE IInv'
  BY <1>2, CallKeeps
<1>3. ASSUME NEW t \in Task, Cancel(t) PROVE IInv'
  BY <1>3, CancelKeeps
<1>4. ASSUME NEW t \in Task, TaskSteps(t) PROVE IInv'
  BY <1>4, GetsLockKeeps, LeavesQueueKeeps, SeesCancelKeeps, ResumesKeeps DEF TaskSteps
<1>5. ASSUME NEW t \in Task, WorkerSteps(t) PROVE IInv'
  BY <1>5, StartJobKeeps, FinishJobKeeps, HearsKeeps DEF WorkerSteps
<1> QED
  BY <1>1, <1>2, <1>3, <1>4, <1>5 DEF Next

\* The values the variables of the client, of its lock and of its thread pool
\* can have, and where its calls, jobs and cancellations can be.
THEOREM Invariant == Spec => []IInv
BY InitIInv, Step, PTL DEF Spec

\* Every caller, cancelled or not, is told what came of its own call, and only
\* once its job has left the worker thread.
THEOREM Truthful == Spec => []ToldTheTruth
<1>1. IInv => ToldTheTruth
  BY DEF IInv
<1> QED
  BY <1>1, Invariant, PTL

\* A job is taken up while its task works on it, and the exit before it would
\* have been that of another task that works, or of a closed client.
LEMMA StartsBeforeExit == IInv => \A t \in Task : StartJob(t) => ~exited
<1> SUFFICES ASSUME IInv, NEW t \in Task, StartJob(t), exited PROVE FALSE
  OBVIOUS
<1>1. job[t].state = "submitted" /\ Working(t)
  BY Submitted
<1>2. PICK u \in Task : Working(u) /\ job[u].state # "submitted"
  BY <1>1 DEF IInv, Closing
<1> QED
  BY <1>1, <1>2 DEF IInv, Exclusive

\* After the synchronous client's __exit__ has begun no operation is started on
\* it, and the exit itself is not run again.
THEOREM ExitIsLast == Spec => NothingAfterExit
<1>1. IInv /\ [Next]_vars => [\A t \in Task : StartJob(t) => ~exited]_vars
  BY StartsBeforeExit
<1> QED
  BY <1>1, Invariant, PTL DEF Spec, NothingAfterExit
=============================================================================
