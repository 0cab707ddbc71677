----------------------------- MODULE ThreadPool ------------------------------
(***************************************************************************)
(* The thread pool: a queue of tasks, workers that wait for it on a        *)
(* condition variable, parallel_for, wait_idle and the destructor.         *)
(*                                                                         *)
(* What a thread does while it holds mutex_ is one step; a notification    *)
(* comes after the unlock and is a step of its own.  A task is one step of *)
(* a worker outside the lock, and may itself call submit or wait_idle.     *)
(***************************************************************************)
EXTENDS Naturals, Sequences, FiniteSets

CONSTANTS
    Workers,        \* workers_
    Callers,        \* the threads that hold a reference to the pool
    MaxCount,       \* the largest count given to parallel_for
    MaxCalls,       \* bound on the calls one caller makes
    MaxTaskCalls,   \* bound on the tasks one worker's tasks submit
    TasksMayWait    \* whether a task may call wait_idle

ASSUME PoolAssumption ==
    /\ Workers # {}
    /\ IsFiniteSet(Workers)
    /\ IsFiniteSet(Callers)
    /\ Workers \cap Callers = {}
    /\ MaxCount \in Nat
    /\ MaxCalls \in Nat
    /\ MaxTaskCalls \in Nat
    /\ TasksMayWait \in BOOLEAN

Threads == Workers \cup Callers

VARIABLES
    queue, active, stopping,    \* tasks_, active_, stopping_
    pc,         \* where each thread stands
    job,        \* the task each worker has
    calls,      \* how many calls each thread has made
    count,      \* the count of each caller's parallel_for, 0 for a submit
    chunk,      \* the chunk it submits, or whose future it awaits, next
    ret,        \* how each caller's last call ended, "none" while it runs
    ok, threw,  \* the tasks whose future holds a result, or an exception
    accepted    \* history: every task that was queued

pool == <<queue, active, stopping>>
call == <<count, chunk, ret>>
vars == <<pool, pc, job, calls, call, ok, threw, accepted>>

(***************************************************************************)
(* The chunks of parallel_for                                              *)
(***************************************************************************)
MinOf(a, b) == IF a <= b THEN a ELSE b

Chunks(n, w) == MinOf(n, w)

\* Mutant: rounded down.
ChunkSizeFloor(n, w) == n \div Chunks(n, w)

ChunkSize(n, w) == (n + Chunks(n, w) - 1) \div Chunks(n, w)

ChunkBegin(n, w, k) == k * ChunkSize(n, w)

ChunkEnd(n, w, k) == MinOf(ChunkBegin(n, w, k) + ChunkSize(n, w), n)

\* The loop stops after the last worker's chunk or at an empty chunk.
HasChunk(n, w, k) == k < Chunks(n, w) /\ ChunkBegin(n, w, k) < ChunkEnd(n, w, k)

Size == Cardinality(Workers)

\* A task is a chunk of a parallel_for, or one call for an index of its own.
Task == [by : Threads, call : Nat, chunk : Nat, begin : Nat, end : Nat]

TaskOf(c, k) ==
    [by    |-> c, call |-> calls[c], chunk |-> k,
     begin |-> ChunkBegin(count[c], Size, k),
     end   |-> ChunkEnd(count[c], Size, k)]

PlainTask(t) == [by |-> t, call |-> calls[t] + 1, chunk |-> 0, begin |-> 0, end |-> 1]

NoTask == [by |-> "nobody"]

Queued == {queue[i] : i \in DOMAIN queue}

\* The worker is inside task().
InTask(w) == pc[w] \in {"running", "notifying", "idlecheck", "idleblocked"}

Taken == {job[w] : w \in {v \in Workers : InTask(v)}}

Done == ok \cup threw

-----------------------------------------------------------------------------
Init ==
    /\ queue = <<>>
    /\ active = 0
    /\ stopping = FALSE
    /\ pc = [t \in Threads |-> IF t \in Workers THEN "ready" ELSE "idle"]
    /\ job = [w \in Workers |-> NoTask]
    /\ calls = [t \in Threads |-> 0]
    /\ count = [c \in Callers |-> 0]
    /\ chunk = [c \in Callers |-> 0]
    /\ ret = [c \in Callers |-> "none"]
    /\ ok = {}
    /\ threw = {}
    /\ accepted = {}

Goto(t, place) == pc' = [pc EXCEPT ![t] = place]

\* submit, under the lock; a caller that only submits returns after Notify.
Enqueue(task) ==
    /\ ~stopping
    /\ queue' = Append(queue, task)
    /\ accepted' = accepted \cup {task}
    /\ UNCHANGED <<active, stopping>>

(***************************************************************************)
(* worker_loop                                                             *)
(***************************************************************************)
\* The predicate of work_available_.wait is FALSE.
WaitForWork(w) ==
    /\ pc[w] = "ready"
    /\ ~stopping
    /\ queue = <<>>
    /\ Goto(w, "waiting")
    /\ UNCHANGED <<pool, job, calls, call, ok, threw, accepted>>

\* Mutant: a worker leaves as soon as the pool is stopping.
ExitAtOnce(w) ==
    /\ pc[w] = "ready"
    /\ stopping
    /\ Goto(w, "exited")
    /\ UNCHANGED <<pool, job, calls, call, ok, threw, accepted>>

Exit(w) ==
    /\ pc[w] = "ready"
    /\ stopping
    /\ queue = <<>>
    /\ Goto(w, "exited")
    /\ UNCHANGED <<pool, job, calls, call, ok, threw, accepted>>

\* Mutants: active_ is not incremented under this lock; front without pop.
TakeUncounted(w) ==
    /\ pc[w] = "ready"
    /\ queue # <<>>
    /\ job' = [job EXCEPT ![w] = Head(queue)]
    /\ queue' = Tail(queue)
    /\ Goto(w, "running")
    /\ UNCHANGED <<active, stopping, calls, call, ok, threw, accepted>>

TakeWithoutPop(w) ==
    /\ pc[w] = "ready"
    /\ queue # <<>>
    /\ job' = [job EXCEPT ![w] = Head(queue)]
    /\ active' = active + 1
    /\ Goto(w, "running")
    /\ UNCHANGED <<queue, stopping, calls, call, ok, threw, accepted>>

Take(w) ==
    /\ pc[w] = "ready"
    /\ queue # <<>>
    /\ job' = [job EXCEPT ![w] = Head(queue)]
    /\ queue' = Tail(queue)
    /\ active' = active + 1
    /\ Goto(w, "running")
    /\ UNCHANGED <<stopping, calls, call, ok, threw, accepted>>

\* The packaged_task puts the outcome of the task into its future.
Run(w) ==
    /\ pc[w] = "running"
    /\ \/ ok' = ok \cup {job[w]} /\ UNCHANGED threw
       \/ threw' = threw \cup {job[w]} /\ UNCHANGED ok
    /\ Goto(w, "finished")
    /\ UNCHANGED <<pool, job, calls, call, accepted>>

\* Mutants: active_ is not decremented; nobody is notified.
RetireUncounted(w) ==
    /\ pc[w] = "finished"
    /\ job' = [job EXCEPT ![w] = NoTask]
    /\ Goto(w, "ready")
    /\ UNCHANGED <<pool, calls, call, ok, threw, accepted>>

RetireSilently(w) ==
    /\ pc[w] = "finished"
    /\ active' = active - 1
    /\ job' = [job EXCEPT ![w] = NoTask]
    /\ Goto(w, "ready")
    /\ UNCHANGED <<queue, stopping, calls, call, ok, threw, accepted>>

\* notify_all wakes whoever waits for the pool to be idle.
Retire(w) ==
    /\ pc[w] = "finished"
    /\ active' = active - 1
    /\ pc' = [t \in Threads |->
                 IF t = w THEN "ready"
                 ELSE IF pc[t] = "idleblocked" /\ queue = <<>> /\ active = 1
                      THEN "idlecheck"
                      ELSE pc[t]]
    /\ job' = [job EXCEPT ![w] = NoTask]
    /\ UNCHANGED <<queue, stopping, calls, call, ok, threw, accepted>>

\* A task that submits a task; when the pool is stopping, submit throws in
\* it and nothing is queued, which Run covers.
SubmitInTask(w) ==
    /\ pc[w] = "running"
    /\ calls[w] < MaxTaskCalls
    /\ Enqueue(PlainTask(w))
    /\ calls' = [calls EXCEPT ![w] = @ + 1]
    /\ Goto(w, "notifying")
    /\ UNCHANGED <<job, call, ok, threw>>

WaitIdleInTask(w) ==
    /\ TasksMayWait
    /\ pc[w] = "running"
    /\ Goto(w, "idlecheck")
    /\ UNCHANGED <<pool, job, calls, call, ok, threw, accepted>>

(***************************************************************************)
(* Both condition variables                                                *)
(***************************************************************************)
\* Where a thread goes on after the notification submit ends with.
AfterNotify(t) ==
    IF t \in Workers THEN "running"
    ELSE IF count[t] = 0 THEN "idle"
    ELSE IF HasChunk(count[t], Size, chunk[t]) THEN "submitting" ELSE "getting"

\* Mutant: no worker is notified.
NotifyNobody(t) ==
    /\ pc[t] = "notifying"
    /\ Goto(t, AfterNotify(t))
    /\ chunk' = [c \in Callers |->
                    IF c = t /\ AfterNotify(t) = "getting" THEN 0 ELSE chunk[c]]
    /\ ret' = [c \in Callers |->
                  IF c = t /\ AfterNotify(t) = "idle" THEN "returned" ELSE ret[c]]
    /\ UNCHANGED <<pool, job, calls, count, ok, threw, accepted>>

\* work_available_.notify_one
Notify(t) ==
    LET waiting == {w \in Workers : pc[w] = "waiting"}
    IN  /\ pc[t] = "notifying"
        /\ \/ waiting = {} /\ Goto(t, AfterNotify(t))
           \/ \E w \in waiting :
                  pc' = [pc EXCEPT ![t] = AfterNotify(t), ![w] = "ready"]
        /\ chunk' = [c \in Callers |->
                        IF c = t /\ AfterNotify(t) = "getting" THEN 0 ELSE chunk[c]]
        /\ ret' = [c \in Callers |->
                      IF c = t /\ AfterNotify(t) = "idle" THEN "returned" ELSE ret[c]]
        /\ UNCHANGED <<pool, job, calls, count, ok, threw, accepted>>

\* Mutant: running tasks are not asked for.
CheckQueueOnly(t) ==
    /\ pc[t] = "idlecheck"
    /\ IF queue = <<>>
       THEN /\ Goto(t, IF t \in Workers THEN "running" ELSE "idle")
            /\ ret' = [c \in Callers |-> IF c = t THEN "returned" ELSE ret[c]]
       ELSE /\ Goto(t, "idleblocked")
            /\ UNCHANGED ret
    /\ UNCHANGED <<pool, job, calls, count, chunk, ok, threw, accepted>>

\* The predicate of all_idle_.wait.
CheckIdle(t) ==
    /\ pc[t] = "idlecheck"
    /\ IF queue = <<>> /\ active = 0
       THEN /\ Goto(t, IF t \in Workers THEN "running" ELSE "idle")
            /\ ret' = [c \in Callers |-> IF c = t THEN "returned" ELSE ret[c]]
       ELSE /\ Goto(t, "idleblocked")
            /\ UNCHANGED ret
    /\ UNCHANGED <<pool, job, calls, count, chunk, ok, threw, accepted>>

\* The standard lets a wait return for no reason.
SpuriousWakeup(t) ==
    /\ \/ pc[t] = "waiting"     /\ Goto(t, "ready")
       \/ pc[t] = "idleblocked" /\ Goto(t, "idlecheck")
    /\ UNCHANGED <<pool, job, calls, call, ok, threw, accepted>>

(***************************************************************************)
(* The callers.  No member function is called once the destructor runs,    *)
(* nor does it run while another thread is inside one.                     *)
(***************************************************************************)
StartCall(c, n, place) ==
    /\ pc[c] = "idle"
    /\ ~stopping
    /\ calls[c] < MaxCalls
    /\ calls' = [calls EXCEPT ![c] = @ + 1]
    /\ count' = [count EXCEPT ![c] = n]
    /\ chunk' = [chunk EXCEPT ![c] = 0]
    /\ Goto(c, place)

Submit(c) ==
    /\ StartCall(c, 0, "notifying")
    /\ Enqueue(PlainTask(c))
    /\ ret' = [ret EXCEPT ![c] = "none"]
    /\ UNCHANGED <<job, ok, threw>>

\* A single index, and no index at all, are the caller's own business.
ParallelForInline(c, n) ==
    /\ n < 2
    /\ StartCall(c, 0, "idle")
    /\ \/ ret' = [ret EXCEPT ![c] = "returned"]
       \/ n = 1 /\ ret' = [ret EXCEPT ![c] = "threw"]
    /\ UNCHANGED <<pool, job, ok, threw, accepted>>

ParallelFor(c, n) ==
    /\ n > 1
    /\ StartCall(c, n, "submitting")
    /\ ret' = [ret EXCEPT ![c] = "none"]
    /\ UNCHANGED <<pool, job, ok, threw, accepted>>

SubmitChunk(c) ==
    /\ pc[c] = "submitting"
    /\ Enqueue(TaskOf(c, chunk[c]))
    /\ chunk' = [chunk EXCEPT ![c] = @ + 1]
    /\ Goto(c, "notifying")
    /\ UNCHANGED <<job, calls, count, ret, ok, threw>>

\* future.get() for one chunk after another; the first exception leaves.
GetFuture(c) ==
    LET task == TaskOf(c, chunk[c])
    IN  /\ pc[c] = "getting"
        /\ \/ /\ task \in threw
              /\ ret' = [ret EXCEPT ![c] = "threw"]
              /\ Goto(c, "idle")
              /\ UNCHANGED chunk
           \/ /\ task \in ok
              /\ chunk' = [chunk EXCEPT ![c] = @ + 1]
              /\ IF HasChunk(count[c], Size, chunk[c] + 1)
                 THEN UNCHANGED <<pc, ret>>
                 ELSE /\ ret' = [ret EXCEPT ![c] = "returned"]
                      /\ Goto(c, "idle")
        /\ UNCHANGED <<pool, job, calls, count, ok, threw, accepted>>

WaitIdle(c) ==
    /\ StartCall(c, 0, "idlecheck")
    /\ ret' = [ret EXCEPT ![c] = "none"]
    /\ UNCHANGED <<pool, job, ok, threw, accepted>>

Stop(c) ==
    /\ \A d \in Callers : pc[d] = "idle"
    /\ ~stopping
    /\ stopping' = TRUE
    /\ Goto(c, "stopping")
    /\ UNCHANGED <<queue, active, job, calls, call, ok, threw, accepted>>

\* Mutant: notify_one in the destructor.
NotifyOneToStop(c) ==
    /\ pc[c] = "stopping"
    /\ IF \E w \in Workers : pc[w] = "waiting"
       THEN \E w \in Workers :
                /\ pc[w] = "waiting"
                /\ pc' = [pc EXCEPT ![c] = "joining", ![w] = "ready"]
       ELSE Goto(c, "joining")
    /\ UNCHANGED <<pool, job, calls, call, ok, threw, accepted>>

\* work_available_.notify_all
NotifyAll(c) ==
    /\ pc[c] = "stopping"
    /\ pc' = [t \in Threads |->
                 IF t = c THEN "joining"
                 ELSE IF pc[t] = "waiting" THEN "ready" ELSE pc[t]]
    /\ UNCHANGED <<pool, job, calls, call, ok, threw, accepted>>

Join(c) ==
    /\ pc[c] = "joining"
    /\ \A w \in Workers : pc[w] = "exited"
    /\ Goto(c, "gone")
    /\ UNCHANGED <<pool, job, calls, call, ok, threw, accepted>>

-----------------------------------------------------------------------------
WorkerStep(w) ==
    \/ WaitForWork(w)
    \/ Exit(w)
    \/ Take(w)
    \/ Run(w)
    \/ Retire(w)
    \/ SubmitInTask(w)
    \/ WaitIdleInTask(w)
    \/ Notify(w)
    \/ CheckIdle(w)

\* What a caller does once it has begun.
CallerStep(c) ==
    \/ SubmitChunk(c)
    \/ Notify(c)
    \/ GetFuture(c)
    \/ CheckIdle(c)
    \/ NotifyAll(c)
    \/ Join(c)

Begin(c) ==
    \/ Submit(c)
    \/ \E n \in 0 .. MaxCount : ParallelForInline(c, n) \/ ParallelFor(c, n)
    \/ WaitIdle(c)
    \/ Stop(c)

Next ==
    \/ \E w \in Workers : WorkerStep(w)
    \/ \E c \in Callers : CallerStep(c) \/ Begin(c)
    \/ \E t \in Threads : SpuriousWakeup(t)

Spec == Init /\ [][Next]_vars

\* The operating system runs every thread that can run, and a task ends.
\* Nobody has to call anything, and no wait has to end without a reason.
Fairness ==
    /\ \A w \in Workers : WF_vars(WorkerStep(w))
    /\ \A c \in Callers : WF_vars(CallerStep(c))

FairSpec == Spec /\ Fairness
-----------------------------------------------------------------------------
InPlace(place) == {t \in Threads : pc[t] = place}

\* The type invariant.
TypeOK ==
    /\ queue \in Seq(Task)
    /\ active \in Nat
    /\ stopping \in BOOLEAN
    /\ \A w \in Workers :
           pc[w] \in {"ready", "waiting", "running", "notifying",
                     "idlecheck", "idleblocked", "finished", "exited"}
    /\ \A c \in Callers :
           pc[c] \in {"idle", "submitting", "notifying", "getting",
                     "idlecheck", "idleblocked", "stopping", "joining", "gone"}
    /\ DOMAIN pc = Threads
    /\ job \in [Workers -> Task \cup {NoTask}]
    /\ calls \in [Threads -> Nat]
    /\ count \in [Callers -> 0 .. MaxCount]
    /\ chunk \in [Callers -> Nat]
    /\ ret \in [Callers -> {"none", "returned", "threw"}]
    /\ ok \in SUBSET Task
    /\ threw \in SUBSET Task
    /\ accepted \in SUBSET Task

\* active_ counts the workers between the two critical sections of their
\* loop, which is what wait_idle relies on.
ActiveCounts ==
    active = Cardinality({w \in Workers : InTask(w) \/ pc[w] = "finished"})

\* Every task that submit took is queued, with one worker, or done, and in
\* one of these places only: none is dropped and none is run twice.
TasksConserved ==
    /\ accepted = Queued \cup Taken \cup Done
    /\ Queued \cap (Taken \cup Done) = {}
    /\ Taken \cap Done = {}
    /\ ok \cap threw = {}
    /\ \A i, j \in DOMAIN queue : queue[i] = queue[j] => i = j
    /\ \A v, w \in Workers : InTask(v) /\ InTask(w) /\ job[v] = job[w] => v = w

\* notify_one for each task is enough: while a worker sleeps, every queued
\* task has a worker on its way to the queue or a notification on its way.
\* And notify_all is needed once: none sleeps after the destructor sent it.
NoLostWakeup ==
    \A w \in Workers :
        pc[w] = "waiting" =>
            /\ Len(queue) <= Cardinality(InPlace("ready") \cup InPlace("notifying"))
            /\ stopping => InPlace("stopping") # {}

\* A parallel_for that returns has run the body for every index once.
ParallelForComplete ==
    \A c \in Callers :
        ret[c] = "returned" /\ count[c] > 1 =>
            \A i \in 0 .. count[c] - 1 :
                Cardinality({t \in ok : /\ t.by = c
                                        /\ t.call = calls[c]
                                        /\ t.begin <= i /\ i < t.end}) = 1

\* When wait_idle returns, every task submitted before then has finished.
IdleMeansDone ==
    [][\A c \in Callers :
           pc[c] = "idlecheck" /\ pc'[c] = "idle" => accepted = Done]_vars

\* The destructor runs queued work rather than dropping it.
ShutdownDrains ==
    InPlace("gone") # {} => accepted = Done

\* "and waits for all of them": no chunk is run, or left in the queue, once
\* parallel_for has left and the body it refers to is gone.
ChunksEndWithCall ==
    \A t \in Queued \cup Taken :
        t.by \in Callers /\ t.call = calls[t.by] /\ count[t.by] > 1 =>
            ret[t.by] = "none"

\* parallel_for returns.
ParallelForReturns ==
    \A c \in Callers : pc[c] = "submitting" ~> pc[c] = "idle"

\* wait_idle returns to whoever called it, unless somebody keeps submitting.
WaitIdleReturns ==
    <>[](InPlace("notifying") = {}) =>
        \A t \in Threads : pc[t] = "idlecheck" ~> pc[t] \in {"idle", "running"}

\* The destructor joins every worker.
DestructorReturns ==
    \A c \in Callers : pc[c] = "stopping" ~> pc[c] = "gone"
=============================================================================
