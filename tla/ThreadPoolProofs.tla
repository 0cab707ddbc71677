--------------------------- MODULE ThreadPoolProofs ---------------------------
(***************************************************************************)
(* For any number of workers, callers, calls and indices, and tasks that   *)
(* submit or wait: active_ counts the running tasks, no task is lost or    *)
(* run twice, no wakeup is lost, and wait_idle and the destructor mean     *)
(* what they say; and parallel_for runs the body once for every index      *)
(* (second part).                                                          *)
(***************************************************************************)
EXTENDS ThreadPool, FiniteSetTheorems, SequenceTheorems, TLAPS

WorkerPlace ==
    {"ready", "waiting", "running", "notifying", "idlecheck", "idleblocked", "finished",
     "exited"}

CallerPlace ==
    {"idle", "submitting", "notifying", "getting", "idlecheck", "idleblocked", "stopping",
     "joining", "gone"}

Types ==
    /\ queue \in Seq(Task)
    /\ active \in Nat
    /\ stopping \in BOOLEAN
    /\ pc \in [Threads -> WorkerPlace \cup CallerPlace]
    /\ \A w \in Workers : pc[w] \in WorkerPlace
    /\ \A c \in Callers : pc[c] \in CallerPlace
    /\ job \in [Workers -> Task \cup {NoTask}]
    /\ calls \in [Threads -> Nat]
    /\ count \in [Callers -> 0 .. MaxCount]
    /\ chunk \in [Callers -> Nat]
    /\ ret \in [Callers -> {"none", "returned", "threw"}]
    /\ ok \in SUBSET Task
    /\ threw \in SUBSET Task
    /\ accepted \in SUBSET Task

\* A worker between the two critical sections of its loop has a task.
Inside(w) == InTask(w) \/ pc[w] = "finished"
JobsHeld == \A w \in Workers : Inside(w) => job[w] \in Task

\* A caller that submits chunks or awaits them has some to submit or await.
CallOK ==
    \A c \in Callers :
        /\ count[c] # 1
        /\ pc[c] \in {"submitting", "getting"} => count[c] > 1

\* What will be queued next is not among what was: tasks are numbered by the
\* call, and the chunks of a call by chunk.
Fresh ==
    \A task \in accepted :
        /\ task.call <= calls[task.by]
        /\ task.by \in Callers /\ pc[task.by] \in {"submitting", "notifying"}
               /\ count[task.by] > 1 /\ task.call = calls[task.by]
               => task.chunk < chunk[task.by]

\* After the destructor began nobody submits; a worker leaves only an empty
\* queue; the destructor ends when all have left.
Draining ==
    /\ stopping => \A c \in Callers : pc[c] \in {"idle", "stopping", "joining", "gone"}
    /\ \A w \in Workers : pc[w] = "exited" => stopping /\ queue = <<>>
    /\ \A c \in Callers : pc[c] = "gone" => \A w \in Workers : pc[w] = "exited"

IInv ==
    /\ Types
    /\ JobsHeld
    /\ CallOK
    /\ ActiveCounts
    /\ TasksConserved
    /\ Fresh
    /\ Draining

-----------------------------------------------------------------------------
(***************************************************************************)
(* Sequences                                                               *)
(***************************************************************************)
Contents(q) == {q[i] : i \in DOMAIN q}
Distinct(q) == \A i, j \in DOMAIN q : q[i] = q[j] => i = j

LEMMA QueueAppended ==
    ASSUME NEW q \in Seq(Task), NEW task \in Task
    PROVE  /\ Append(q, task) \in Seq(Task)
           /\ Len(Append(q, task)) = Len(q) + 1
           /\ Contents(Append(q, task)) = Contents(q) \cup {task}
           /\ Distinct(q) /\ task \notin Contents(q) => Distinct(Append(q, task))
<1> DEFINE new == Append(q, task)
<1>1. /\ new \in Seq(Task)
      /\ Len(new) = Len(q) + 1
      /\ \A i \in 1 .. Len(q) : new[i] = q[i]
      /\ new[Len(q) + 1] = task
  BY AppendProperties
<1>2. DOMAIN q = 1 .. Len(q) /\ DOMAIN new = 1 .. Len(q) + 1 /\ Len(q) \in Nat
  BY <1>1, LenProperties
<1> HIDE DEF new
<1>3. Contents(new) = Contents(q) \cup {task}
  BY <1>1, <1>2 DEF Contents
<1>4. Distinct(q) /\ task \notin Contents(q) => Distinct(new)
  BY <1>1, <1>2 DEF Distinct, Contents
<1> QED
  BY <1>1, <1>3, <1>4 DEF new

LEMMA QueueTaken ==
    ASSUME NEW q \in Seq(Task), q # <<>>
    PROVE  /\ Head(q) \in Task
           /\ Tail(q) \in Seq(Task)
           /\ Len(Tail(q)) = Len(q) - 1
           /\ Contents(q) = Contents(Tail(q)) \cup {Head(q)}
           /\ Distinct(q) => Distinct(Tail(q)) /\ Head(q) \notin Contents(Tail(q))
<1> DEFINE rest == Tail(q)
<1>1. /\ Head(q) \in Task /\ rest \in Seq(Task)
      /\ Len(rest) = Len(q) - 1
      /\ Head(q) = q[1]
      /\ \A i \in 1 .. Len(rest) : rest[i] = q[i + 1]
  BY HeadTailProperties
<1>2. /\ DOMAIN q = 1 .. Len(q) /\ DOMAIN rest = 1 .. Len(q) - 1
      /\ Len(q) \in Nat /\ Len(q) # 0
  BY <1>1, LenProperties, EmptySeq
<1> HIDE DEF rest
<1>3. Contents(q) = Contents(rest) \cup {Head(q)}
  <2>1. \A i \in DOMAIN q : i = 1 \/ (i - 1 \in DOMAIN rest /\ q[i] = rest[i - 1])
    BY <1>1, <1>2
  <2>2. \A i \in DOMAIN rest : i + 1 \in DOMAIN q /\ rest[i] = q[i + 1]
    BY <1>1, <1>2
  <2>3. 1 \in DOMAIN q
    BY <1>2
  <2>4. ASSUME NEW x \in Contents(q) PROVE x \in Contents(rest) \cup {Head(q)}
    <3>1. PICK i \in DOMAIN q : x = q[i]
      BY DEF Contents
    <3>2. CASE i = 1
      BY <1>1, <3>1, <3>2
    <3>3. CASE i # 1
      <4>1. i - 1 \in DOMAIN rest /\ x = rest[i - 1]
        BY <2>1, <3>1, <3>3
      <4> QED
        BY <4>1 DEF Contents
    <3> QED
      BY <3>2, <3>3
  <2>5. Contents(rest) \subseteq Contents(q)
    BY <2>2 DEF Contents
  <2>6. Head(q) \in Contents(q)
    BY <1>1, <2>3 DEF Contents
  <2> QED
    BY <2>4, <2>5, <2>6
<1>4. ASSUME Distinct(q) PROVE Distinct(rest) /\ Head(q) \notin Contents(rest)
  <2>1. \A i \in DOMAIN rest :
            i \in Nat /\ i + 1 \in DOMAIN q /\ rest[i] = q[i + 1] /\ i + 1 # 1
    BY <1>1, <1>2
  <2>2. Distinct(rest)
    <3> SUFFICES ASSUME NEW i \in DOMAIN rest, NEW j \in DOMAIN rest, rest[i] = rest[j]
                 PROVE  i = j
      BY DEF Distinct
    <3>1. i + 1 = j + 1
      BY <1>4, <2>1 DEF Distinct
    <3> QED
      BY <2>1, <3>1
  <2>3. Head(q) \notin Contents(rest)
    <3> SUFFICES ASSUME NEW i \in DOMAIN rest, q[1] = rest[i]
                 PROVE  FALSE
      BY <1>1 DEF Contents
    <3> QED
      BY <1>2, <1>4, <2>1 DEF Distinct
  <2> QED
    BY <2>2, <2>3
<1> QED
  BY <1>1, <1>3, <1>4 DEF rest

-----------------------------------------------------------------------------
(***************************************************************************)
(* Tasks                                                                   *)
(***************************************************************************)
LEMMA WorkersCounted == Size \in Nat /\ Size > 0
<1>1. Cardinality(Workers) \in Nat /\ Cardinality(Workers) # 0
  BY PoolAssumption, FS_CardinalityType, FS_EmptySet
<1> QED
  BY <1>1 DEF Size

\* The chunks of a parallel_for over more than one index.
LEMMA ChunksTyped ==
    ASSUME NEW n \in Nat, n > 1, NEW k \in Nat
    PROVE  /\ Chunks(n, Size) \in Nat \ {0}
           /\ ChunkSize(n, Size) \in Nat \ {0}
           /\ ChunkBegin(n, Size, k) \in Nat
           /\ ChunkEnd(n, Size, k) \in Nat
<1> DEFINE w == Chunks(n, Size)
           s == (n + w - 1) \div w
<1>1. w \in Nat \ {0} /\ w <= n
  BY WorkersCounted DEF Chunks, MinOf
<1> HIDE DEF w
<1>2. s \in Nat \ {0}
  BY <1>1
<1>3. ChunkSize(n, Size) = s
  BY DEF ChunkSize, w
<1> HIDE DEF s
<1>4. k * s \in Nat
  BY <1>2
<1> QED
  BY <1>1, <1>2, <1>3, <1>4 DEF ChunkBegin, ChunkEnd, MinOf, w

LEMMA TasksTyped ==
    ASSUME Types
    PROVE  /\ \A t \in Threads : PlainTask(t) \in Task
           /\ \A c \in Callers : count[c] > 1 => TaskOf(c, chunk[c]) \in Task
<1>1. ASSUME NEW t \in Threads PROVE PlainTask(t) \in Task
  BY DEF PlainTask, Task, Types
<1>2. ASSUME NEW c \in Callers, count[c] > 1 PROVE TaskOf(c, chunk[c]) \in Task
  <2>1. /\ count[c] \in Nat /\ chunk[c] \in Nat
        /\ calls[c] \in Nat /\ c \in Threads
    BY PoolAssumption DEF Types, Threads
  <2>2. /\ ChunkBegin(count[c], Size, chunk[c]) \in Nat
        /\ ChunkEnd(count[c], Size, chunk[c]) \in Nat
    BY <1>2, <2>1, ChunksTyped
  <2> QED
    BY <2>1, <2>2 DEF TaskOf, Task
<1> QED
  BY <1>1, <1>2

\* The threads are of two kinds.
LEMMA Kinds ==
    /\ \A c \in Callers : c \notin Workers /\ c \in Threads
    /\ \A w \in Workers : w \notin Callers /\ w \in Threads
  BY PoolAssumption DEF Threads

-----------------------------------------------------------------------------
(***************************************************************************)
(* What steps have in common                                               *)
(***************************************************************************)
\* No worker enters or leaves a task.
SameTasks ==
    \A w \in Workers : (InTask(w)' <=> InTask(w)) /\ (pc'[w] = "finished" <=> pc[w] = "finished")

LEMMA CountKept ==
    ASSUME ActiveCounts, active' = active, SameTasks
    PROVE  ActiveCounts'
<1>1. {w \in Workers : InTask(w) \/ pc[w] = "finished"}'
          = {w \in Workers : InTask(w) \/ pc[w] = "finished"}
  BY DEF SameTasks
<1> QED
  BY <1>1 DEF ActiveCounts

LEMMA TasksKept ==
    ASSUME TasksConserved, JobsHeld, UNCHANGED <<queue, job, ok, threw, accepted>>, SameTasks
    PROVE  TasksConserved' /\ JobsHeld'
<1>1. Queued' = Queued /\ Done' = Done
  BY DEF Queued, Done
<1>2. Taken' = Taken
  BY DEF Taken, SameTasks
<1> QED
  BY <1>1, <1>2 DEF TasksConserved, JobsHeld, SameTasks, Inside

\* A step that neither queues nor moves a task.
LEMMA QuietStep ==
    ASSUME IInv, Types', CallOK', Draining',
           UNCHANGED <<queue, active, job, ok, threw, accepted>>, SameTasks,
           \A t \in Threads : calls[t] <= calls'[t],
           \A c \in Callers :
               pc'[c] \in {"submitting", "notifying"} /\ count'[c] > 1 =>
                   \/ calls[c] < calls'[c]
                   \/ /\ pc[c] \in {"submitting", "notifying"}
                      /\ count[c] = count'[c]
                      /\ chunk[c] <= chunk'[c]
    PROVE  IInv'
<1>1. ActiveCounts' /\ TasksConserved' /\ JobsHeld'
  BY CountKept, TasksKept DEF IInv
<1>2. Fresh'
  <2> SUFFICES ASSUME NEW task \in accepted
               PROVE  /\ task.call <= calls'[task.by]
                      /\ task.by \in Callers /\ pc'[task.by] \in {"submitting", "notifying"}
                             /\ count'[task.by] > 1 /\ task.call = calls'[task.by]
                             => task.chunk < chunk'[task.by]
    BY DEF Fresh
  <2>1. /\ task.by \in Threads /\ task.call \in Nat /\ task.chunk \in Nat
        /\ task.call <= calls[task.by]
        /\ task.by \in Callers /\ pc[task.by] \in {"submitting", "notifying"}
               /\ count[task.by] > 1 /\ task.call = calls[task.by]
               => task.chunk < chunk[task.by]
    BY DEF IInv, Types, Fresh, Task
  <2>2. calls[task.by] \in Nat /\ calls'[task.by] \in Nat
    BY <2>1 DEF IInv, Types
  <2>3. task.by \in Callers => chunk[task.by] \in Nat /\ chunk'[task.by] \in Nat
    BY DEF IInv, Types
  <2> QED
    BY <2>1, <2>2, <2>3
<1> QED
  BY <1>1, <1>2 DEF IInv

\* A new task is queued.
LEMMA EnqueueStep ==
    ASSUME IInv, NEW task \in Task, task \notin accepted, Enqueue(task),
           UNCHANGED <<job, ok, threw>>, SameTasks
    PROVE  /\ queue' \in Seq(Task) /\ accepted' \in SUBSET Task
           /\ ActiveCounts' /\ TasksConserved' /\ JobsHeld'
<1>1. /\ queue \in Seq(Task) /\ accepted \in SUBSET Task
      /\ queue' = Append(queue, task) /\ accepted' = accepted \cup {task}
      /\ active' = active
  BY DEF IInv, Types, Enqueue
<1>2. Queued = Contents(queue) /\ Queued' = Contents(queue')
  BY DEF Queued, Contents
<1>3. task \notin Queued \cup Taken \cup Done /\ Distinct(queue)
  BY DEF IInv, TasksConserved, Distinct
<1>4. /\ queue' \in Seq(Task)
      /\ Queued' = Queued \cup {task}
      /\ Distinct(queue')
  BY <1>1, <1>2, <1>3, QueueAppended
<1>5. Taken' = Taken /\ Done' = Done
  BY DEF Taken, Done, SameTasks
<1>6. TasksConserved'
  <2>1. accepted' = Queued' \cup Taken' \cup Done'
    BY <1>1, <1>4, <1>5 DEF IInv, TasksConserved
  <2>2. Queued' \cap (Taken' \cup Done') = {}
    BY <1>3, <1>4, <1>5 DEF IInv, TasksConserved
  <2>3. Taken' \cap Done' = {} /\ (ok \cap threw)' = {}
    BY <1>5 DEF IInv, TasksConserved
  <2>4. \A i, j \in DOMAIN queue' : queue'[i] = queue'[j] => i = j
    BY <1>4 DEF Distinct
  <2>5. (\A v, w \in Workers : InTask(v) /\ InTask(w) /\ job[v] = job[w] => v = w)'
    BY DEF IInv, TasksConserved, SameTasks
  <2> QED
    BY <2>1, <2>2, <2>3, <2>4, <2>5 DEF TasksConserved
<1>7. JobsHeld'
  BY DEF IInv, JobsHeld, SameTasks, Inside
<1>8. ActiveCounts'
  BY <1>1, CountKept DEF IInv
<1> QED
  BY <1>1, <1>4, <1>6, <1>7, <1>8

-----------------------------------------------------------------------------
(***************************************************************************)
(* The workers                                                             *)
(***************************************************************************)
LEMMA InitHolds ==
    ASSUME Init
    PROVE  IInv
<1>1. \A w \in Workers : pc[w] = "ready"
  BY Kinds DEF Init
<1>2. \A c \in Callers : pc[c] = "idle"
  BY Kinds DEF Init
<1>3. Types
  <2>1. queue \in Seq(Task)
    BY EmptySeq DEF Init
  <2>2. pc \in [Threads -> WorkerPlace \cup CallerPlace]
    BY DEF Init, WorkerPlace, CallerPlace
  <2>3. /\ \A w \in Workers : pc[w] \in WorkerPlace
        /\ \A c \in Callers : pc[c] \in CallerPlace
    BY <1>1, <1>2 DEF WorkerPlace, CallerPlace
  <2>4. /\ job \in [Workers -> Task \cup {NoTask}]
        /\ calls \in [Threads -> Nat]
    BY DEF Init
  <2>5. count \in [Callers -> 0 .. MaxCount] /\ chunk \in [Callers -> Nat]
    BY PoolAssumption DEF Init
  <2>6. ret \in [Callers -> {"none", "returned", "threw"}]
    BY DEF Init
  <2> QED
    BY <2>1, <2>2, <2>3, <2>4, <2>5, <2>6 DEF Init, Types
<1>4. ActiveCounts
  <2>1. {w \in Workers : InTask(w) \/ pc[w] = "finished"} = {}
    BY <1>1 DEF InTask
  <2> QED
    BY <2>1, FS_EmptySet DEF ActiveCounts, Init
<1>5. TasksConserved
  <2>1. Queued = {} /\ Taken = {} /\ Done = {}
    BY <1>1 DEF Queued, Taken, Done, InTask, Init
  <2>2. \A w \in Workers : ~InTask(w)
    BY <1>1 DEF InTask
  <2>3. DOMAIN queue = {}
    BY DEF Init
  <2> QED
    BY <2>1, <2>2, <2>3 DEF TasksConserved, Init
<1> QED
  BY <1>1, <1>2, <1>3, <1>4, <1>5
     DEF IInv, JobsHeld, Inside, InTask, CallOK, Fresh, Draining, Init

\* A worker only moves.
LEMMA MoveKeeps ==
    ASSUME IInv, NEW w \in Workers,
           WaitForWork(w) \/ Exit(w) \/ WaitIdleInTask(w)
    PROVE  IInv'
<1>1. PICK place \in {"waiting", "exited", "idlecheck"} :
          /\ pc' = [pc EXCEPT ![w] = place]
          /\ place = "idlecheck" <=> pc[w] = "running"
          /\ place = "exited" => stopping /\ queue = <<>>
          /\ pc[w] \in {"ready", "running"}
  BY DEF WaitForWork, Exit, WaitIdleInTask, Goto
<1>2. UNCHANGED <<pool, job, calls, call, ok, threw, accepted>>
  BY DEF WaitForWork, Exit, WaitIdleInTask
<1>3. \A c \in Callers : pc'[c] = pc[c]
  BY <1>1, Kinds DEF IInv, Types
<1>4. /\ pc'[w] = place
      /\ \A v \in Workers : v # w => pc'[v] = pc[v]
      /\ pc' \in [Threads -> WorkerPlace \cup CallerPlace]
  BY <1>1, Kinds DEF IInv, Types, WorkerPlace
<1>5. Types'
  BY <1>2, <1>3, <1>4 DEF IInv, Types, WorkerPlace, pool, call
<1>6. SameTasks
  BY <1>1, <1>4 DEF SameTasks, InTask
<1>7. CallOK'
  BY <1>2, <1>3 DEF IInv, CallOK, call
<1>8. Draining'
  BY <1>1, <1>2, <1>3, <1>4 DEF IInv, Draining, pool
<1> QED
  BY <1>2, <1>3, <1>5, <1>6, <1>7, <1>8, QuietStep DEF pool, call, IInv, Types

\* The task at the front of the queue goes to one worker.
LEMMA TakeKeeps ==
    ASSUME IInv, NEW w \in Workers, Take(w)
    PROVE  IInv'
<1> DEFINE task == Head(queue)
<1>1. /\ pc[w] = "ready" /\ queue # <<>> /\ queue \in Seq(Task)
      /\ queue' = Tail(queue)
      /\ job' = [job EXCEPT ![w] = task]
      /\ active' = active + 1
      /\ UNCHANGED <<stopping, calls, call, ok, threw, accepted>>
  BY DEF Take, IInv, Types
<1>2. /\ pc' \in [Threads -> WorkerPlace \cup CallerPlace]
      /\ pc'[w] = "running"
      /\ \A v \in Workers : v # w => pc'[v] = pc[v]
      /\ \A c \in Callers : pc'[c] = pc[c]
  BY Kinds DEF Take, Goto, IInv, Types, WorkerPlace
<1>3. Queued = Contents(queue) /\ Queued' = Contents(queue') /\ Distinct(queue)
  BY DEF Queued, Contents, IInv, TasksConserved, Distinct
<1>4. /\ task \in Task /\ queue' \in Seq(Task)
      /\ Queued = Queued' \cup {task}
      /\ Distinct(queue') /\ task \notin Queued'
  BY <1>1, <1>3, QueueTaken
<1> HIDE DEF task
<1>5. /\ job' \in [Workers -> Task \cup {NoTask}]
      /\ job'[w] = task
      /\ \A v \in Workers : v # w => job'[v] = job[v]
  BY <1>1, <1>4 DEF IInv, Types
<1>6. Types'
  <2>1. active' \in Nat /\ UNCHANGED <<stopping, calls, count, chunk, ret, ok, threw, accepted>>
    BY <1>1 DEF IInv, Types, call
  <2>2. \A v \in Workers : pc'[v] \in WorkerPlace
    BY <1>2 DEF IInv, Types, WorkerPlace
  <2>3. \A c \in Callers : pc'[c] \in CallerPlace
    BY <1>2 DEF IInv, Types
  <2> QED
    BY <1>2, <1>4, <1>5, <2>1, <2>2, <2>3 DEF IInv, Types
<1>7. ~Inside(w) /\ InTask(w)' /\ Inside(w)'
  BY <1>1, <1>2 DEF Inside, InTask
<1>8. \A v \in Workers : v # w => (InTask(v)' <=> InTask(v)) /\ (Inside(v)' <=> Inside(v))
  BY <1>2 DEF Inside, InTask
<1>9. ActiveCounts'
  <2> DEFINE in == {v \in Workers : Inside(v)}
  <2>1. in' = in \cup {w} /\ w \notin in
    BY <1>7, <1>8
  <2>2. IsFiniteSet(in)
    BY PoolAssumption, FS_Subset
  <2>3. Cardinality(in') = Cardinality(in) + 1
    BY <2>1, <2>2, FS_AddElement
  <2> QED
    BY <1>1, <2>3 DEF IInv, ActiveCounts, Inside
<1>10. Taken' = Taken \cup {task} /\ Done' = Done
  <2>1. \A v \in Workers : InTask(v) => v # w
    BY <1>7 DEF Inside
  <2> QED
    BY <1>1, <1>5, <1>7, <1>8, <2>1 DEF Taken, Done
<1>11. TasksConserved'
  <2>1. /\ accepted' = Queued' \cup Taken' \cup Done'
        /\ Queued' \cap (Taken' \cup Done') = {}
        /\ Taken' \cap Done' = {}
        /\ (ok \cap threw)' = {}
    BY <1>1, <1>4, <1>10 DEF IInv, TasksConserved
  <2>2. \A i, j \in DOMAIN queue' : queue'[i] = queue'[j] => i = j
    BY <1>4 DEF Distinct
  <2>3. task \notin Taken
    BY <1>4 DEF IInv, TasksConserved
  <2>4. ASSUME NEW v \in Workers, NEW u \in Workers, InTask(v)', InTask(u)',
               job'[v] = job'[u], v # u
        PROVE  FALSE
    <3>1. CASE v = w
      <4>1. InTask(u) /\ job[u] = task
        BY <1>5, <1>8, <2>4, <3>1
      <4> QED
        BY <2>3, <4>1 DEF Taken
    <3>2. CASE u = w
      <4>1. InTask(v) /\ job[v] = task
        BY <1>5, <1>8, <2>4, <3>2
      <4> QED
        BY <2>3, <4>1 DEF Taken
    <3>3. CASE v # w /\ u # w
      BY <1>5, <1>8, <2>4, <3>3 DEF IInv, TasksConserved
    <3> QED
      BY <3>1, <3>2, <3>3
  <2>5. (\A v, u \in Workers : InTask(v) /\ InTask(u) /\ job[v] = job[u] => v = u)'
    BY <2>4
  <2> QED
    BY <2>1, <2>2, <2>5 DEF TasksConserved
<1>12. JobsHeld'
  BY <1>4, <1>5, <1>8 DEF IInv, JobsHeld
<1>13. CallOK' /\ Fresh'
  BY <1>1, <1>2 DEF IInv, CallOK, Fresh, call
<1>14. Draining'
  BY <1>1, <1>2 DEF IInv, Draining
<1> QED
  BY <1>6, <1>9, <1>11, <1>12, <1>13, <1>14 DEF IInv

\* Its future holds the outcome, and it is no longer under way.
LEMMA RunKeeps ==
    ASSUME IInv, NEW w \in Workers, Run(w)
    PROVE  IInv'
<1>1. /\ pc[w] = "running"
      /\ UNCHANGED <<queue, active, stopping, job, calls, count, chunk, ret, accepted>>
  BY DEF Run, pool, call
<1>2. /\ pc' \in [Threads -> WorkerPlace \cup CallerPlace]
      /\ pc'[w] = "finished"
      /\ \A v \in Workers : v # w => pc'[v] = pc[v]
      /\ \A c \in Callers : pc'[c] = pc[c]
  BY Kinds DEF Run, Goto, IInv, Types, WorkerPlace
<1>3. InTask(w) /\ ~InTask(w)' /\ \A v \in Workers : v # w => (InTask(v)' <=> InTask(v))
  BY <1>1, <1>2 DEF InTask
<1>4. job[w] \in Task /\ job[w] \in Taken
  BY <1>3 DEF IInv, JobsHeld, Inside, Taken
<1>5. Types'
  <2>1. ok' \in SUBSET Task /\ threw' \in SUBSET Task
    BY <1>4 DEF Run, IInv, Types
  <2>2. \A v \in Workers : pc'[v] \in WorkerPlace
    BY <1>2 DEF IInv, Types, WorkerPlace
  <2>3. \A c \in Callers : pc'[c] \in CallerPlace
    BY <1>2 DEF IInv, Types
  <2> QED
    BY <1>1, <1>2, <2>1, <2>2, <2>3 DEF IInv, Types
<1>6. \A v \in Workers : Inside(v)' <=> Inside(v)
  BY <1>1, <1>2 DEF Inside, InTask
<1>7. ActiveCounts'
  <2>1. {v \in Workers : Inside(v)}' = {v \in Workers : Inside(v)}
    BY <1>6
  <2> QED
    BY <1>1, <2>1 DEF IInv, ActiveCounts, Inside
<1>8. Taken' = Taken \ {job[w]}
  <2>1. \A v \in Workers : InTask(v) /\ v # w => job[v] # job[w]
    BY <1>3 DEF IInv, TasksConserved
  <2> QED
    BY <1>1, <1>3, <2>1 DEF Taken
<1>9. Done' = Done \cup {job[w]} /\ (ok \cap threw)' = {} /\ Queued' = Queued
  BY <1>1, <1>4 DEF Run, Done, Queued, IInv, TasksConserved
<1>10. TasksConserved'
  <2>1. /\ accepted' = Queued' \cup Taken' \cup Done'
        /\ Queued' \cap (Taken' \cup Done') = {}
        /\ Taken' \cap Done' = {}
    BY <1>1, <1>4, <1>8, <1>9 DEF IInv, TasksConserved
  <2>2. \A i, j \in DOMAIN queue' : queue'[i] = queue'[j] => i = j
    BY <1>1 DEF IInv, TasksConserved
  <2>3. (\A v, u \in Workers : InTask(v) /\ InTask(u) /\ job[v] = job[u] => v = u)'
    BY <1>1, <1>3 DEF IInv, TasksConserved
  <2> QED
    BY <1>9, <2>1, <2>2, <2>3 DEF TasksConserved
<1>11. JobsHeld' /\ CallOK' /\ Fresh' /\ Draining'
  BY <1>1, <1>2, <1>6 DEF IInv, JobsHeld, CallOK, Fresh, Draining
<1> QED
  BY <1>5, <1>7, <1>10, <1>11 DEF IInv

\* active_ is counted down under the lock that finds the next task.
LEMMA RetireKeeps ==
    ASSUME IInv, NEW w \in Workers, Retire(w)
    PROVE  IInv'
<1>1. /\ pc[w] = "finished" /\ active' = active - 1
      /\ job' = [job EXCEPT ![w] = NoTask]
      /\ UNCHANGED <<queue, stopping, calls, count, chunk, ret, ok, threw, accepted>>
  BY DEF Retire, call
<1>2. /\ DOMAIN pc' = Threads
      /\ pc'[w] = "ready"
      /\ \A t \in Threads :
             t # w => pc'[t] = pc[t] \/ (pc[t] = "idleblocked" /\ pc'[t] = "idlecheck")
  BY Kinds DEF Retire
<1>3. /\ \A v \in Workers : pc'[v] \in WorkerPlace
      /\ \A c \in Callers : pc'[c] \in CallerPlace
  BY <1>2, Kinds DEF IInv, Types, WorkerPlace, CallerPlace
<1>4. pc' \in [Threads -> WorkerPlace \cup CallerPlace]
  BY <1>3 DEF Retire, Threads
<1>5. Inside(w) /\ ~Inside(w)' /\ ~InTask(w) /\ ~InTask(w)'
  BY <1>1, <1>2 DEF Inside, InTask
<1>6. \A v \in Workers : v # w => (InTask(v)' <=> InTask(v)) /\ (Inside(v)' <=> Inside(v))
  BY <1>2, Kinds DEF Inside, InTask
<1>7. active' \in Nat /\ ActiveCounts'
  <2> DEFINE in == {v \in Workers : Inside(v)}
  <2>1. in' = in \ {w} /\ w \in in
    BY <1>5, <1>6
  <2>2. IsFiniteSet(in) /\ IsFiniteSet(in')
    BY PoolAssumption, FS_Subset
  <2>3. Cardinality(in') = Cardinality(in) - 1
    BY <2>1, <2>2, FS_RemoveElement
  <2>4. active = Cardinality(in) /\ Cardinality(in') \in Nat
    BY <2>2, FS_CardinalityType DEF IInv, ActiveCounts, Inside
  <2>5. active' = Cardinality(in')
    BY <1>1, <2>3, <2>4
  <2> QED
    BY <2>4, <2>5 DEF ActiveCounts, Inside
<1>8. /\ job' \in [Workers -> Task \cup {NoTask}]
      /\ \A v \in Workers : v # w => job'[v] = job[v]
  BY <1>1 DEF IInv, Types
<1>9. Types'
  BY <1>1, <1>3, <1>4, <1>7, <1>8 DEF IInv, Types
<1>10. Taken' = Taken /\ Queued' = Queued /\ Done' = Done
  BY <1>1, <1>5, <1>6, <1>8 DEF Taken, Queued, Done
<1>11. TasksConserved'
  <2>1. (\A v, u \in Workers : InTask(v) /\ InTask(u) /\ job[v] = job[u] => v = u)'
    BY <1>5, <1>6, <1>8 DEF IInv, TasksConserved
  <2> QED
    BY <1>1, <1>10, <2>1 DEF IInv, TasksConserved
<1>12. JobsHeld'
  BY <1>5, <1>6, <1>8 DEF IInv, JobsHeld
<1>13. CallOK' /\ Fresh'
  <2>1. \A c \in Callers : pc'[c] \in {"submitting", "notifying", "getting"} => pc'[c] = pc[c]
    BY <1>2, Kinds
  <2> QED
    BY <1>1, <2>1 DEF IInv, CallOK, Fresh
<1>14. Draining'
  <2>1. \A c \in Callers :
            pc'[c] = pc[c] \/ (pc[c] = "idleblocked" /\ pc'[c] = "idlecheck")
    BY <1>2, Kinds
  <2>2. \A v \in Workers : pc'[v] = "exited" <=> pc[v] = "exited"
    BY <1>1, <1>2, Kinds
  <2> QED
    BY <1>1, <2>1, <2>2 DEF IInv, Draining
<1> QED
  BY <1>7, <1>9, <1>11, <1>12, <1>13, <1>14 DEF IInv

\* The call under way numbers a task of a worker.
LEMMA SubmitInTaskKeeps ==
    ASSUME IInv, NEW w \in Workers, SubmitInTask(w)
    PROVE  IInv'
<1> DEFINE task == PlainTask(w)
<1>1. /\ pc[w] = "running" /\ Enqueue(task) /\ ~stopping
      /\ calls' = [calls EXCEPT ![w] = @ + 1]
      /\ accepted' = accepted \cup {task}
      /\ UNCHANGED <<active, stopping, job, count, chunk, ret, ok, threw>>
  BY DEF SubmitInTask, Enqueue, call
<1>2. /\ pc' \in [Threads -> WorkerPlace \cup CallerPlace]
      /\ pc'[w] = "notifying"
      /\ \A v \in Workers : v # w => pc'[v] = pc[v]
      /\ \A c \in Callers : pc'[c] = pc[c]
  BY Kinds DEF SubmitInTask, Goto, IInv, Types, WorkerPlace
<1>3. /\ task \in Task /\ task.by = w /\ task.call = calls[w] + 1
      /\ calls[w] \in Nat
  BY TasksTyped, Kinds DEF PlainTask, IInv, Types
<1> HIDE DEF task
<1>4. task \notin accepted
  BY <1>3 DEF IInv, Fresh
<1>5. SameTasks
  BY <1>1, <1>2 DEF SameTasks, InTask
<1>6. /\ queue' \in Seq(Task) /\ accepted' \in SUBSET Task
      /\ ActiveCounts' /\ TasksConserved' /\ JobsHeld'
  BY <1>1, <1>3, <1>4, <1>5, EnqueueStep
<1>7. /\ calls' \in [Threads -> Nat]
      /\ calls'[w] = calls[w] + 1
      /\ \A t \in Threads : t # w => calls'[t] = calls[t]
  BY <1>1, <1>3, Kinds DEF IInv, Types
<1>8. Types'
  <2>1. \A v \in Workers : pc'[v] \in WorkerPlace
    BY <1>2 DEF IInv, Types, WorkerPlace
  <2>2. \A c \in Callers : pc'[c] \in CallerPlace
    BY <1>2 DEF IInv, Types
  <2> QED
    BY <1>1, <1>2, <1>6, <1>7, <2>1, <2>2 DEF IInv, Types
<1>9. Fresh'
  <2>1. ASSUME NEW t \in accepted, t.by \in Callers
        PROVE  calls'[t.by] = calls[t.by]
    BY <1>7, <2>1, Kinds
  <2>2. \A t \in accepted : t.by \in Threads /\ t.call \in Nat /\ t.call <= calls[t.by]
    BY DEF IInv, Types, Fresh, Task
  <2>3. \A t \in accepted : t.call <= calls'[t.by]
    BY <1>3, <1>7, <2>2
  <2>4. \A t \in accepted :
            t.by \in Callers /\ pc'[t.by] \in {"submitting", "notifying"}
                /\ count'[t.by] > 1 /\ t.call = calls'[t.by]
                => t.chunk < chunk'[t.by]
    BY <1>1, <1>2, <2>1 DEF IInv, Fresh
  <2>5. task.call <= calls'[task.by] /\ task.by \notin Callers
    BY <1>3, <1>7, Kinds
  <2> QED
    BY <1>1, <2>3, <2>4, <2>5 DEF Fresh
<1>10. CallOK' /\ Draining'
  BY <1>1, <1>2 DEF IInv, CallOK, Draining
<1> QED
  BY <1>6, <1>8, <1>9, <1>10 DEF IInv

-----------------------------------------------------------------------------
(***************************************************************************)
(* Notifications and waits, of workers and callers                         *)
(***************************************************************************)
LEMMA NotifyKeeps ==
    ASSUME IInv, NEW t \in Threads, Notify(t)
    PROVE  IInv'
<1> DEFINE next == AfterNotify(t)
<1>1. /\ pc[t] = "notifying"
      /\ UNCHANGED <<queue, active, stopping, job, calls, count, ok, threw, accepted>>
      /\ chunk' = [c \in Callers |-> IF c = t /\ next = "getting" THEN 0 ELSE chunk[c]]
      /\ ret' = [c \in Callers |-> IF c = t /\ next = "idle" THEN "returned" ELSE ret[c]]
  BY DEF Notify, pool
<1>2. /\ t \in Workers => next = "running"
      /\ t \in Callers => next \in {"idle", "submitting", "getting"}
      /\ t \in Callers /\ next # "idle" => count[t] # 0
  BY Kinds DEF AfterNotify
<1>3. next \in WorkerPlace \cup CallerPlace
  BY <1>2 DEF Threads, WorkerPlace, CallerPlace
<1> HIDE DEF next
<1>4. /\ pc' \in [Threads -> WorkerPlace \cup CallerPlace]
      /\ pc'[t] = next
      /\ \A u \in Threads :
             u # t => pc'[u] = pc[u] \/ (u \in Workers /\ pc[u] = "waiting" /\ pc'[u] = "ready")
  <2>1. CASE pc' = [pc EXCEPT ![t] = next]
    BY <1>3, <2>1 DEF IInv, Types
  <2>2. ASSUME NEW w \in Workers, pc[w] = "waiting",
               pc' = [pc EXCEPT ![t] = next, ![w] = "ready"]
        PROVE  <1>4
    <3>1. w # t /\ w \in Threads /\ "ready" \in WorkerPlace
      BY <1>1, <2>2, Kinds DEF WorkerPlace
    <3> QED
      BY <1>3, <2>2, <3>1 DEF IInv, Types
  <2> QED
    BY <2>1, <2>2 DEF Notify, Goto, next
<1>5. Types'
  <2>1. \A v \in Workers : pc'[v] \in WorkerPlace
    BY <1>2, <1>4, Kinds DEF IInv, Types, WorkerPlace
  <2>2. \A c \in Callers : pc'[c] \in CallerPlace
    BY <1>2, <1>4, Kinds DEF IInv, Types, CallerPlace
  <2>3. chunk' \in [Callers -> Nat] /\ ret' \in [Callers -> {"none", "returned", "threw"}]
    BY <1>1 DEF IInv, Types
  <2> QED
    BY <1>1, <1>4, <2>1, <2>2, <2>3 DEF IInv, Types
<1>6. SameTasks
  BY <1>1, <1>2, <1>4, Kinds DEF SameTasks, InTask
<1>7. \A c \in Callers : c # t => pc'[c] = pc[c]
  BY <1>4, Kinds
<1>8. CallOK'
  BY <1>1, <1>2, <1>4, <1>7 DEF IInv, CallOK, Types
<1>9. Draining'
  <2>1. \A v \in Workers : pc'[v] = "exited" <=> pc[v] = "exited"
    BY <1>1, <1>2, <1>4, Kinds
  <2>2. t \in Callers => ~stopping /\ pc'[t] # "gone"
    BY <1>1, <1>2, <1>4 DEF IInv, Draining
  <2> QED
    BY <1>1, <1>7, <2>1, <2>2 DEF IInv, Draining
<1>10. \A u \in Threads : calls[u] <= calls'[u]
  BY <1>1 DEF IInv, Types
<1>11. ASSUME NEW c \in Callers, pc'[c] \in {"submitting", "notifying"}
       PROVE  pc[c] \in {"submitting", "notifying"} /\ count[c] = count'[c] /\ chunk[c] <= chunk'[c]
  BY <1>1, <1>4, <1>7, <1>11 DEF IInv, Types
<1> QED
  BY <1>1, <1>5, <1>6, <1>8, <1>9, <1>10, <1>11, QuietStep

\* A thread looks whether the pool is idle, or wakes for no reason.
LEMMA WaitKeeps ==
    ASSUME IInv, NEW t \in Threads, CheckIdle(t) \/ SpuriousWakeup(t)
    PROVE  IInv'
<1>1. /\ UNCHANGED <<queue, active, stopping, job, calls, count, chunk, ok, threw, accepted>>
      /\ ret' \in [Callers -> {"none", "returned", "threw"}]
  BY DEF CheckIdle, SpuriousWakeup, pool, call, IInv, Types
<1>2. PICK place \in {"running", "idle", "idleblocked", "ready", "idlecheck"} :
          /\ pc' = [pc EXCEPT ![t] = place]
          /\ pc[t] = "idlecheck" => place = "idleblocked" \/ place = (IF t \in Workers THEN "running" ELSE "idle")
          /\ pc[t] # "idlecheck" =>
                 \/ pc[t] = "waiting" /\ place = "ready"
                 \/ pc[t] = "idleblocked" /\ place = "idlecheck"
          /\ pc[t] \in {"idlecheck", "waiting", "idleblocked"}
  BY DEF CheckIdle, SpuriousWakeup, Goto
<1>3. /\ pc' \in [Threads -> WorkerPlace \cup CallerPlace]
      /\ pc'[t] = place
      /\ \A u \in Threads : u # t => pc'[u] = pc[u]
  BY <1>2 DEF IInv, Types, WorkerPlace, CallerPlace
<1>4. Types'
  <2>1. \A v \in Workers : pc'[v] \in WorkerPlace
    BY <1>2, <1>3, Kinds DEF IInv, Types, WorkerPlace
  <2>2. t \in Callers => pc[t] # "waiting"
    BY DEF IInv, Types, CallerPlace
  <2>3. \A c \in Callers : pc'[c] \in CallerPlace
    BY <1>2, <1>3, <2>2, Kinds DEF IInv, Types, CallerPlace
  <2> QED
    BY <1>1, <1>3, <2>1, <2>3 DEF IInv, Types
<1>5. SameTasks
  BY <1>2, <1>3, Kinds DEF SameTasks, InTask
<1>6. \A c \in Callers :
          pc'[c] \in {"submitting", "notifying", "getting", "gone"} => pc'[c] = pc[c]
  BY <1>2, <1>3, Kinds
<1>7. CallOK'
  BY <1>1, <1>6 DEF IInv, CallOK
<1>8. Draining'
  <2>1. \A v \in Workers : pc'[v] = "exited" <=> pc[v] = "exited"
    BY <1>2, <1>3, Kinds
  <2>2. stopping => t \in Workers
    BY <1>2 DEF IInv, Draining, Threads
  <2>3. stopping => \A c \in Callers : pc'[c] = pc[c]
    BY <1>3, <2>2, Kinds
  <2> QED
    BY <1>1, <1>6, <2>1, <2>3 DEF IInv, Draining
<1>9. \A u \in Threads : calls[u] <= calls'[u]
  BY <1>1 DEF IInv, Types
<1>10. ASSUME NEW c \in Callers, pc'[c] \in {"submitting", "notifying"}
       PROVE  pc[c] \in {"submitting", "notifying"} /\ count[c] = count'[c] /\ chunk[c] <= chunk'[c]
  BY <1>1, <1>6, <1>10 DEF IInv, Types
<1> QED
  BY <1>1, <1>4, <1>5, <1>7, <1>8, <1>9, <1>10, QuietStep

-----------------------------------------------------------------------------
(***************************************************************************)
(* The callers                                                             *)
(***************************************************************************)
\* Every call takes a new number.
LEMMA StartTyped ==
    ASSUME IInv, NEW c \in Callers, NEW n \in 0 .. MaxCount,
           NEW place \in {"notifying", "idle", "submitting", "idlecheck"},
           StartCall(c, n, place)
    PROVE  /\ pc[c] = "idle" /\ ~stopping
           /\ pc' \in [Threads -> WorkerPlace \cup CallerPlace]
           /\ \A w \in Workers : pc'[w] = pc[w] /\ pc'[w] \in WorkerPlace
           /\ \A d \in Callers : pc'[d] \in CallerPlace
           /\ pc'[c] = place
           /\ \A d \in Callers :
                  d # c => /\ pc'[d] = pc[d] /\ count'[d] = count[d]
                           /\ chunk'[d] = chunk[d] /\ calls'[d] = calls[d]
           /\ calls' \in [Threads -> Nat]
           /\ count' \in [Callers -> 0 .. MaxCount]
           /\ chunk' \in [Callers -> Nat]
           /\ calls'[c] = calls[c] + 1 /\ count'[c] = n
           /\ \A t \in Threads : calls[t] \in Nat /\ calls[t] <= calls'[t]
           /\ SameTasks
<1>1. /\ pc[c] = "idle" /\ ~stopping
      /\ calls' = [calls EXCEPT ![c] = @ + 1]
      /\ count' = [count EXCEPT ![c] = n]
      /\ chunk' = [chunk EXCEPT ![c] = 0]
      /\ pc' = [pc EXCEPT ![c] = place]
  BY DEF StartCall, Goto
<1>2. /\ pc \in [Threads -> WorkerPlace \cup CallerPlace]
      /\ calls \in [Threads -> Nat]
      /\ count \in [Callers -> 0 .. MaxCount]
      /\ chunk \in [Callers -> Nat]
      /\ place \in CallerPlace
  BY DEF IInv, Types, CallerPlace
<1>3. /\ pc' \in [Threads -> WorkerPlace \cup CallerPlace]
      /\ pc'[c] = place
      /\ \A t \in Threads : t # c => pc'[t] = pc[t]
  BY <1>1, <1>2, Kinds
<1>4. /\ calls' \in [Threads -> Nat]
      /\ calls'[c] = calls[c] + 1
      /\ \A t \in Threads : t # c => calls'[t] = calls[t]
      /\ \A t \in Threads : calls[t] \in Nat
  BY <1>1, <1>2, Kinds
<1>5. \A w \in Workers : pc'[w] = pc[w] /\ pc'[w] \in WorkerPlace
  BY <1>3, Kinds DEF IInv, Types
<1>6. \A d \in Callers : pc'[d] \in CallerPlace
  BY <1>2, <1>3, Kinds DEF IInv, Types
<1>7. count' \in [Callers -> 0 .. MaxCount] /\ chunk' \in [Callers -> Nat]
  BY <1>1, <1>2
<1>8. \A d \in Callers :
          d # c => /\ pc'[d] = pc[d]
                   /\ count'[d] = count[d]
                   /\ chunk'[d] = chunk[d]
                   /\ calls'[d] = calls[d]
  BY <1>1, <1>2, <1>3, <1>4, Kinds
<1>9. count'[c] = n
  BY <1>1, <1>2
<1>10. \A t \in Threads : calls[t] <= calls'[t]
  BY <1>4
<1>11. SameTasks
  BY <1>5 DEF SameTasks, InTask
<1> QED
  BY <1>1, <1>3, <1>4, <1>5, <1>6, <1>7, <1>8, <1>9, <1>10, <1>11

\* A call that queues nothing as it begins.
LEMMA CallKeeps ==
    ASSUME IInv, NEW c \in Callers, NEW n \in 0 .. MaxCount,
           NEW place \in {"idle", "submitting", "idlecheck"},
           StartCall(c, n, place), n # 1, place = "submitting" => n > 1,
           UNCHANGED <<pool, job, ok, threw, accepted>>,
           ret' \in [Callers -> {"none", "returned", "threw"}]
    PROVE  IInv'
<1>1. /\ pc[c] = "idle" /\ ~stopping
      /\ pc' \in [Threads -> WorkerPlace \cup CallerPlace]
      /\ \A w \in Workers : pc'[w] = pc[w] /\ pc'[w] \in WorkerPlace
      /\ \A d \in Callers : pc'[d] \in CallerPlace
      /\ pc'[c] = place
      /\ \A d \in Callers :
             d # c => /\ pc'[d] = pc[d] /\ count'[d] = count[d]
                      /\ chunk'[d] = chunk[d] /\ calls'[d] = calls[d]
      /\ calls' \in [Threads -> Nat]
      /\ count' \in [Callers -> 0 .. MaxCount]
      /\ chunk' \in [Callers -> Nat]
      /\ calls'[c] = calls[c] + 1 /\ count'[c] = n
      /\ \A t \in Threads : calls[t] \in Nat /\ calls[t] <= calls'[t]
      /\ SameTasks
  BY StartTyped
<1>2. UNCHANGED <<queue, active, stopping, job, ok, threw, accepted>>
  BY DEF pool
<1>3. Types'
  BY <1>1, <1>2 DEF IInv, Types
<1>4. CallOK'
  BY <1>1 DEF IInv, CallOK
<1>5. Draining'
  BY <1>1, <1>2 DEF IInv, Draining
<1>6. calls[c] \in Nat /\ calls[c] < calls'[c]
  BY <1>1, Kinds
<1>7. ASSUME NEW d \in Callers, pc'[d] \in {"submitting", "notifying"}, d # c
      PROVE  pc[d] \in {"submitting", "notifying"} /\ count[d] = count'[d] /\ chunk[d] <= chunk'[d]
  BY <1>1, <1>7 DEF IInv, Types
<1> QED
  BY <1>1, <1>2, <1>3, <1>4, <1>5, <1>6, <1>7, QuietStep

LEMMA SubmitKeeps ==
    ASSUME IInv, NEW c \in Callers, Submit(c)
    PROVE  IInv'
<1> DEFINE task == PlainTask(c)
<1>1. StartCall(c, 0, "notifying") /\ 0 \in 0 .. MaxCount
  BY PoolAssumption DEF Submit
<1>2. /\ pc[c] = "idle" /\ ~stopping
      /\ pc' \in [Threads -> WorkerPlace \cup CallerPlace]
      /\ \A w \in Workers : pc'[w] = pc[w] /\ pc'[w] \in WorkerPlace
      /\ \A d \in Callers : pc'[d] \in CallerPlace
      /\ pc'[c] = "notifying"
      /\ \A d \in Callers :
             d # c => /\ pc'[d] = pc[d] /\ count'[d] = count[d]
                      /\ chunk'[d] = chunk[d] /\ calls'[d] = calls[d]
      /\ calls' \in [Threads -> Nat]
      /\ count' \in [Callers -> 0 .. MaxCount]
      /\ chunk' \in [Callers -> Nat]
      /\ calls'[c] = calls[c] + 1 /\ count'[c] = 0
      /\ \A t \in Threads : calls[t] \in Nat /\ calls[t] <= calls'[t]
      /\ SameTasks
  BY <1>1, StartTyped
<1>3. /\ Enqueue(task)
      /\ accepted' = accepted \cup {task}
      /\ UNCHANGED <<active, stopping, job, ok, threw>>
      /\ ret' \in [Callers -> {"none", "returned", "threw"}]
  BY DEF Submit, Enqueue, IInv, Types
<1>4. task \in Task /\ task.by = c /\ task.call = calls[c] + 1 /\ calls[c] \in Nat
  BY <1>2, TasksTyped, Kinds DEF PlainTask, IInv
<1> HIDE DEF task
<1>5. \A t \in accepted : t.by \in Threads /\ t.call \in Nat /\ t.call <= calls[t.by]
  BY DEF IInv, Types, Fresh, Task
<1>6. task \notin accepted
  BY <1>4, <1>5
<1>7. /\ queue' \in Seq(Task) /\ accepted' \in SUBSET Task
      /\ ActiveCounts' /\ TasksConserved' /\ JobsHeld'
  BY <1>2, <1>3, <1>4, <1>6, EnqueueStep
<1>8. Types'
  BY <1>2, <1>3, <1>7 DEF IInv, Types
<1>9. Fresh'
  <2>1. \A t \in accepted : t.call <= calls'[t.by]
    <3> SUFFICES ASSUME NEW t \in accepted PROVE t.call <= calls'[t.by]
      OBVIOUS
    <3>1. /\ t.call \in Nat /\ calls[t.by] \in Nat /\ calls'[t.by] \in Nat
          /\ t.call <= calls[t.by] /\ calls[t.by] <= calls'[t.by]
      BY <1>2, <1>5
    <3> QED
      BY <3>1
  <2>2. \A t \in accepted :
            t.by \in Callers /\ pc'[t.by] \in {"submitting", "notifying"}
                /\ count'[t.by] > 1 /\ t.call = calls'[t.by]
                => t.chunk < chunk'[t.by]
    BY <1>2 DEF IInv, Fresh
  <2>3. task.call <= calls'[task.by] /\ ~(count'[task.by] > 1)
    BY <1>2, <1>4
  <2> QED
    BY <1>3, <2>1, <2>2, <2>3 DEF Fresh
<1>10. CallOK'
  BY <1>2 DEF IInv, CallOK
<1>11. Draining'
  <2>1. \A d \in Callers : pc'[d] = "gone" => pc[d] = "gone"
    BY <1>2
  <2>2. stopping' = FALSE /\ \A w \in Workers : pc'[w] # "exited"
    BY <1>2, <1>3 DEF IInv, Types, Draining
  <2> QED
    BY <1>2, <2>1, <2>2 DEF IInv, Draining
<1> QED
  BY <1>7, <1>8, <1>9, <1>10, <1>11 DEF IInv

\* The chunks of a call are numbered.
LEMMA SubmitChunkKeeps ==
    ASSUME IInv, NEW c \in Callers, SubmitChunk(c)
    PROVE  IInv'
<1> DEFINE task == TaskOf(c, chunk[c])
<1>1. /\ pc[c] = "submitting" /\ count[c] > 1
      /\ Enqueue(task) /\ ~stopping
      /\ accepted' = accepted \cup {task}
      /\ chunk' = [chunk EXCEPT ![c] = @ + 1]
      /\ UNCHANGED <<active, stopping, job, calls, count, ret, ok, threw>>
  BY DEF SubmitChunk, Enqueue, IInv, CallOK
<1>2. /\ pc' \in [Threads -> WorkerPlace \cup CallerPlace]
      /\ pc'[c] = "notifying"
      /\ \A w \in Workers : pc'[w] = pc[w]
      /\ \A d \in Callers : d # c => pc'[d] = pc[d]
  BY Kinds DEF SubmitChunk, Goto, IInv, Types, CallerPlace
<1>3. /\ chunk' \in [Callers -> Nat]
      /\ chunk[c] \in Nat
      /\ chunk'[c] = chunk[c] + 1
      /\ \A d \in Callers : d # c => chunk'[d] = chunk[d]
  BY <1>1 DEF IInv, Types
<1>4. task \in Task /\ task.by = c /\ task.call = calls[c] /\ task.chunk = chunk[c]
  BY <1>1, TasksTyped DEF TaskOf, IInv
<1>5. calls[c] \in Nat /\ \A t \in accepted : t.chunk \in Nat
  BY Kinds DEF IInv, Types, Task
<1> HIDE DEF task
<1>6. task \notin accepted
  BY <1>1, <1>3, <1>4 DEF IInv, Fresh
<1>7. SameTasks
  BY <1>2 DEF SameTasks, InTask
<1>8. /\ queue' \in Seq(Task) /\ accepted' \in SUBSET Task
      /\ ActiveCounts' /\ TasksConserved' /\ JobsHeld'
  BY <1>1, <1>4, <1>6, <1>7, EnqueueStep
<1>9. Types'
  <2>1. \A v \in Workers : pc'[v] \in WorkerPlace
    BY <1>2 DEF IInv, Types
  <2>2. \A d \in Callers : pc'[d] \in CallerPlace
    BY <1>2 DEF IInv, Types, CallerPlace
  <2> QED
    BY <1>1, <1>2, <1>3, <1>8, <2>1, <2>2 DEF IInv, Types
<1>10. Fresh'
  <2>1. ASSUME NEW t \in accepted
        PROVE  /\ t.call <= calls[t.by]
               /\ t.by \in Callers /\ pc'[t.by] \in {"submitting", "notifying"}
                      /\ count[t.by] > 1 /\ t.call = calls[t.by]
                      => t.chunk < chunk'[t.by]
    <3>1. CASE t.by = c
      BY <1>1, <1>3, <1>5, <3>1 DEF IInv, Fresh
    <3>2. CASE t.by # c
      BY <1>2, <1>3, <3>2 DEF IInv, Fresh
    <3> QED
      BY <3>1, <3>2
  <2>2. task.call <= calls[task.by] /\ task.chunk < chunk'[task.by]
    BY <1>3, <1>4, <1>5
  <2> QED
    BY <1>1, <2>1, <2>2 DEF Fresh
<1>11. CallOK'
  BY <1>1, <1>2 DEF IInv, CallOK
<1>12. Draining'
  <2>1. \A d \in Callers : pc'[d] = "gone" => pc[d] = "gone"
    BY <1>2
  <2>2. stopping' = FALSE /\ \A w \in Workers : pc'[w] # "exited"
    BY <1>1, <1>2 DEF IInv, Types, Draining
  <2> QED
    BY <1>2, <2>1, <2>2 DEF IInv, Draining
<1> QED
  BY <1>8, <1>9, <1>10, <1>11, <1>12 DEF IInv

\* The calls that queue nothing as they begin.
LEMMA BeginKeeps ==
    ASSUME IInv, NEW c \in Callers, NEW n \in 0 .. MaxCount,
           ParallelForInline(c, n) \/ ParallelFor(c, n) \/ WaitIdle(c)
    PROVE  IInv'
<1>1. 0 \in 0 .. MaxCount
  BY PoolAssumption
<1>2. CASE ParallelForInline(c, n)
  <2>1. /\ StartCall(c, 0, "idle")
        /\ UNCHANGED <<pool, job, ok, threw, accepted>>
        /\ ret' \in [Callers -> {"none", "returned", "threw"}]
    BY <1>2 DEF ParallelForInline, IInv, Types
  <2> QED
    BY <1>1, <2>1, CallKeeps
<1>3. CASE ParallelFor(c, n)
  <2>1. /\ StartCall(c, n, "submitting") /\ n > 1
        /\ UNCHANGED <<pool, job, ok, threw, accepted>>
        /\ ret' \in [Callers -> {"none", "returned", "threw"}]
    BY <1>3 DEF ParallelFor, IInv, Types
  <2> QED
    BY <2>1, CallKeeps
<1>4. CASE WaitIdle(c)
  <2>1. /\ StartCall(c, 0, "idlecheck")
        /\ UNCHANGED <<pool, job, ok, threw, accepted>>
        /\ ret' \in [Callers -> {"none", "returned", "threw"}]
    BY <1>4 DEF WaitIdle, IInv, Types
  <2> QED
    BY <1>1, <2>1, CallKeeps
<1> QED
  BY <1>2, <1>3, <1>4

LEMMA GetFutureKeeps ==
    ASSUME IInv, NEW c \in Callers, GetFuture(c)
    PROVE  IInv'
<1>1. /\ pc[c] = "getting"
      /\ UNCHANGED <<queue, active, stopping, job, calls, count, ok, threw, accepted>>
      /\ chunk' = chunk \/ chunk' = [chunk EXCEPT ![c] = @ + 1]
      /\ ret' \in [Callers -> {"none", "returned", "threw"}]
      /\ pc' = pc \/ pc' = [pc EXCEPT ![c] = "idle"]
  BY DEF GetFuture, Goto, pool, IInv, Types
<1>2. /\ pc' \in [Threads -> WorkerPlace \cup CallerPlace]
      /\ pc'[c] \in {"getting", "idle"}
      /\ \A w \in Workers : pc'[w] = pc[w]
      /\ \A d \in Callers : d # c => pc'[d] = pc[d]
  <2>1. CASE pc' = pc
    BY <1>1, <2>1 DEF IInv, Types
  <2>2. CASE pc' = [pc EXCEPT ![c] = "idle"]
    BY <2>2, Kinds DEF IInv, Types, CallerPlace
  <2> QED
    BY <1>1, <2>1, <2>2
<1>3. /\ chunk' \in [Callers -> Nat]
      /\ \A d \in Callers : chunk[d] \in Nat /\ (d # c => chunk'[d] = chunk[d])
  BY <1>1 DEF IInv, Types
<1>4. Types'
  <2>1. \A v \in Workers : pc'[v] \in WorkerPlace
    BY <1>2 DEF IInv, Types
  <2>2. \A d \in Callers : pc'[d] \in CallerPlace
    BY <1>2 DEF IInv, Types, CallerPlace
  <2> QED
    BY <1>1, <1>2, <1>3, <2>1, <2>2 DEF IInv, Types
<1>5. SameTasks
  BY <1>2 DEF SameTasks, InTask
<1>6. CallOK'
  BY <1>1, <1>2 DEF IInv, CallOK
<1>7. Draining'
  <2>1. \A d \in Callers : pc'[d] = "gone" => pc[d] = "gone"
    BY <1>2
  <2>2. stopping = FALSE
    BY <1>1 DEF IInv, Types, Draining
  <2> QED
    BY <1>1, <1>2, <2>1, <2>2 DEF IInv, Draining
<1>8. \A t \in Threads : calls[t] <= calls'[t]
  BY <1>1 DEF IInv, Types
<1>9. ASSUME NEW d \in Callers, pc'[d] \in {"submitting", "notifying"}
      PROVE  pc[d] \in {"submitting", "notifying"} /\ count[d] = count'[d] /\ chunk[d] <= chunk'[d]
  <2>1. d # c
    BY <1>2, <1>9
  <2> QED
    BY <1>1, <1>2, <1>3, <1>9, <2>1
<1> QED
  BY <1>1, <1>4, <1>5, <1>6, <1>7, <1>8, <1>9, QuietStep

\* The destructor.
LEMMA DestructorKeeps ==
    ASSUME IInv, NEW c \in Callers, Stop(c) \/ NotifyAll(c) \/ Join(c)
    PROVE  IInv'
<1>1. UNCHANGED <<queue, active, job, calls, count, chunk, ret, ok, threw, accepted>>
  BY DEF Stop, NotifyAll, Join, pool, call
<1>2. /\ DOMAIN pc' = Threads
      /\ pc[c] \in {"idle", "stopping", "joining"}
      /\ pc'[c] \in {"stopping", "joining", "gone"}
      /\ pc'[c] = "gone" => \A w \in Workers : pc[w] = "exited"
      /\ \A t \in Threads : t # c => pc'[t] = pc[t] \/ (pc[t] = "waiting" /\ pc'[t] = "ready")
  BY Kinds DEF Stop, NotifyAll, Join, Goto, IInv, Types
<1>3. /\ \A w \in Workers : pc'[w] \in WorkerPlace
      /\ \A w \in Workers : pc'[w] = pc[w] \/ (pc[w] = "waiting" /\ pc'[w] = "ready")
  BY <1>2, Kinds DEF IInv, Types, WorkerPlace
<1>4. /\ \A d \in Callers : pc'[d] \in CallerPlace
      /\ \A d \in Callers : d # c => pc'[d] = pc[d]
  <2>1. \A d \in Callers : pc[d] # "waiting" /\ pc[d] \in CallerPlace
    BY DEF IInv, Types, CallerPlace
  <2> QED
    BY <1>2, <2>1, Kinds DEF CallerPlace
<1>5. pc' \in [Threads -> WorkerPlace \cup CallerPlace]
  <2>1. pc' = [t \in Threads |-> pc'[t]]
    BY DEF Stop, NotifyAll, Join, Goto, IInv, Types
  <2>2. \A t \in Threads : pc'[t] \in WorkerPlace \cup CallerPlace
    BY <1>3, <1>4 DEF Threads
  <2> QED
    BY <2>1, <2>2
<1>6. stopping' \in BOOLEAN /\ (stopping => stopping')
  BY DEF Stop, NotifyAll, Join, pool, IInv, Types
<1>7. Types'
  BY <1>1, <1>3, <1>4, <1>5, <1>6 DEF IInv, Types
<1>8. SameTasks
  BY <1>3 DEF SameTasks, InTask
<1>9. CallOK'
  BY <1>1, <1>2, <1>4 DEF IInv, CallOK
<1>10. Draining'
  <2>1. \A d \in Callers : d # c => pc[d] \in {"idle", "stopping", "joining", "gone"} \/ ~stopping'
    BY DEF Stop, NotifyAll, Join, pool, IInv, Draining
  <2>2. \A w \in Workers : pc'[w] = "exited" <=> pc[w] = "exited"
    BY <1>3
  <2> QED
    BY <1>1, <1>2, <1>4, <1>6, <2>1, <2>2 DEF IInv, Draining
<1>11. \A t \in Threads : calls[t] <= calls'[t]
  BY <1>1 DEF IInv, Types
<1>12. ASSUME NEW d \in Callers, pc'[d] \in {"submitting", "notifying"}
       PROVE  pc[d] \in {"submitting", "notifying"} /\ count[d] = count'[d] /\ chunk[d] <= chunk'[d]
  BY <1>1, <1>2, <1>4, <1>12 DEF IInv, Types
<1> QED
  BY <1>1, <1>7, <1>8, <1>9, <1>10, <1>11, <1>12, QuietStep

-----------------------------------------------------------------------------
LEMMA NextKeeps ==
    ASSUME IInv, [Next]_vars
    PROVE  IInv'
<1>1. CASE UNCHANGED vars
  <2>1. UNCHANGED <<queue, active, stopping, pc, job, calls, count, chunk, ret, ok, threw, accepted>>
    BY <1>1 DEF vars, pool, call
  <2>2. Types' /\ CallOK' /\ Draining' /\ SameTasks
    BY <2>1 DEF IInv, Types, CallOK, Draining, SameTasks, InTask
  <2>3. /\ \A t \in Threads : calls[t] <= calls'[t]
        /\ \A c \in Callers : chunk[c] <= chunk'[c]
    BY <2>1 DEF IInv, Types
  <2> QED
    BY <2>1, <2>2, <2>3, QuietStep
<1>2. ASSUME NEW w \in Workers, WorkerStep(w) PROVE IInv'
  BY <1>2, MoveKeeps, TakeKeeps, RunKeeps, RetireKeeps, SubmitInTaskKeeps, NotifyKeeps,
     WaitKeeps, Kinds DEF WorkerStep
<1>3. ASSUME NEW c \in Callers, CallerStep(c) PROVE IInv'
  BY <1>3, SubmitChunkKeeps, NotifyKeeps, GetFutureKeeps, WaitKeeps, DestructorKeeps,
     Kinds DEF CallerStep
<1>4. ASSUME NEW c \in Callers, Begin(c) PROVE IInv'
  <2>1. 0 \in 0 .. MaxCount
    BY PoolAssumption
  <2> QED
    BY <1>4, <2>1, SubmitKeeps, BeginKeeps, DestructorKeeps DEF Begin
<1>5. ASSUME NEW t \in Threads, SpuriousWakeup(t) PROVE IInv'
  BY <1>5, WaitKeeps
<1> QED
  BY <1>1, <1>2, <1>3, <1>4, <1>5 DEF Next

LEMMA InvariantHolds == Spec => []IInv
<1>1. Init => IInv
  BY InitHolds
<1>2. IInv /\ [Next]_vars => IInv'
  BY NextKeeps
<1> QED
  BY <1>1, <1>2, PTL DEF Spec

\* The variables of the pool and of the threads in it have their types.
THEOREM PoolTypeCorrectness == Spec => []TypeOK
<1>1. IInv => TypeOK
  <2> SUFFICES ASSUME IInv PROVE TypeOK
    OBVIOUS
  <2>1. Types /\ DOMAIN pc = Threads
    BY DEF IInv, Types
  <2> QED
    BY <2>1 DEF Types, TypeOK, WorkerPlace, CallerPlace
<1> QED
  BY <1>1, InvariantHolds, PTL

\* worker_loop counts active_ up under the lock under which it takes a task,
\* and down under the one under which it looks for the next.
THEOREM ActiveIsCounted == Spec => []ActiveCounts
<1>1. IInv => ActiveCounts
  BY DEF IInv
<1> QED
  BY <1>1, InvariantHolds, PTL

\* However many threads submit, and however many workers wake, a task is in
\* one place: queued, with one worker, or done.
THEOREM TasksAreConserved == Spec => []TasksConserved
<1>1. IInv => TasksConserved
  BY DEF IInv
<1> QED
  BY <1>1, InvariantHolds, PTL

\* With an empty queue and no worker inside a task, everything is done.
LEMMA IdleIsDone ==
    ASSUME IInv, queue = <<>>, \A w \in Workers : ~InTask(w)
    PROVE  accepted = Done
<1>1. Queued = {} /\ Taken = {}
  BY DEF Queued, Taken
<1> QED
  BY <1>1 DEF IInv, TasksConserved

\* The destructor sets stopping_, and the workers drain the queue before they
\* leave: nothing that was accepted is dropped.
THEOREM DestructorDrains == Spec => []ShutdownDrains
<1>1. IInv => ShutdownDrains
  <2> SUFFICES ASSUME IInv, NEW t \in Threads, pc[t] = "gone"
               PROVE  accepted = Done
    BY DEF ShutdownDrains, InPlace
  <2>1. t \in Callers
    BY DEF Threads, IInv, Types, WorkerPlace
  <2>2. \A w \in Workers : pc[w] = "exited"
    BY <2>1 DEF IInv, Draining
  <2>3. queue = <<>> /\ \A w \in Workers : ~InTask(w)
    BY <2>2, PoolAssumption DEF IInv, Draining, InTask
  <2> QED
    BY <2>3, IdleIsDone
<1> QED
  BY <1>1, InvariantHolds, PTL

\* wait_idle tests the queue and active_ under one lock: when it returns,
\* whatever was submitted before then is done.
THEOREM WaitIdleMeansDone == Spec => IdleMeansDone
<1> DEFINE A == \A c \in Callers : pc[c] = "idlecheck" /\ pc'[c] = "idle" => accepted = Done
<1>1. IInv /\ [Next]_vars => [A]_vars
  <2> SUFFICES ASSUME IInv, Next, NEW c \in Callers, pc[c] = "idlecheck", pc'[c] = "idle"
               PROVE  accepted = Done
    OBVIOUS
  <2>1. CheckIdle(c)
    <3>1. c \in Threads /\ c \notin Workers /\ pc \in [Threads -> WorkerPlace \cup CallerPlace]
      BY Kinds DEF IInv, Types
    <3>2. ASSUME NEW w \in Workers, WorkerStep(w) PROVE FALSE
      BY <3>1, <3>2, Kinds
         DEF WorkerStep, WaitForWork, Exit, Take, Run, Retire, SubmitInTask, WaitIdleInTask,
             Notify, AfterNotify, CheckIdle, Goto
    <3>3. ASSUME NEW d \in Callers, CallerStep(d), ~CheckIdle(c) PROVE FALSE
      BY <3>1, <3>3, Kinds
         DEF CallerStep, SubmitChunk, Notify, GetFuture, CheckIdle, NotifyAll, Join, Goto
    <3>4. ASSUME NEW d \in Callers, Begin(d) PROVE FALSE
      BY <3>1, <3>4, Kinds
         DEF Begin, Submit, ParallelForInline, ParallelFor, WaitIdle, Stop, StartCall, Goto
    <3>5. ASSUME NEW t \in Threads, SpuriousWakeup(t) PROVE FALSE
      BY <3>1, <3>5, Kinds DEF SpuriousWakeup, Goto
    <3> QED
      BY <3>2, <3>3, <3>4, <3>5 DEF Next
  <2>2. queue = <<>> /\ active = 0
    BY <2>1, Kinds DEF CheckIdle, Goto, IInv, Types
  <2>3. \A w \in Workers : ~InTask(w)
    <3>1. IsFiniteSet({w \in Workers : InTask(w) \/ pc[w] = "finished"})
      BY PoolAssumption, FS_Subset
    <3>2. {w \in Workers : InTask(w) \/ pc[w] = "finished"} = {}
      BY <2>2, <3>1, FS_EmptySet DEF IInv, ActiveCounts
    <3> QED
      BY <3>2
  <2> QED
    BY <2>2, <2>3, IdleIsDone
<1> QED
  BY <1>1, InvariantHolds, PTL DEF Spec, IdleMeansDone

-----------------------------------------------------------------------------
(***************************************************************************)
(* No wakeup is lost                                                       *)
(***************************************************************************)
\* The threads that are on their way to the queue, or to notify a worker.
OnTheWay == InPlace("ready") \cup InPlace("notifying")

LEMMA OnTheWayFinite ==
    /\ IsFiniteSet(OnTheWay) /\ Cardinality(OnTheWay) \in Nat
    /\ IsFiniteSet(OnTheWay') /\ Cardinality(OnTheWay') \in Nat
<1>1. IsFiniteSet(Threads)
  BY PoolAssumption, FS_Union DEF Threads
<1>2. OnTheWay \in SUBSET Threads /\ OnTheWay' \in SUBSET Threads
  BY DEF OnTheWay, InPlace
<1> QED
  BY <1>1, <1>2, FS_Subset, FS_CardinalityType

\* A step after which whoever was on the way still is, and nobody fell asleep.
LEMMA WakeupsKept ==
    ASSUME IInv, NoLostWakeup, queue' = queue, stopping' = stopping,
           \A w \in Workers : pc'[w] = "waiting" => pc[w] = "waiting",
           \A t \in Threads : pc[t] \in {"ready", "notifying", "stopping"} => pc'[t] = pc[t]
    PROVE  NoLostWakeup'
<1>1. OnTheWay \subseteq OnTheWay' /\ InPlace("stopping") \subseteq InPlace("stopping")'
  BY DEF OnTheWay, InPlace
<1>2. Cardinality(OnTheWay) <= Cardinality(OnTheWay')
  BY <1>1, OnTheWayFinite, FS_Subset
<1>3. Len(queue) \in Nat
  BY LenProperties DEF IInv, Types
<1>4. ASSUME NEW w \in Workers, pc'[w] = "waiting"
      PROVE  /\ Len(queue') <= Cardinality(OnTheWay')
             /\ stopping' => InPlace("stopping")' # {}
  <2>1. /\ Len(queue) <= Cardinality(OnTheWay)
        /\ stopping => InPlace("stopping") # {}
    BY <1>4 DEF NoLostWakeup, OnTheWay
  <2> QED
    BY <1>1, <1>2, <1>3, <2>1, OnTheWayFinite
<1> QED
  BY <1>4 DEF NoLostWakeup, OnTheWay

\* With an empty queue, in a pool that is not stopping, a worker may sleep.
LEMMA EmptyQueueSleeps ==
    ASSUME queue' = <<>>, stopping' = FALSE
    PROVE  NoLostWakeup'
<1>1. Len(queue') = 0
  BY EmptySeq
<1>2. 0 <= Cardinality(OnTheWay')
  BY OnTheWayFinite
<1> QED
  BY <1>1, <1>2 DEF NoLostWakeup, OnTheWay

\* Each submit brings one thread on its way for its task.
LEMMA EnqueueWakes ==
    ASSUME IInv, NoLostWakeup, NEW t \in Threads, NEW task \in Task, Enqueue(task),
           pc[t] \in {"running", "idle", "submitting"},
           pc' = [pc EXCEPT ![t] = "notifying"]
    PROVE  NoLostWakeup'
<1>1. /\ queue' = Append(queue, task) /\ queue \in Seq(Task)
      /\ stopping' = FALSE
  BY DEF Enqueue, IInv, Types
<1>2. Len(queue') = Len(queue) + 1 /\ Len(queue) \in Nat
  BY <1>1, QueueAppended, LenProperties
<1>3. OnTheWay' = OnTheWay \cup {t} /\ t \notin OnTheWay
  BY DEF OnTheWay, InPlace, IInv, Types
<1>4. Cardinality(OnTheWay') = Cardinality(OnTheWay) + 1
  BY <1>3, OnTheWayFinite, FS_AddElement
<1>5. ASSUME NEW w \in Workers, pc'[w] = "waiting"
      PROVE  Len(queue') <= Cardinality(OnTheWay')
  <2>1. pc[w] = "waiting"
    BY <1>5, Kinds DEF IInv, Types
  <2>2. Len(queue) <= Cardinality(OnTheWay)
    BY <2>1 DEF NoLostWakeup, OnTheWay
  <2> QED
    BY <1>2, <1>4, <2>2, OnTheWayFinite
<1> QED
  BY <1>1, <1>5 DEF NoLostWakeup, OnTheWay

\* A worker that takes a task leaves as many tasks as threads, or fewer.
LEMMA TakeWakes ==
    ASSUME IInv, NoLostWakeup, NEW w \in Workers, Take(w)
    PROVE  NoLostWakeup'
<1>1. /\ pc[w] = "ready" /\ pc' = [pc EXCEPT ![w] = "running"] /\ stopping' = stopping
      /\ queue \in Seq(Task) /\ queue # <<>> /\ queue' = Tail(queue)
  BY DEF Take, Goto, IInv, Types
<1>2. Len(queue') = Len(queue) - 1 /\ Len(queue) \in Nat
  BY <1>1, QueueTaken, LenProperties
<1>3. OnTheWay' = OnTheWay \ {w} /\ w \in OnTheWay
  BY <1>1, Kinds DEF OnTheWay, InPlace, IInv, Types
<1>4. Cardinality(OnTheWay') = Cardinality(OnTheWay) - 1
  BY <1>3, OnTheWayFinite, FS_RemoveElement
<1>5. InPlace("stopping")' = InPlace("stopping")
  BY <1>1, Kinds DEF InPlace, IInv, Types
<1>6. ASSUME NEW v \in Workers, pc'[v] = "waiting"
      PROVE  /\ Len(queue') <= Cardinality(OnTheWay')
             /\ stopping' => InPlace("stopping")' # {}
  <2>1. pc[v] = "waiting"
    BY <1>1, <1>6, Kinds DEF IInv, Types
  <2>2. /\ Len(queue) <= Cardinality(OnTheWay)
        /\ stopping => InPlace("stopping") # {}
    BY <2>1 DEF NoLostWakeup, OnTheWay
  <2> QED
    BY <1>1, <1>2, <1>4, <1>5, <2>2, OnTheWayFinite
<1> QED
  BY <1>6 DEF NoLostWakeup, OnTheWay

\* A notification sends a sleeper in the place of the thread that notifies; it
\* is lost only where nobody sleeps.
LEMMA NotifyWakes ==
    ASSUME IInv, NoLostWakeup, NEW t \in Threads, Notify(t)
    PROVE  NoLostWakeup'
<1> DEFINE next == AfterNotify(t)
<1>1. pc[t] = "notifying" /\ queue' = queue /\ stopping' = stopping
  BY DEF Notify, pool
<1>2. next \notin {"ready", "notifying", "waiting", "stopping"}
  BY DEF AfterNotify
<1>3. pc \in [Threads -> WorkerPlace \cup CallerPlace]
  BY DEF IInv, Types
<1> HIDE DEF next
<1>4. CASE {w \in Workers : pc[w] = "waiting"} = {}
  <2>1. pc' = [pc EXCEPT ![t] = next]
    BY <1>4 DEF Notify, Goto, next
  <2>2. \A w \in Workers : pc'[w] # "waiting"
    BY <1>2, <1>3, <1>4, <2>1, Kinds
  <2> QED
    BY <2>2 DEF NoLostWakeup
<1>5. ASSUME NEW w \in Workers, pc[w] = "waiting",
             pc' = [pc EXCEPT ![t] = next, ![w] = "ready"]
      PROVE  NoLostWakeup'
  <2>1. /\ w # t /\ w \in Threads /\ pc'[w] = "ready" /\ pc'[t] = next
        /\ \A u \in Threads : u # t /\ u # w => pc'[u] = pc[u]
    BY <1>1, <1>3, <1>5, Kinds
  <2>2. OnTheWay' = (OnTheWay \ {t}) \cup {w}
    BY <1>2, <2>1 DEF OnTheWay, InPlace
  <2>3. t \in OnTheWay /\ w \notin OnTheWay \ {t}
    BY <1>1, <1>5 DEF OnTheWay, InPlace
  <2>4. IsFiniteSet(OnTheWay \ {t}) /\ Cardinality(OnTheWay \ {t}) = Cardinality(OnTheWay) - 1
    BY <2>3, OnTheWayFinite, FS_RemoveElement
  <2>5. Cardinality(OnTheWay') = Cardinality(OnTheWay \ {t}) + 1
    BY <2>2, <2>3, <2>4, FS_AddElement
  <2>6. Cardinality(OnTheWay') = Cardinality(OnTheWay)
    BY <2>4, <2>5, OnTheWayFinite
  <2>7. InPlace("stopping")' = InPlace("stopping")
    BY <1>1, <1>2, <1>5, <2>1 DEF InPlace
  <2>8. /\ Len(queue) <= Cardinality(OnTheWay)
        /\ stopping => InPlace("stopping") # {}
    BY <1>5 DEF NoLostWakeup, OnTheWay
  <2> QED
    BY <1>1, <2>6, <2>7, <2>8 DEF NoLostWakeup, OnTheWay
<1> QED
  BY <1>4, <1>5 DEF Notify, next

\* The destructor owes the sleepers a notification until it has sent it to all.
LEMMA DestructorWakes ==
    ASSUME IInv, NoLostWakeup, NEW c \in Callers, Stop(c) \/ NotifyAll(c) \/ Join(c)
    PROVE  NoLostWakeup'
<1>1. pc \in [Threads -> WorkerPlace \cup CallerPlace] /\ c \in Threads /\ c \notin Workers
  BY Kinds DEF IInv, Types
<1>2. CASE Stop(c)
  <2>1. pc[c] = "idle" /\ queue' = queue /\ pc' = [pc EXCEPT ![c] = "stopping"]
    BY <1>2 DEF Stop, Goto
  <2>2. OnTheWay' = OnTheWay
    BY <1>1, <2>1 DEF OnTheWay, InPlace
  <2>3. c \in InPlace("stopping")'
    BY <1>1, <2>1 DEF InPlace
  <2>4. \A w \in Workers : pc'[w] = pc[w]
    BY <1>1, <2>1, Kinds
  <2> QED
    BY <2>1, <2>2, <2>3, <2>4 DEF NoLostWakeup, OnTheWay
<1>3. CASE NotifyAll(c)
  <2>1. \A w \in Workers : pc'[w] # "waiting"
    BY <1>1, <1>3, Kinds DEF NotifyAll
  <2> QED
    BY <2>1 DEF NoLostWakeup
<1>4. CASE Join(c)
  <2>1. \A w \in Workers : pc'[w] = pc[w]
    BY <1>1, <1>4, Kinds DEF Join, Goto
  <2>2. \A w \in Workers : pc'[w] # "waiting"
    BY <1>4, <2>1 DEF Join
  <2> QED
    BY <2>2 DEF NoLostWakeup
<1> QED
  BY <1>2, <1>3, <1>4

LEMMA NextWakes ==
    ASSUME IInv, NoLostWakeup, [Next]_vars
    PROVE  NoLostWakeup'
<1> DEFINE Stays == /\ queue' = queue /\ stopping' = stopping
                    /\ \A w \in Workers : pc'[w] = "waiting" => pc[w] = "waiting"
                    /\ \A t \in Threads :
                           pc[t] \in {"ready", "notifying", "stopping"} => pc'[t] = pc[t]
<1>1. pc \in [Threads -> WorkerPlace \cup CallerPlace]
  BY DEF IInv, Types
<1>2. CASE UNCHANGED vars
  BY <1>2, WakeupsKept DEF vars, pool
<1>3. ASSUME NEW w \in Workers, WorkerStep(w) PROVE NoLostWakeup'
  <2>1. w \in Threads /\ PlainTask(w) \in Task
    BY TasksTyped, Kinds DEF IInv
  <2>2. CASE WaitForWork(w)
    BY <2>2, EmptyQueueSleeps DEF WaitForWork, pool, IInv, Types
  <2>3. CASE Exit(w)
    <3>1. /\ pc[w] = "ready" /\ queue' = <<>> /\ stopping' = stopping
          /\ pc' = [pc EXCEPT ![w] = "exited"]
      BY <2>3 DEF Exit, Goto, pool
    <3>2. InPlace("stopping")' = InPlace("stopping")
      BY <1>1, <2>1, <3>1 DEF InPlace
    <3>3. \A v \in Workers : pc'[v] = "waiting" => pc[v] = "waiting"
      BY <1>1, <3>1, Kinds
    <3>4. Len(queue') = 0 /\ 0 <= Cardinality(OnTheWay')
      BY <3>1, EmptySeq, OnTheWayFinite
    <3> QED
      BY <3>1, <3>2, <3>3, <3>4 DEF NoLostWakeup, OnTheWay
  <2>4. CASE Take(w)
    BY <2>4, TakeWakes
  <2>5. CASE SubmitInTask(w)
    BY <2>1, <2>5, EnqueueWakes DEF SubmitInTask, Goto
  <2>6. CASE Notify(w)
    BY <2>1, <2>6, NotifyWakes
  <2>7. CASE Run(w)
    <3>1. Stays
      BY <1>1, <2>7, Kinds DEF Run, Goto, pool
    <3> QED
      BY <3>1, WakeupsKept
  <2>8. CASE Retire(w)
    <3>1. Stays
      BY <1>1, <2>8, Kinds DEF Retire
    <3> QED
      BY <3>1, WakeupsKept
  <2>9. CASE WaitIdleInTask(w)
    <3>1. Stays
      BY <1>1, <2>9, Kinds DEF WaitIdleInTask, Goto, pool
    <3> QED
      BY <3>1, WakeupsKept
  <2>10. CASE CheckIdle(w)
    <3>1. Stays
      BY <1>1, <2>10, Kinds DEF CheckIdle, Goto, pool
    <3> QED
      BY <3>1, WakeupsKept
  <2> QED
    BY <1>3, <2>2, <2>3, <2>4, <2>5, <2>6, <2>7, <2>8, <2>9, <2>10 DEF WorkerStep
<1>4. ASSUME NEW c \in Callers, CallerStep(c) PROVE NoLostWakeup'
  <2>1. c \in Threads
    BY Kinds
  <2>2. CASE SubmitChunk(c)
    <3>1. TaskOf(c, chunk[c]) \in Task
      BY <2>2, TasksTyped DEF SubmitChunk, IInv, CallOK
    <3> QED
      BY <2>1, <2>2, <3>1, EnqueueWakes DEF SubmitChunk, Goto
  <2>3. CASE Notify(c)
    BY <2>1, <2>3, NotifyWakes
  <2>4. CASE GetFuture(c)
    <3>1. Stays
      BY <1>1, <2>4, Kinds DEF GetFuture, Goto, pool
    <3> QED
      BY <3>1, WakeupsKept
  <2>5. CASE CheckIdle(c)
    <3>1. Stays
      BY <1>1, <2>5, Kinds DEF CheckIdle, Goto, pool
    <3> QED
      BY <3>1, WakeupsKept
  <2> QED
    BY <1>4, <2>2, <2>3, <2>4, <2>5, DestructorWakes DEF CallerStep
<1>5. ASSUME NEW c \in Callers, Begin(c) PROVE NoLostWakeup'
  <2>1. CASE Submit(c)
    <3>1. PlainTask(c) \in Task /\ c \in Threads
      BY TasksTyped, Kinds DEF IInv
    <3> QED
      BY <2>1, <3>1, EnqueueWakes DEF Submit, StartCall, Goto
  <2>2. ASSUME NEW n \in 0 .. MaxCount, ParallelForInline(c, n) \/ ParallelFor(c, n) \/ WaitIdle(c)
        PROVE  NoLostWakeup'
    <3>1. Stays
      BY <1>1, <2>2, Kinds
         DEF ParallelForInline, ParallelFor, WaitIdle, StartCall, Goto, pool
    <3> QED
      BY <3>1, WakeupsKept
  <2>3. 0 \in 0 .. MaxCount
    BY PoolAssumption
  <2> QED
    BY <1>5, <2>1, <2>2, <2>3, DestructorWakes DEF Begin
<1>6. ASSUME NEW t \in Threads, SpuriousWakeup(t) PROVE NoLostWakeup'
  <2>1. Stays
    BY <1>1, <1>6, Kinds DEF SpuriousWakeup, Goto, pool
  <2> QED
    BY <2>1, WakeupsKept
<1> QED
  BY <1>2, <1>3, <1>4, <1>5, <1>6 DEF Next

\* submit notifies one worker for each task, and after the unlock: whatever
\* the interleaving, a worker sleeps only while every queued task has a thread
\* of its own coming for it.
THEOREM WakeupsAreNotLost == Spec => []NoLostWakeup
<1>1. Init => NoLostWakeup
  <2> SUFFICES ASSUME Init PROVE \A w \in Workers : pc[w] # "waiting"
    BY DEF NoLostWakeup
  <2> QED
    BY Kinds DEF Init
<1>2. IInv /\ NoLostWakeup /\ [Next]_vars => NoLostWakeup'
  BY NextWakes
<1> QED
  BY <1>1, <1>2, InvariantHolds, PTL DEF Spec

-----------------------------------------------------------------------------
(***************************************************************************)
(* parallel_for runs the body once for every index, for any count and any  *)
(* number of workers: the arithmetic of the chunks, and the futures that   *)
(* the caller awaits.                                                      *)
(***************************************************************************)
-----------------------------------------------------------------------------
(***************************************************************************)
(* The arithmetic of the chunks                                            *)
(***************************************************************************)
\* A chunk that begins before n is not empty, and there are enough of them.
LEMMA ChunksSuffice ==
    ASSUME NEW n \in Nat, n > 1, NEW w \in Nat, w > 0
    PROVE  /\ Chunks(n, w) \in Nat
           /\ ChunkSize(n, w) \in Nat \ {0}
           /\ n <= Chunks(n, w) * ChunkSize(n, w)
<1> DEFINE c == Chunks(n, w)
           s == (n + c - 1) \div c
<1>1. c \in Nat \ {0} /\ c <= n
  BY DEF Chunks, MinOf
<1>2. ChunkSize(n, w) = s
  BY DEF ChunkSize
<1> HIDE DEF c
<1>3. s \in Nat \ {0}
  BY <1>1
<1>4. n + c - 1 < c * s + c
  BY <1>1
<1> HIDE DEF s
<1>5. c * s \in Nat
  BY <1>1, <1>3
<1>6. n <= c * s
  BY <1>1, <1>4, <1>5
<1> QED
  BY <1>1, <1>2, <1>3, <1>6 DEF c

\* k * s, in steps that need no more than that s is positive.
LEMMA Multiples ==
    ASSUME NEW s \in Nat \ {0}, NEW j \in Nat, NEW k \in Nat, j < k
    PROVE  j * s \in Nat /\ k * s \in Nat /\ j * s + s <= k * s
<1>1. j * s \in Nat /\ k * s \in Nat /\ (k - j - 1) * s \in Nat
  BY SMT
<1>2. k * s = j * s + s + (k - j - 1) * s
  BY SMT
<1> QED
  BY <1>1, <1>2

LEMMA WhatIsAChunk ==
    ASSUME NEW n \in Nat, n > 1, NEW w \in Nat, w > 0, NEW k \in Nat
    PROVE  /\ ChunkBegin(n, w, k) \in Nat
           /\ HasChunk(n, w, k) <=> k < Chunks(n, w) /\ ChunkBegin(n, w, k) < n
<1> DEFINE s == ChunkSize(n, w)
<1>1. s \in Nat \ {0}
  BY ChunksSuffice
<1> HIDE DEF s
<1>2. k * s \in Nat
  BY <1>1
<1>3. ChunkBegin(n, w, k) = k * s
  BY DEF ChunkBegin, s
<1>4. ChunkEnd(n, w, k) = IF k * s + s <= n THEN k * s + s ELSE n
  BY <1>3 DEF ChunkEnd, MinOf, s
<1> QED
  BY <1>1, <1>2, <1>3, <1>4 DEF HasChunk

\* There is a first chunk, and no chunk after one that is missing.
LEMMA ChunksInOrder ==
    ASSUME NEW n \in Nat, n > 1, NEW w \in Nat, w > 0
    PROVE  /\ HasChunk(n, w, 0)
           /\ \A j, k \in Nat : j <= k /\ HasChunk(n, w, k) => HasChunk(n, w, j)
<1> DEFINE s == ChunkSize(n, w)
<1>1. s \in Nat \ {0} /\ Chunks(n, w) \in Nat \ {0}
  <2>1. Chunks(n, w) # 0
    BY DEF Chunks, MinOf
  <2> QED
    BY <2>1, ChunksSuffice
<1>2. HasChunk(n, w, 0)
  <2>1. ChunkBegin(n, w, 0) = 0 * s
    BY DEF ChunkBegin
  <2> HIDE DEF s
  <2>2. 0 * s = 0
    BY <1>1
  <2>3. 0 < Chunks(n, w) /\ ChunkBegin(n, w, 0) < n
    BY <1>1, <2>1, <2>2
  <2> QED
    BY <2>3, WhatIsAChunk
<1>3. ASSUME NEW j \in Nat, NEW k \in Nat, j <= k, HasChunk(n, w, k)
      PROVE  HasChunk(n, w, j)
  <2>1. CASE j = k
    BY <1>3, <2>1
  <2>2. CASE j < k
    <3>1. ChunkBegin(n, w, j) + s <= ChunkBegin(n, w, k)
      BY <1>1, <2>2, Multiples DEF ChunkBegin
    <3> HIDE DEF s
    <3>2. /\ ChunkBegin(n, w, j) \in Nat /\ ChunkBegin(n, w, k) \in Nat
          /\ k < Chunks(n, w) /\ ChunkBegin(n, w, k) < n
      BY <1>3, WhatIsAChunk
    <3>3. j < Chunks(n, w) /\ ChunkBegin(n, w, j) < n
      BY <1>1, <2>2, <3>1, <3>2
    <3> QED
      BY <3>3, WhatIsAChunk
  <2> QED
    BY <1>3, <2>1, <2>2
<1> QED
  BY <1>2, <1>3

\* Every index is in one chunk.
LEMMA OneChunkEach ==
    ASSUME NEW n \in Nat, n > 1, NEW w \in Nat, w > 0, NEW i \in 0 .. n - 1
    PROVE  \E k \in Nat :
               /\ HasChunk(n, w, k)
               /\ ChunkBegin(n, w, k) <= i /\ i < ChunkEnd(n, w, k)
               /\ \A j \in Nat :
                      ChunkBegin(n, w, j) <= i /\ i < ChunkEnd(n, w, j) => j = k
<1> DEFINE s == ChunkSize(n, w)
           c == Chunks(n, w)
           k == i \div s
<1>1. s \in Nat \ {0} /\ c \in Nat /\ n <= c * s
  BY ChunksSuffice
<1>2. \A j \in Nat : /\ ChunkBegin(n, w, j) = j * s
                     /\ ChunkEnd(n, w, j) = IF j * s + s <= n THEN j * s + s ELSE n
  BY DEF ChunkBegin, ChunkEnd, MinOf
<1> HIDE DEF s, c
<1>3. k \in Nat /\ k * s <= i /\ i < k * s + s
  BY <1>1
<1> HIDE DEF k
<1>4. k * s \in Nat
  BY <1>1, <1>3
<1>5. ChunkBegin(n, w, k) <= i /\ i < ChunkEnd(n, w, k)
  BY <1>1, <1>2, <1>3, <1>4
<1>6. k < c
  <2> SUFFICES ASSUME c <= k PROVE FALSE
    BY <1>1, <1>3
  <2>1. c * s <= k * s
    <3>1. CASE c = k
      BY <1>4, <3>1
    <3>2. CASE c < k
      <4>1. c * s \in Nat /\ c * s + s <= k * s
        BY <1>1, <1>3, <3>2, Multiples
      <4> QED
        BY <1>1, <1>4, <4>1
    <3> QED
      BY <1>1, <1>3, <3>1, <3>2
  <2>2. c * s \in Nat
    BY <1>1
  <2> QED
    BY <1>1, <1>3, <1>4, <2>1, <2>2
<1>7. HasChunk(n, w, k)
  <2>1. ChunkBegin(n, w, k) < n
    BY <1>2, <1>3, <1>4
  <2> QED
    BY <1>3, <1>6, <2>1, WhatIsAChunk DEF c
<1>8. ASSUME NEW j \in Nat, ChunkBegin(n, w, j) <= i, i < ChunkEnd(n, w, j)
      PROVE  j = k
  <2>1. j * s \in Nat
    BY <1>1
  <2>2. j * s <= i /\ i < j * s + s
    BY <1>1, <1>2, <1>8, <2>1
  <2>3. ~ (j < k)
    <3> SUFFICES ASSUME j < k PROVE FALSE
      OBVIOUS
    <3>1. j * s + s <= k * s
      BY <1>1, <1>3, Multiples
    <3> QED
      BY <1>1, <1>3, <1>4, <2>1, <2>2, <3>1
  <2>4. ~ (k < j)
    <3> SUFFICES ASSUME k < j PROVE FALSE
      OBVIOUS
    <3>1. k * s + s <= j * s
      BY <1>1, <1>3, Multiples
    <3> QED
      BY <1>1, <1>3, <1>4, <2>1, <2>2, <3>1
  <2> QED
    BY <1>3, <2>3, <2>4
<1> QED
  BY <1>3, <1>5, <1>7, <1>8

-----------------------------------------------------------------------------
(***************************************************************************)
(* The inductive invariant                                                 *)
(***************************************************************************)
\* What a caller submits and awaits: the chunks in their order, and those it
\* has passed have a result.
Awaits(c) ==
    /\ pc[c] \in {"idlecheck", "idleblocked"} => count[c] = 0
    /\ pc[c] = "submitting" => HasChunk(count[c], Size, chunk[c])
    /\ pc[c] = "getting" =>
           /\ HasChunk(count[c], Size, chunk[c])
           /\ \A k \in Nat : k < chunk[c] => TaskOf(c, k) \in ok
    /\ ret[c] = "returned" /\ count[c] > 1 =>
           \A k \in Nat : HasChunk(count[c], Size, k) => TaskOf(c, k) \in ok

\* The tasks of its call are its chunks.
OwnTask(c, task) ==
    task.by = c /\ task.call = calls[c] /\ count[c] > 1 =>
        /\ HasChunk(count[c], Size, task.chunk)
        /\ task = TaskOf(c, task.chunk)

PInv ==
    /\ \A c \in Callers : Awaits(c)
    /\ \A c \in Callers : \A task \in accepted : OwnTask(c, task)

-----------------------------------------------------------------------------
(***************************************************************************)
(* Steps                                                                   *)
(***************************************************************************)
\* A caller whose call stays the same, and does not get nearer its end.
LEMMA AwaitsKept ==
    ASSUME NEW c \in Callers, Awaits(c),
           calls'[c] = calls[c], count'[c] = count[c], ok \subseteq ok',
           pc'[c] \in {"idlecheck", "idleblocked"}
               => pc[c] \in {"idlecheck", "idleblocked"},
           pc'[c] \in {"submitting", "getting"} => pc[c] = pc'[c] /\ chunk[c] = chunk'[c],
           ret'[c] = "returned" => ret[c] = "returned" \/ count[c] = 0
    PROVE  Awaits(c)'
<1>1. ASSUME NEW k PROVE TaskOf(c, k)' = TaskOf(c, k)
  BY DEF TaskOf
<1> QED
  BY <1>1 DEF Awaits

LEMMA OwnTaskKept ==
    ASSUME NEW c \in Callers, NEW task, OwnTask(c, task),
           calls'[c] = calls[c], count'[c] = count[c]
    PROVE  OwnTask(c, task)'
<1>1. ASSUME NEW k PROVE TaskOf(c, k)' = TaskOf(c, k)
  BY DEF TaskOf
<1> QED
  BY <1>1 DEF OwnTask

\* A step of somebody else.
LEMMA OthersKept ==
    ASSUME PInv, NEW c \in Callers, ok \subseteq ok',
           calls'[c] = calls[c], count'[c] = count[c], chunk'[c] = chunk[c],
           ret'[c] = ret[c], pc'[c] = pc[c]
    PROVE  Awaits(c)'
  BY AwaitsKept DEF PInv

\* A step that queues nothing and begins no call.
LEMMA TasksSame ==
    ASSUME PInv, accepted' = accepted, count' = count,
           \A c \in Callers : calls'[c] = calls[c]
    PROVE  \A c \in Callers : \A task \in accepted' : OwnTask(c, task)'
  BY OwnTaskKept DEF PInv

\* A step of a caller that does not begin a call: the others wait as before.
LEMMA CallOf ==
    ASSUME IInv, NEW c \in Callers
    PROVE  /\ c \in Threads /\ c \notin Workers /\ count[c] \in Nat /\ calls[c] \in Nat
           /\ chunk[c] \in Nat /\ DOMAIN pc = Threads /\ DOMAIN calls = Threads
           /\ DOMAIN count = Callers /\ DOMAIN chunk = Callers /\ DOMAIN ret = Callers
           /\ pc[c] \in {"submitting", "getting"} => count[c] > 1
           /\ count[c] # 1
  BY Kinds, PoolAssumption DEF IInv, Types, CallOK

LEMMA PInit ==
    ASSUME Init
    PROVE  PInv
<1>1. \A c \in Callers : pc[c] = "idle" /\ ret[c] = "none"
  BY Kinds DEF Init
<1>2. accepted = {}
  BY DEF Init
<1> QED
  BY <1>1, <1>2 DEF PInv, Awaits

LEMMA WorkersKeepCalls ==
    ASSUME IInv, PInv, NEW w \in Workers,
           \/ WaitForWork(w) \/ Exit(w) \/ Take(w) \/ Run(w) \/ Retire(w)
           \/ WaitIdleInTask(w) \/ CheckIdle(w)
    PROVE  PInv'
<1>1. /\ accepted' = accepted /\ count' = count /\ calls' = calls /\ chunk' = chunk
      /\ ok \subseteq ok'
  BY DEF WaitForWork, Exit, Take, Run, Retire, WaitIdleInTask, CheckIdle, pool, call
<1>2. ASSUME NEW c \in Callers PROVE Awaits(c)'
  <2>1. /\ ret'[c] = ret[c]
        /\ \/ pc'[c] = pc[c]
           \/ pc[c] = "idleblocked" /\ pc'[c] = "idlecheck"
    BY CallOf, Kinds
       DEF WaitForWork, Exit, Take, Run, Retire, WaitIdleInTask, CheckIdle, Goto, call
  <2> QED
    BY <1>1, <2>1, AwaitsKept DEF PInv
<1>3. \A c \in Callers : \A task \in accepted' : OwnTask(c, task)'
  BY <1>1, TasksSame
<1> QED
  BY <1>2, <1>3 DEF PInv

LEMMA SubmitInTaskKeepsCalls ==
    ASSUME IInv, PInv, NEW w \in Workers, SubmitInTask(w)
    PROVE  PInv'
<1>1. /\ accepted' = accepted \cup {PlainTask(w)}
      /\ UNCHANGED <<count, chunk, ret, ok>>
  BY DEF SubmitInTask, Enqueue, call
<1>2. \A c \in Callers : calls'[c] = calls[c] /\ pc'[c] = pc[c]
  BY CallOf DEF SubmitInTask, Goto
<1>3. \A c \in Callers : Awaits(c)'
  BY <1>1, <1>2, OthersKept
<1>4. ASSUME NEW c \in Callers, NEW task \in accepted' PROVE OwnTask(c, task)'
  <2>1. CASE task \in accepted
    BY <1>1, <1>2, <2>1, OwnTaskKept DEF PInv
  <2>2. CASE task = PlainTask(w)
    BY <2>2, Kinds DEF PlainTask, OwnTask
  <2> QED
    BY <1>1, <2>1, <2>2
<1> QED
  BY <1>3, <1>4 DEF PInv

LEMMA NotifyKeepsCalls ==
    ASSUME IInv, PInv, NEW t \in Threads, Notify(t)
    PROVE  PInv'
<1>1. /\ accepted' = accepted /\ UNCHANGED <<count, calls, ok>>
      /\ chunk' = [c \in Callers |->
                      IF c = t /\ AfterNotify(t) = "getting" THEN 0 ELSE chunk[c]]
      /\ ret' = [c \in Callers |->
                    IF c = t /\ AfterNotify(t) = "idle" THEN "returned" ELSE ret[c]]
  BY DEF Notify
<1>2. ASSUME NEW c \in Callers PROVE Awaits(c)'
  <2>1. pc'[c] = IF c = t THEN AfterNotify(t) ELSE pc[c]
    BY CallOf DEF Notify, Goto
  <2>2. CASE c # t
    BY <1>1, <2>1, <2>2, OthersKept
  <2>3. CASE c = t /\ count[c] = 0
    <3>1. AfterNotify(t) = "idle"
      BY <2>3, CallOf DEF AfterNotify
    <3> QED
      BY <1>1, <2>1, <2>3, <3>1 DEF Awaits
  <2>4. CASE c = t /\ count[c] # 0 /\ HasChunk(count[c], Size, chunk[c])
    <3>1. AfterNotify(t) = "submitting"
      BY <2>4, CallOf DEF AfterNotify
    <3>2. /\ chunk'[c] = chunk[c] /\ ret'[c] = ret[c] /\ pc'[c] = "submitting"
          /\ count'[c] = count[c] /\ calls'[c] = calls[c] /\ ok' = ok
      BY <1>1, <2>1, <2>4, <3>1
    <3>3. ASSUME NEW k PROVE TaskOf(c, k)' = TaskOf(c, k)
      BY <3>2 DEF TaskOf
    <3> QED
      BY <2>4, <3>2, <3>3 DEF PInv, Awaits
  <2>5. CASE c = t /\ count[c] # 0 /\ ~HasChunk(count[c], Size, chunk[c])
    <3>1. AfterNotify(t) = "getting"
      BY <2>5, CallOf DEF AfterNotify
    <3>2. /\ chunk'[c] = 0 /\ ret'[c] = ret[c] /\ pc'[c] = "getting"
          /\ count'[c] = count[c] /\ calls'[c] = calls[c] /\ ok' = ok
      BY <1>1, <2>1, <2>5, <3>1
    <3>3. HasChunk(count[c], Size, 0)
      BY <2>5, CallOf, WorkersCounted, ChunksInOrder
    <3>4. ASSUME NEW k PROVE TaskOf(c, k)' = TaskOf(c, k)
      BY <3>2 DEF TaskOf
    <3> QED
      BY <3>2, <3>3, <3>4 DEF PInv, Awaits
  <2> QED
    BY <2>2, <2>3, <2>4, <2>5
<1>3. \A c \in Callers : \A task \in accepted' : OwnTask(c, task)'
  BY <1>1, TasksSame
<1> QED
  BY <1>2, <1>3 DEF PInv

\* Only a caller that submits nothing more waits for the pool to be idle.
LEMMA WaitKeepsCalls ==
    ASSUME IInv, PInv, NEW t \in Threads, CheckIdle(t) \/ SpuriousWakeup(t)
    PROVE  PInv'
<1>1. accepted' = accepted /\ UNCHANGED <<count, calls, ok, chunk>>
  BY DEF CheckIdle, SpuriousWakeup, pool, call
<1>2. ASSUME NEW c \in Callers PROVE Awaits(c)'
  <2>1. Awaits(c)
    BY DEF PInv
  <2>2. CASE c # t
    <3>1. pc'[c] = pc[c] /\ ret'[c] = ret[c]
      BY <2>2, CallOf DEF CheckIdle, SpuriousWakeup, Goto, call
    <3> QED
      BY <1>1, <3>1, OthersKept
  <2>3. CASE c = t
    <3>1. pc[c] # "waiting"
      BY CallOf DEF IInv, Types, CallerPlace
    <3>2. /\ pc[c] \in {"idlecheck", "idleblocked"}
          /\ pc'[c] \in {"idle", "idlecheck", "idleblocked"}
          /\ ret'[c] = ret[c] \/ ret'[c] = "returned"
      BY <2>3, <3>1, CallOf DEF CheckIdle, SpuriousWakeup, Goto, call
    <3>3. count[c] = 0
      BY <2>1, <3>2 DEF Awaits
    <3> QED
      BY <1>1, <2>1, <3>2, <3>3, AwaitsKept
  <2> QED
    BY <2>2, <2>3
<1>3. \A c \in Callers : \A task \in accepted' : OwnTask(c, task)'
  BY <1>1, TasksSame
<1> QED
  BY <1>2, <1>3 DEF PInv

LEMMA DestructorKeepsCalls ==
    ASSUME IInv, PInv, NEW c \in Callers, Stop(c) \/ NotifyAll(c) \/ Join(c)
    PROVE  PInv'
<1>1. accepted' = accepted /\ UNCHANGED <<count, calls, ok, chunk, ret>>
  BY DEF Stop, NotifyAll, Join, pool, call
<1>2. ASSUME NEW d \in Callers PROVE Awaits(d)'
  <2>1. pc'[d] = pc[d] \/ pc'[d] \in {"stopping", "joining", "gone", "ready"}
    BY CallOf DEF Stop, NotifyAll, Join, Goto
  <2> QED
    BY <1>1, <2>1, AwaitsKept DEF PInv
<1>3. \A d \in Callers : \A task \in accepted' : OwnTask(d, task)'
  BY <1>1, TasksSame
<1> QED
  BY <1>2, <1>3 DEF PInv

LEMMA SubmitChunkKeepsCalls ==
    ASSUME IInv, PInv, NEW c \in Callers, SubmitChunk(c)
    PROVE  PInv'
<1>1. /\ pc[c] = "submitting"
      /\ accepted' = accepted \cup {TaskOf(c, chunk[c])}
      /\ UNCHANGED <<calls, count, ret, ok>>
      /\ chunk' = [chunk EXCEPT ![c] = @ + 1]
      /\ pc' = [pc EXCEPT ![c] = "notifying"]
  BY DEF SubmitChunk, Enqueue, Goto
<1>2. ASSUME NEW d \in Callers PROVE Awaits(d)'
  <2>1. d = c => pc'[d] = "notifying"
    BY <1>1, CallOf
  <2>2. d # c => pc'[d] = pc[d] /\ chunk'[d] = chunk[d]
    BY <1>1, CallOf
  <2> QED
    BY <1>1, <2>1, <2>2, AwaitsKept DEF PInv
<1>3. ASSUME NEW d \in Callers, NEW task \in accepted' PROVE OwnTask(d, task)'
  <2>1. CASE task \in accepted
    BY <1>1, <2>1, OwnTaskKept DEF PInv
  <2>2. CASE task = TaskOf(c, chunk[c])
    <3>1. task.by = c /\ task.chunk = chunk[c]
      BY <2>2 DEF TaskOf
    <3>2. HasChunk(count[c], Size, chunk[c])
      BY <1>1 DEF PInv, Awaits
    <3>3. OwnTask(d, task)
      BY <2>2, <3>1, <3>2 DEF OwnTask
    <3> QED
      BY <1>1, <3>3, OwnTaskKept
  <2> QED
    BY <1>1, <2>1, <2>2
<1> QED
  BY <1>2, <1>3 DEF PInv

LEMMA GetFutureKeepsCalls ==
    ASSUME IInv, PInv, NEW c \in Callers, GetFuture(c)
    PROVE  PInv'
<1>1. pc[c] = "getting" /\ accepted' = accepted /\ UNCHANGED <<calls, count, ok>>
  BY DEF GetFuture, pool
<1>2. /\ count[c] \in Nat /\ count[c] > 1 /\ chunk[c] \in Nat
      /\ HasChunk(count[c], Size, chunk[c])
      /\ \A k \in Nat : k < chunk[c] => TaskOf(c, k) \in ok
  BY <1>1, CallOf DEF PInv, Awaits
<1>3. ASSUME NEW d \in Callers PROVE Awaits(d)'
  <2>1. ASSUME NEW k PROVE TaskOf(d, k)' = TaskOf(d, k)
    BY <1>1 DEF TaskOf
  <2>2. CASE d # c
    <3>1. pc'[d] = pc[d] /\ ret'[d] = ret[d] /\ chunk'[d] = chunk[d]
      BY <2>2, CallOf DEF GetFuture, Goto
    <3> QED
      BY <1>1, <3>1, OthersKept
  <2>3. CASE d = c /\ ret' = [ret EXCEPT ![c] = "threw"] /\ Goto(c, "idle")
    <3>1. pc'[d] = "idle" /\ ret'[d] = "threw"
      BY <2>3, CallOf DEF Goto
    <3> QED
      BY <3>1 DEF Awaits
  <2>4. CASE /\ d = c /\ TaskOf(c, chunk[c]) \in ok
             /\ chunk' = [chunk EXCEPT ![c] = @ + 1]
             /\ IF HasChunk(count[c], Size, chunk[c] + 1)
                THEN UNCHANGED <<pc, ret>>
                ELSE ret' = [ret EXCEPT ![c] = "returned"] /\ Goto(c, "idle")
    <3>1. chunk'[c] = chunk[c] + 1
      BY <2>4, CallOf
    <3>2. \A k \in Nat : k < chunk[c] + 1 => TaskOf(c, k) \in ok
      BY <1>2, <2>4
    <3>3. CASE HasChunk(count[c], Size, chunk[c] + 1) /\ UNCHANGED <<pc, ret>>
      <4>1. /\ pc'[d] = "getting" /\ count'[d] = count[d] /\ ok' = ok
            /\ ret'[d] = ret[d]
        BY <1>1, <2>4, <3>3
      <4>2. ret[d] = "returned" /\ count[d] > 1 =>
                \A k \in Nat : HasChunk(count[d], Size, k) => TaskOf(d, k) \in ok
        BY DEF PInv, Awaits
      <4> QED
        BY <2>1, <2>4, <3>1, <3>2, <3>3, <4>1, <4>2 DEF Awaits
    <3>4. CASE ~HasChunk(count[c], Size, chunk[c] + 1) /\ Goto(c, "idle")
      <4>1. pc'[d] = "idle" /\ count'[d] = count[d] /\ ok' = ok
        BY <1>1, <2>4, <3>4, CallOf DEF Goto
      <4>2. ASSUME NEW k \in Nat, HasChunk(count[c], Size, k) PROVE k < chunk[c] + 1
        <5> SUFFICES ASSUME chunk[c] + 1 <= k PROVE FALSE
          BY <1>2
        <5> QED
          BY <1>2, <3>4, <4>2, WorkersCounted, ChunksInOrder
      <4> QED
        BY <2>1, <2>4, <3>2, <4>1, <4>2 DEF Awaits
    <3> QED
      BY <2>4, <3>3, <3>4
  <2> QED
    BY <2>2, <2>3, <2>4 DEF GetFuture
<1>4. \A d \in Callers : \A task \in accepted' : OwnTask(d, task)'
  BY <1>1, TasksSame
<1> QED
  BY <1>3, <1>4 DEF PInv

\* A call has a number that no task has yet.
LEMMA BeginKeepsCalls ==
    ASSUME IInv, PInv, NEW c \in Callers, NEW n \in 0 .. MaxCount,
           NEW place \in {"notifying", "idle", "submitting", "idlecheck"},
           StartCall(c, n, place),
           \/ n = 0 /\ place # "submitting"
           \/ n > 1 /\ place = "submitting" /\ ret'[c] = "none",
           \A d \in Callers : d # c => ret'[d] = ret[d],
           ok' = ok,
           \/ accepted' = accepted
           \/ n = 0 /\ accepted' = accepted \cup {PlainTask(c)}
    PROVE  PInv'
<1>1. /\ pc[c] = "idle"
      /\ calls' = [calls EXCEPT ![c] = @ + 1] /\ count' = [count EXCEPT ![c] = n]
      /\ chunk' = [chunk EXCEPT ![c] = 0] /\ pc' = [pc EXCEPT ![c] = place]
  BY DEF StartCall, Goto
<1>2. /\ calls'[c] = calls[c] + 1 /\ count'[c] = n /\ chunk'[c] = 0 /\ pc'[c] = place
      /\ calls[c] \in Nat /\ n \in Nat
  BY <1>1, CallOf, PoolAssumption
<1>3. ASSUME NEW d \in Callers, d # c
      PROVE  /\ calls'[d] = calls[d] /\ count'[d] = count[d] /\ chunk'[d] = chunk[d]
             /\ pc'[d] = pc[d]
  BY <1>1, <1>3, CallOf
<1>4. ASSUME NEW d \in Callers PROVE Awaits(d)'
  <2>1. CASE d # c
    BY <1>3, <2>1, OthersKept
  <2>2. CASE d = c
    <3>1. n > 1 => HasChunk(n, Size, 0)
      BY <1>2, WorkersCounted, ChunksInOrder
    <3>2. n = 0 \/ place = "submitting"
      OBVIOUS
    <3> QED
      BY <1>2, <2>2, <3>1, <3>2 DEF Awaits
  <2> QED
    BY <2>1, <2>2
<1>5. ASSUME NEW d \in Callers, NEW task \in accepted' PROVE OwnTask(d, task)'
  <2>1. CASE d # c /\ task \in accepted
    BY <1>3, <2>1, OwnTaskKept DEF PInv
  <2>2. CASE d = c /\ task \in accepted
    <3>1. task \in Task
      BY <2>2 DEF IInv, Types
    <3>2. task.by = c => task.call <= calls[c] /\ task.call \in Nat
      BY <2>2, <3>1 DEF IInv, Fresh, Task
    <3> QED
      BY <1>2, <2>2, <3>2 DEF OwnTask
  <2>3. CASE d # c /\ task = PlainTask(c)
    BY <2>3 DEF PlainTask, OwnTask
  <2>4. CASE d = c /\ n = 0
    BY <1>2, <2>4 DEF OwnTask
  <2> QED
    BY <2>1, <2>2, <2>3, <2>4
<1> QED
  BY <1>4, <1>5 DEF PInv

LEMMA PNext ==
    ASSUME IInv, PInv, [Next]_vars
    PROVE  PInv'
<1>1. CASE UNCHANGED vars
  <2>1. UNCHANGED <<pc, calls, count, chunk, ret, ok, accepted>>
    BY <1>1 DEF vars, call
  <2>2. \A c \in Callers : Awaits(c)'
    BY <2>1, OthersKept
  <2>3. \A c \in Callers : \A task \in accepted' : OwnTask(c, task)'
    BY <2>1, TasksSame
  <2> QED
    BY <2>2, <2>3 DEF PInv
<1>2. ASSUME NEW w \in Workers, WorkerStep(w) PROVE PInv'
  BY <1>2, Kinds, WorkersKeepCalls, SubmitInTaskKeepsCalls, NotifyKeepsCalls DEF WorkerStep
<1>3. ASSUME NEW c \in Callers, CallerStep(c) PROVE PInv'
  BY <1>3, Kinds, SubmitChunkKeepsCalls, NotifyKeepsCalls, GetFutureKeepsCalls,
     WaitKeepsCalls, DestructorKeepsCalls DEF CallerStep
<1>4. ASSUME NEW c \in Callers, Begin(c) PROVE PInv'
  <2>1. 0 \in 0 .. MaxCount /\ MaxCount \in Nat /\ DOMAIN ret = Callers
    BY PoolAssumption, CallOf
  <2>2. CASE Submit(c)
    <3>1. /\ StartCall(c, 0, "notifying")
          /\ accepted' = accepted \cup {PlainTask(c)} /\ ok' = ok
          /\ \A d \in Callers : d # c => ret'[d] = ret[d]
      BY <2>1, <2>2 DEF Submit, Enqueue
    <3> QED
      BY <2>1, <3>1, BeginKeepsCalls
  <2>3. ASSUME NEW n \in 0 .. MaxCount, ParallelForInline(c, n) PROVE PInv'
    <3>1. /\ StartCall(c, 0, "idle")
          /\ accepted' = accepted /\ ok' = ok
          /\ \A d \in Callers : d # c => ret'[d] = ret[d]
      BY <2>1, <2>3 DEF ParallelForInline
    <3> QED
      BY <2>1, <3>1, BeginKeepsCalls
  <2>4. ASSUME NEW n \in 0 .. MaxCount, ParallelFor(c, n) PROVE PInv'
    <3>1. /\ StartCall(c, n, "submitting") /\ n > 1
          /\ accepted' = accepted /\ ok' = ok /\ ret'[c] = "none"
          /\ \A d \in Callers : d # c => ret'[d] = ret[d]
      BY <2>1, <2>4 DEF ParallelFor
    <3> QED
      BY <2>1, <3>1, BeginKeepsCalls
  <2>5. CASE WaitIdle(c)
    <3>1. /\ StartCall(c, 0, "idlecheck")
          /\ accepted' = accepted /\ ok' = ok
          /\ \A d \in Callers : d # c => ret'[d] = ret[d]
      BY <2>1, <2>5 DEF WaitIdle
    <3> QED
      BY <2>1, <3>1, BeginKeepsCalls
  <2> QED
    BY <1>4, <2>2, <2>3, <2>4, <2>5, DestructorKeepsCalls DEF Begin
<1>5. ASSUME NEW t \in Threads, SpuriousWakeup(t) PROVE PInv'
  BY <1>5, WaitKeepsCalls
<1> QED
  BY <1>1, <1>2, <1>3, <1>4, <1>5 DEF Next

-----------------------------------------------------------------------------
\* The chunks that a finished call awaited are those that hold its indices,
\* each in one of them; and no other task of the call has a result.
LEMMA EveryIndexOnce ==
    ASSUME IInv, PInv
    PROVE  ParallelForComplete
<1> SUFFICES ASSUME NEW c \in Callers, ret[c] = "returned", count[c] > 1,
                    NEW i \in 0 .. count[c] - 1
             PROVE  Cardinality({t \in ok : /\ t.by = c
                                            /\ t.call = calls[c]
                                            /\ t.begin <= i /\ i < t.end}) = 1
  BY DEF ParallelForComplete
<1> DEFINE n == count[c]
           Ran == {t \in ok : /\ t.by = c
                              /\ t.call = calls[c]
                              /\ t.begin <= i /\ i < t.end}
<1>1. /\ n \in Nat /\ n > 1
      /\ \A k \in Nat : HasChunk(n, Size, k) => TaskOf(c, k) \in ok
  BY CallOf DEF PInv, Awaits
<1>2. PICK k \in Nat :
          /\ HasChunk(n, Size, k)
          /\ ChunkBegin(n, Size, k) <= i /\ i < ChunkEnd(n, Size, k)
          /\ \A j \in Nat :
                 ChunkBegin(n, Size, j) <= i /\ i < ChunkEnd(n, Size, j) => j = k
  BY <1>1, WorkersCounted, OneChunkEach
<1>3. \A j : /\ TaskOf(c, j).by = c /\ TaskOf(c, j).call = calls[c]
             /\ TaskOf(c, j).begin = ChunkBegin(n, Size, j)
             /\ TaskOf(c, j).end = ChunkEnd(n, Size, j)
  BY DEF TaskOf
<1>4. TaskOf(c, k) \in Ran
  BY <1>1, <1>2, <1>3
<1>5. ASSUME NEW t \in Ran PROVE t = TaskOf(c, k)
  <2>1. t \in accepted /\ t \in Task
    BY DEF IInv, TasksConserved, Types, Done
  <2>2. t = TaskOf(c, t.chunk) /\ t.chunk \in Nat
    BY <1>1, <2>1 DEF PInv, OwnTask, Task
  <2>3. ChunkBegin(n, Size, t.chunk) <= i /\ i < ChunkEnd(n, Size, t.chunk)
    BY <1>3, <2>2
  <2> QED
    BY <1>2, <2>2, <2>3
<1>6. Ran = {TaskOf(c, k)}
  BY <1>4, <1>5
<1> QED
  BY <1>6, FS_Singleton

\* parallel_for: when it returns without an exception, the body has run for
\* every index in [0, count), and once.
THEOREM EveryIndexRuns == Spec => []ParallelForComplete
<1>1. Init => PInv
  BY PInit
<1>2. IInv /\ PInv /\ [Next]_vars => PInv'
  BY PNext
<1>3. IInv /\ PInv => ParallelForComplete
  BY EveryIndexOnce
<1> QED
  BY <1>1, <1>2, <1>3, InvariantHolds, PTL DEF Spec
=============================================================================
