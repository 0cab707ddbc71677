------------------------- MODULE MetadataStoreProofs -------------------------
(***************************************************************************)
(* As long as BEGIN and COMMIT do not fail and no error makes SQLite roll  *)
(* back by itself, and for any number of threads, nested frames, ids, keys *)
(* and values: nothing is pending once nobody is inside a call, whatever   *)
(* statements fail and whichever exceptions are swallowed; and the store   *)
(* implements TransactionalRows (second part).                             *)
(***************************************************************************)
EXTENDS MetadataStore, FiniteSetTheorems, TLAPS

\* The assumption of the theorems: the transaction statements succeed.
TransactionsWork == Faults \cap {"begin", "commit", "abort"} = {}

Connection ==
    [disk : SUBSET Row, work : SUBSET Row, inTxn : BOOLEAN,
     depth : Nat, handle : BOOLEAN, stuck : SUBSET Statement]

Prepared ==
    {s \in [stmt : Statement, id : Ids \cup {Config}, row : Row \cup {NoRow}] :
        s.stmt # "delete_by_vector" => s.row \in Row}

Calls == [by : Threads, ids : SUBSET Ids, meta : Metas \cup {{}}]

Jobs == [call : SUBSET Calls, todo : SUBSET Prepared, base : SUBSET Row, open : BOOLEAN]

Types ==
    /\ db \in Connection
    /\ job \in Jobs
    /\ pc \in [Threads -> {"body", "survey", "thrown"}]
    /\ frames \in [Threads -> 0 .. MaxFrames]
    /\ plan \in [Threads -> SUBSET Ids]

\* The Transaction object, SQLite's transaction and the depth go together.
Balanced(d) ==
    /\ d.depth = 0 => d.inTxn = FALSE /\ d.handle = FALSE /\ d.work = d.disk
    /\ d.depth > 0 => d.inTxn = TRUE /\ d.handle = TRUE

\* The depth counts no more than the open frames and the call under way; it
\* counts less after a rollback, which takes all frames off at once.
DepthCounted ==
    db.depth <= Cardinality(OpenFrames(frames)) + (IF job = NoJob THEN 0 ELSE 1)

\* A call under way is inside its own transaction or a joined one.
JobCounted ==
    job # NoJob => /\ db.depth > 0
                   /\ job.open <=> db.depth > 1
                   /\ ~job.open => job.base = db.disk

IInv == Types /\ Balanced(db) /\ DepthCounted /\ JobCounted

-----------------------------------------------------------------------------
(***************************************************************************)
(* The frames                                                              *)
(***************************************************************************)
\* There are finitely many frames, and no more than the bound allows.
LEMMA FramesFinite ==
    ASSUME NEW f
    PROVE  /\ IsFiniteSet(OpenFrames(f))
           /\ Cardinality(OpenFrames(f)) \in Nat
           /\ Cardinality(OpenFrames(f)) <= MaxFrames * Cardinality(Threads)
<1> DEFINE all == Threads \X (1 .. MaxFrames)
<1>1. IsFiniteSet(1 .. MaxFrames) /\ Cardinality(1 .. MaxFrames) = MaxFrames
  BY FS_Interval, MetadataAssumption
<1>2. IsFiniteSet(all) /\ Cardinality(all) = Cardinality(Threads) * MaxFrames
  BY <1>1, FS_Product, MetadataAssumption
<1>3. Cardinality(Threads) \in Nat
  BY FS_CardinalityType, MetadataAssumption
<1>4. OpenFrames(f) \in SUBSET all
  BY DEF OpenFrames
<1>5. IsFiniteSet(OpenFrames(f)) /\ Cardinality(OpenFrames(f)) <= Cardinality(all)
  BY <1>2, <1>4, FS_Subset
<1>6. Cardinality(OpenFrames(f)) \in Nat
  BY <1>5, FS_CardinalityType
<1> QED
  BY <1>2, <1>3, <1>5, <1>6, MetadataAssumption

\* Opening a frame adds one, closing one takes one off.
LEMMA FrameAdded ==
    ASSUME NEW f \in [Threads -> 0 .. MaxFrames], NEW t \in Threads, f[t] < MaxFrames
    PROVE  Cardinality(OpenFrames([f EXCEPT ![t] = @ + 1])) = Cardinality(OpenFrames(f)) + 1
<1> DEFINE new == <<t, f[t] + 1>>
<1>1. OpenFrames([f EXCEPT ![t] = @ + 1]) = OpenFrames(f) \cup {new}
  BY MetadataAssumption DEF OpenFrames
<1>2. new \notin OpenFrames(f)
  BY MetadataAssumption DEF OpenFrames
<1> QED
  BY <1>1, <1>2, FramesFinite, FS_AddElement

LEMMA FrameRemoved ==
    ASSUME NEW f \in [Threads -> 0 .. MaxFrames], NEW t \in Threads, f[t] > 0
    PROVE  Cardinality(OpenFrames([f EXCEPT ![t] = @ - 1])) = Cardinality(OpenFrames(f)) - 1
<1> DEFINE old == <<t, f[t]>>
<1>1. OpenFrames([f EXCEPT ![t] = @ - 1]) = OpenFrames(f) \ {old}
  BY MetadataAssumption DEF OpenFrames
<1>2. old \in OpenFrames(f)
  BY MetadataAssumption DEF OpenFrames
<1> QED
  BY <1>1, <1>2, FramesFinite, FS_RemoveElement

LEMMA FramesNone ==
    ASSUME NEW f \in [Threads -> 0 .. MaxFrames], \A t \in Threads : f[t] = 0
    PROVE  Cardinality(OpenFrames(f)) = 0
<1>1. OpenFrames(f) = {}
  BY DEF OpenFrames
<1> QED
  BY <1>1, FS_EmptySet

-----------------------------------------------------------------------------
(***************************************************************************)
(* The connection                                                          *)
(***************************************************************************)
\* begin_locked keeps the three in step and changes no rows.
LEMMA BeginWorks ==
    ASSUME TransactionsWork, NEW d \in Connection, Balanced(d), NEW o \in BeginOutcomes(d)
    PROVE  /\ o.ok
           /\ o.db \in Connection
           /\ Balanced(o.db)
           /\ o.db.depth = d.depth + 1
           /\ o.db.disk = d.disk
           /\ o.db.work = d.work
           /\ o.db.inTxn = TRUE
<1>1. o = [db |-> Begun(d), ok |-> TRUE]
  BY DEF BeginOutcomes, TransactionsWork
<1>2. CASE d.depth > 0
  <2>1. Begun(d) = [d EXCEPT !.depth = @ + 1]
    BY <1>2 DEF Begun
  <2>2. Begun(d) \in Connection
    BY <2>1 DEF Connection
  <2>3. /\ Begun(d).depth = d.depth + 1
        /\ Begun(d).disk = d.disk
        /\ Begun(d).work = d.work
        /\ Begun(d).inTxn = d.inTxn
        /\ Begun(d).handle = d.handle
    BY <2>1 DEF Connection
  <2>4. d.inTxn = TRUE /\ d.handle = TRUE /\ d.depth \in Nat
    BY <1>2 DEF Balanced, Connection
  <2> QED
    BY <1>1, <2>2, <2>3, <2>4 DEF Balanced
<1>3. CASE d.depth = 0
  <2>1. ~(d.depth > 0)
    BY <1>3
  <2>2. d.handle = FALSE
    BY <1>3, Zenon DEF Balanced
  <2>3. (~d.handle) = TRUE
    BY <2>2
  <2>4. Begun(d) = [d EXCEPT !.depth = 1, !.handle = TRUE, !.inTxn = TRUE]
    BY <2>1, <2>3, Zenon DEF Begun
  <2>5. Begun(d) \in Connection
    <3>1. [d EXCEPT !.depth = 1, !.handle = TRUE, !.inTxn = TRUE] \in Connection
      BY DEF Connection
    <3> QED
      BY <2>4, <3>1
  <2>6. /\ Begun(d).depth = 1
        /\ Begun(d).disk = d.disk
        /\ Begun(d).work = d.work
        /\ Begun(d).inTxn = TRUE
        /\ Begun(d).handle = TRUE
    BY <2>4 DEF Connection
  <2> QED
    BY <1>1, <1>3, <2>5, <2>6 DEF Balanced
<1>4. d.depth > 0 \/ d.depth = 0
  BY DEF Connection
<1> QED
  BY <1>2, <1>3, <1>4, Zenon

\* commit_locked makes the rows durable when it counts the last frame off,
\* changes nothing while others are open, and returns when none is.
LEMMA CommitWorks ==
    ASSUME TransactionsWork, NEW d \in Connection, Balanced(d), NEW o \in CommitOutcomes(d)
    PROVE  /\ o.ok
           /\ o.db \in Connection
           /\ Balanced(o.db)
           /\ o.db.depth = IF d.depth > 0 THEN d.depth - 1 ELSE 0
           /\ o.db.disk = IF d.depth = 1 THEN d.work ELSE d.disk
           /\ o.db.work = d.work
<1>1. d.depth = 1 => d.inTxn
  BY DEF Balanced
<1>2. o = [db |-> Committed(d), ok |-> TRUE]
  BY <1>1 DEF CommitOutcomes, TransactionsWork
<1>3. CASE d.depth = 1
  <2>1. Committed(d) = [d EXCEPT !.depth = 0, !.handle = FALSE, !.inTxn = FALSE,
                                 !.disk = d.work]
    BY <1>3 DEF Committed
  <2>2. Committed(d) \in Connection
    <3>1. [d EXCEPT !.depth = 0, !.handle = FALSE, !.inTxn = FALSE, !.disk = d.work]
              \in Connection
      BY DEF Connection
    <3> QED
      BY <2>1, <3>1
  <2>3. /\ Committed(d).depth = 0
        /\ Committed(d).disk = d.work
        /\ Committed(d).work = d.work
        /\ Committed(d).inTxn = FALSE
        /\ Committed(d).handle = FALSE
    BY <2>1 DEF Connection
  <2> QED
    BY <1>2, <1>3, <2>2, <2>3 DEF Balanced
<1>4. CASE d.depth # 1
  <2> DEFINE n == IF d.depth > 0 THEN d.depth - 1 ELSE 0
  <2>1. Committed(d) = [d EXCEPT !.depth = n]
    BY <1>4 DEF Committed
  <2>2. n \in Nat /\ (n = 0 <=> d.depth = 0) /\ d.depth \in Nat
    BY <1>4 DEF Connection
  <2> HIDE DEF n
  <2>3. Committed(d) \in Connection
    <3>1. [d EXCEPT !.depth = n] \in Connection
      BY <2>2 DEF Connection
    <3> QED
      BY <2>1, <3>1
  <2>4. /\ Committed(d).depth = n
        /\ Committed(d).disk = d.disk
        /\ Committed(d).work = d.work
        /\ Committed(d).inTxn = d.inTxn
        /\ Committed(d).handle = d.handle
    BY <2>1 DEF Connection
  <2>5. Balanced(Committed(d))
    BY <2>2, <2>4 DEF Balanced
  <2> QED
    BY <1>2, <1>4, <2>3, <2>4, <2>5 DEF n
<1> QED
  BY <1>3, <1>4

\* rollback_locked leaves no transaction.
LEMMA RollbackWorks ==
    ASSUME NEW d \in Connection
    PROVE  /\ RolledBack(d) \in Connection
           /\ Balanced(RolledBack(d))
           /\ RolledBack(d).depth = 0
           /\ RolledBack(d).disk = d.disk
           /\ RolledBack(d).work = d.disk
<1>1. RolledBack(d) \in Connection
  BY DEF RolledBack, Connection
<1>2. /\ RolledBack(d).depth = 0
      /\ RolledBack(d).disk = d.disk
      /\ RolledBack(d).work = d.disk
      /\ RolledBack(d).inTxn = FALSE
      /\ RolledBack(d).handle = FALSE
  BY DEF RolledBack, Connection
<1> QED
  BY <1>1, <1>2 DEF Balanced

\* A statement leaves rows, and touches the file only outside transactions.
LEMMA ExecutionWorks ==
    ASSUME NEW d \in Connection, Balanced(d), NEW s \in Prepared
    PROVE  /\ Executed(d, s) \in Connection
           /\ Balanced(Executed(d, s))
           /\ Executed(d, s).depth = d.depth
           /\ Executed(d, s).inTxn = d.inTxn
           /\ Executed(d, s).work = Effect(d.work, s)
           /\ Executed(d, s).disk = IF d.inTxn THEN d.disk ELSE Effect(d.work, s)
<1>1. Effect(d.work, s) \subseteq Row
  BY DEF Effect, Without, Connection, Prepared, Statement
<1> QED
  BY <1>1 DEF Executed, Connection, Balanced

\* A failed statement changes no rows.
LEMMA FailureWorks ==
    ASSUME TransactionsWork, NEW d \in Connection, Balanced(d), NEW s \in Prepared,
           NEW f \in FailedStates(d, s)
    PROVE  /\ f \in Connection
           /\ Balanced(f)
           /\ f.depth = d.depth
           /\ f.inTxn = d.inTxn
           /\ f.work = d.work
           /\ f.disk = d.disk
<1>1. f = d \/ f = [d EXCEPT !.stuck = @ \cup {s.stmt}]
  BY DEF FailedStates, TransactionsWork
<1> QED
  BY <1>1 DEF Connection, Balanced, Prepared

\* The statements that callers bind.
LEMMA StatementsTyped ==
    ASSUME NEW id \in Ids
    PROVE  /\ Delete(id) \in Prepared
           /\ \A meta \in Metas : \A e \in meta :
                  /\ RowOf(id, e) \in [id : {id}, key : Keys, value : Values]
                  /\ Insert(RowOf(id, e)) \in Prepared
                  /\ Insert(RowOf(id, e)).row = RowOf(id, e)
                  /\ Insert(RowOf(id, e)).stmt = "insert_value"
  BY MetadataAssumption
     DEF Delete, Insert, RowOf, Stored, Prepared, Statement, Row, NoRow

LEMMA ConfigTyped ==
    ASSUME NEW meta \in Metas, NEW e \in meta
    PROVE  /\ RowOf(Config, e) \in Row
           /\ [stmt |-> "set_config_value", id |-> Config, row |-> RowOf(Config, e)]
                  \in Prepared
<1>1. RowOf(Config, e) \in Row
  BY MetadataAssumption DEF RowOf, Stored, Row
<1> QED
  BY <1>1 DEF Prepared, Statement

-----------------------------------------------------------------------------
(***************************************************************************)
(* The inductive invariant, action by action                               *)
(***************************************************************************)
LEMMA InitHolds ==
    ASSUME Init
    PROVE  IInv
<1>1. db = [disk |-> {}, work |-> {}, inTxn |-> FALSE, depth |-> 0, handle |-> FALSE,
            stuck |-> {}]
  BY DEF Init, Opened
<1>2. db \in Connection /\ Balanced(db) /\ db.depth = 0
  BY <1>1 DEF Connection, Balanced
<1>3. Types
  BY <1>2, MetadataAssumption DEF Init, Types, Jobs, NoJob
<1>4. Cardinality(OpenFrames(frames)) \in Nat
  BY FramesFinite
<1> QED
  BY <1>2, <1>3, <1>4 DEF IInv, DepthCounted, JobCounted, Init

LEMMA AfterTyped ==
    ASSUME Types, NEW t \in Threads, NEW ok, NEW n, After(t, ok, n)
    PROVE  pc' \in [Threads -> {"body", "survey", "thrown"}]
  BY DEF Types, After

LEMMA BeginKeeps ==
    ASSUME TransactionsWork, IInv, NEW t \in Threads, Begin(t)
    PROVE  IInv'
<1>1. PICK o \in BeginOutcomes(db) :
          /\ db' = o.db
          /\ frames' = [frames EXCEPT ![t] = IF o.ok THEN @ + 1 ELSE @]
          /\ After(t, o.ok, frames[t])
  BY DEF Begin
<1>2. /\ o.ok
      /\ db' \in Connection /\ Balanced(db')
      /\ db'.depth = db.depth + 1
  BY <1>1, BeginWorks DEF IInv, Types
<1>3. frames \in [Threads -> 0 .. MaxFrames] /\ frames[t] < MaxFrames
  BY DEF Begin, IInv, Types
<1>4. frames' = [frames EXCEPT ![t] = @ + 1]
  BY <1>1, <1>2
<1>5. Cardinality(OpenFrames(frames')) = Cardinality(OpenFrames(frames)) + 1
  BY <1>3, <1>4, FrameAdded
<1>6. frames' \in [Threads -> 0 .. MaxFrames]
  BY <1>3, <1>4, MetadataAssumption
<1>7. Types'
  BY <1>1, <1>2, <1>6, AfterTyped DEF Begin, IInv, Types
<1>8. DepthCounted'
  <2>1. db.depth <= Cardinality(OpenFrames(frames)) + 0 /\ job' = NoJob
    BY DEF Begin, Ready, IInv, DepthCounted
  <2>2. db.depth \in Nat /\ Cardinality(OpenFrames(frames)) \in Nat
    BY FramesFinite DEF IInv, Types, Connection
  <2> QED
    BY <1>2, <1>5, <2>1, <2>2 DEF DepthCounted
<1>9. JobCounted'
  BY DEF Begin, Ready, JobCounted
<1> QED
  BY <1>2, <1>7, <1>8, <1>9 DEF IInv

LEMMA CommitKeeps ==
    ASSUME TransactionsWork, IInv, NEW t \in Threads, Commit(t)
    PROVE  IInv'
<1>1. PICK o \in CommitOutcomes(db) : db' = o.db /\ After(t, o.ok, frames[t] - 1)
  BY DEF Commit
<1>2. /\ db' \in Connection /\ Balanced(db')
      /\ db'.depth = IF db.depth > 0 THEN db.depth - 1 ELSE 0
  BY <1>1, CommitWorks DEF IInv, Types
<1>3. /\ frames \in [Threads -> 0 .. MaxFrames]
      /\ frames[t] > 0
      /\ frames' = [frames EXCEPT ![t] = @ - 1]
  BY DEF Commit, IInv, Types
<1>4. Cardinality(OpenFrames(frames')) = Cardinality(OpenFrames(frames)) - 1
  BY <1>3, FrameRemoved
<1>5. frames' \in [Threads -> 0 .. MaxFrames]
  BY <1>3, MetadataAssumption
<1>6. Types'
  BY <1>1, <1>2, <1>5, AfterTyped DEF Commit, IInv, Types
<1>7. DepthCounted'
  <2>1. db.depth <= Cardinality(OpenFrames(frames)) + 0 /\ job' = NoJob
    BY DEF Commit, Ready, IInv, DepthCounted
  <2>2. /\ db.depth \in Nat
        /\ Cardinality(OpenFrames(frames)) \in Nat
        /\ Cardinality(OpenFrames(frames')) \in Nat
    BY FramesFinite DEF IInv, Types, Connection
  <2> QED
    BY <1>2, <1>4, <2>1, <2>2 DEF DepthCounted
<1>8. JobCounted'
  BY DEF Commit, Ready, JobCounted
<1> QED
  BY <1>2, <1>6, <1>7, <1>8 DEF IInv

LEMMA UnwindKeeps ==
    ASSUME IInv, NEW t \in Threads, Unwind(t)
    PROVE  IInv'
<1>1. db' \in Connection /\ Balanced(db') /\ db'.depth = 0
  BY RollbackWorks DEF Unwind, IInv, Types
<1>2. Types'
  <2>1. frames' \in [Threads -> 0 .. MaxFrames]
    BY MetadataAssumption DEF Unwind, IInv, Types
  <2> QED
    BY <1>1, <2>1, AfterTyped DEF Unwind, IInv, Types
<1>3. Cardinality(OpenFrames(frames')) \in Nat
  BY FramesFinite
<1>4. job' = NoJob
  BY DEF Unwind
<1> QED
  BY <1>1, <1>2, <1>3, <1>4 DEF IInv, DepthCounted, JobCounted

LEMMA SwallowKeeps ==
    ASSUME IInv, NEW t \in Threads, Swallow(t)
    PROVE  IInv'
  BY DEF Swallow, IInv, Types, DepthCounted, JobCounted

LEMMA StartJobKeeps ==
    ASSUME TransactionsWork, IInv, NEW call \in Calls, NEW todo \in SUBSET Prepared,
           job = NoJob, StartJob(call, todo), plan' \in [Threads -> SUBSET Ids]
    PROVE  /\ IInv'
           /\ job' = [call |-> {call}, todo |-> todo, base |-> db.work, open |-> db.inTxn]
           /\ db'.disk = db.disk
           /\ db'.work = db.work
           /\ job' # NoJob
<1>1. PICK o \in BeginOutcomes(db) :
          /\ db' = o.db
          /\ job' = IF o.ok THEN [call |-> {call}, todo |-> todo, base |-> db.work,
                                  open |-> db.inTxn]
                    ELSE NoJob
          /\ After(call.by, o.ok, frames[call.by])
  BY DEF StartJob
<1>2. /\ o.ok
      /\ db' \in Connection /\ Balanced(db')
      /\ db'.depth = db.depth + 1
      /\ db'.disk = db.disk /\ db'.work = db.work
  BY <1>1, BeginWorks DEF IInv, Types
<1>3. job' = [call |-> {call}, todo |-> todo, base |-> db.work, open |-> db.inTxn]
  BY <1>1, <1>2
<1>4. job'.call = {call} /\ job'.base = db.work /\ job'.open = db.inTxn
  BY <1>3
<1>5. job' # NoJob
  BY <1>4 DEF NoJob
<1>6. db \in Connection /\ Balanced(db) /\ db.depth \in Nat
  BY DEF IInv, Types, Connection
<1>7. job' \in Jobs
  <2>1. db.work \in SUBSET Row /\ db.inTxn \in BOOLEAN
    BY <1>6 DEF Connection
  <2>2. {call} \in SUBSET Calls /\ call.by \in Threads
    BY DEF Calls
  <2>3. [call |-> {call}, todo |-> todo, base |-> db.work, open |-> db.inTxn] \in Jobs
    BY <2>1, <2>2, Zenon DEF Jobs
  <2> QED
    BY <1>3, <2>3
<1>8. Types'
  BY <1>1, <1>2, <1>7, AfterTyped DEF StartJob, IInv, Types, Calls
<1>9. DepthCounted'
  <2>1. db.depth <= Cardinality(OpenFrames(frames)) + 0 /\ frames' = frames
    BY DEF StartJob, IInv, DepthCounted
  <2>2. Cardinality(OpenFrames(frames)) \in Nat
    BY FramesFinite
  <2> QED
    BY <1>2, <1>5, <1>6, <2>1, <2>2 DEF DepthCounted
<1>10. JobCounted'
  BY <1>2, <1>4, <1>6 DEF JobCounted, Balanced
<1> QED
  BY <1>2, <1>3, <1>5, <1>8, <1>9, <1>10 DEF IInv

LEMMA SetKeeps ==
    ASSUME TransactionsWork, IInv, NEW t \in Threads, NEW id \in Ids, NEW meta \in Metas,
           Set(t, id, meta)
    PROVE  IInv'
<1> DEFINE todo == {Delete(id)} \cup {Insert(RowOf(id, e)) : e \in meta}
<1>1. todo \in SUBSET Prepared
  BY StatementsTyped
<1>2. job = NoJob /\ StartJob(Request(t, {id}, meta), todo) /\ plan' \in [Threads -> SUBSET Ids]
  BY DEF Set, Ready, IInv, Types
<1>3. Request(t, {id}, meta) \in Calls
  BY DEF Request, Calls
<1> QED
  BY <1>1, <1>2, <1>3, StartJobKeeps

LEMMA SurveyKeeps ==
    ASSUME IInv, NEW t \in Threads, NEW live \in SUBSET Ids, Survey(t, live)
    PROVE  IInv'
<1> DEFINE orphans == {r.id : r \in db.work} \ (live \cup {Config})
<1>1. db.work \in SUBSET Row
  BY DEF IInv, Types, Connection
<1>2. orphans \in SUBSET Ids
  BY <1>1 DEF Row
<1>3. plan' = [plan EXCEPT ![t] = orphans]
  BY DEF Survey
<1>4. plan' \in [Threads -> SUBSET Ids]
  BY <1>2, <1>3 DEF IInv, Types
<1> QED
  BY <1>4 DEF Survey, IInv, Types, DepthCounted, JobCounted

LEMMA RemoveOrphansKeeps ==
    ASSUME TransactionsWork, IInv, NEW t \in Threads, RemoveOrphans(t)
    PROVE  IInv'
<1> DEFINE todo == {Delete(id) : id \in plan[t]}
<1>1. plan[t] \in SUBSET Ids
  BY DEF IInv, Types
<1>2. todo \in SUBSET Prepared
  BY <1>1, StatementsTyped
<1>3. job = NoJob /\ StartJob(Request(t, plan[t], {}), todo) /\ plan' \in [Threads -> SUBSET Ids]
  BY DEF RemoveOrphans, IInv, Types
<1>4. Request(t, plan[t], {}) \in Calls
  BY <1>1 DEF Request, Calls
<1> QED
  BY <1>2, <1>3, <1>4, StartJobKeeps

LEMMA JobStepKeeps ==
    ASSUME IInv, NEW t \in Threads, JobStep(t)
    PROVE  IInv'
<1>1. PICK s \in job.todo : db' = Executed(db, s) /\ job' = [job EXCEPT !.todo = @ \ {s}]
  BY DEF JobStep
<1>2. job \in Jobs /\ Calling(t) /\ job # NoJob
  BY DEF IInv, Types, JobStep, Calling, NoJob
<1>3. s \in Prepared
  BY <1>2 DEF Jobs
<1>4. /\ db' \in Connection /\ Balanced(db')
      /\ db'.depth = db.depth
      /\ db'.disk = IF db.inTxn THEN db.disk ELSE Effect(db.work, s)
  BY <1>1, <1>3, ExecutionWorks DEF IInv, Types
<1>5. job' \in Jobs /\ job'.call = job.call /\ job'.open = job.open /\ job'.base = job.base
  BY <1>1, <1>2 DEF Jobs
<1>6. job' # NoJob
  BY <1>2, <1>5 DEF Calling, NoJob
<1>7. db.inTxn = TRUE
  BY <1>2 DEF IInv, Balanced, JobCounted
<1>8. Types'
  BY <1>4, <1>5 DEF JobStep, IInv, Types
<1>9. DepthCounted'
  BY <1>2, <1>4, <1>6 DEF JobStep, IInv, DepthCounted
<1>10. JobCounted'
  BY <1>2, <1>4, <1>5, <1>7 DEF IInv, JobCounted
<1> QED
  BY <1>4, <1>8, <1>9, <1>10 DEF IInv

LEMMA JobFailsKeeps ==
    ASSUME TransactionsWork, IInv, NEW t \in Threads, JobFails(t)
    PROVE  IInv' /\ db'.disk = db.disk /\ db'.work = db.disk /\ job' = NoJob
<1>1. PICK s \in job.todo : \E d \in FailedStates(db, s) : db' = RolledBack(d)
  BY DEF JobFails
<1>2. PICK d \in FailedStates(db, s) : db' = RolledBack(d)
  BY <1>1
<1>3. s \in Prepared
  BY DEF IInv, Types, Jobs
<1>4. d \in Connection /\ d.disk = db.disk
  BY <1>3, FailureWorks DEF IInv, Types
<1>5. /\ db' \in Connection /\ Balanced(db')
      /\ db'.depth = 0 /\ db'.disk = db.disk /\ db'.work = db.disk
  BY <1>2, <1>4, RollbackWorks
<1>6. job' = NoJob /\ NoJob \in Jobs
  BY DEF JobFails, NoJob, Jobs
<1>7. Types'
  BY <1>5, <1>6, AfterTyped DEF JobFails, IInv, Types
<1>8. Cardinality(OpenFrames(frames')) \in Nat
  BY FramesFinite
<1> QED
  BY <1>5, <1>6, <1>7, <1>8 DEF IInv, DepthCounted, JobCounted

LEMMA JobEndsKeeps ==
    ASSUME TransactionsWork, IInv, NEW t \in Threads, JobEnds(t)
    PROVE  /\ IInv'
           /\ job' = NoJob
           /\ db'.work = db.work
           /\ db'.disk = IF db.depth = 1 THEN db.work ELSE db.disk
           /\ db'.depth = db.depth - 1
<1>1. PICK o \in CommitOutcomes(db) : db' = o.db /\ After(t, o.ok, frames[t])
  BY DEF JobEnds
<1>2. job # NoJob
  BY DEF JobEnds, Calling, NoJob
<1>3. db.depth \in Nat /\ db.depth > 0
  BY <1>2 DEF IInv, Types, Connection, JobCounted
<1>4. /\ db' \in Connection /\ Balanced(db')
      /\ db'.depth = IF db.depth > 0 THEN db.depth - 1 ELSE 0
      /\ db'.work = db.work
      /\ db'.disk = IF db.depth = 1 THEN db.work ELSE db.disk
  BY <1>1, CommitWorks DEF IInv, Types
<1>5. job' = NoJob /\ NoJob \in Jobs
  BY DEF JobEnds, NoJob, Jobs
<1>6. Types'
  BY <1>1, <1>4, <1>5, AfterTyped DEF JobEnds, IInv, Types
<1>7. DepthCounted'
  <2>1. db.depth <= Cardinality(OpenFrames(frames)) + 1 /\ frames' = frames
    BY <1>2 DEF JobEnds, IInv, DepthCounted
  <2>2. Cardinality(OpenFrames(frames)) \in Nat
    BY FramesFinite
  <2> QED
    BY <1>3, <1>4, <1>5, <2>1, <2>2 DEF DepthCounted
<1> QED
  BY <1>3, <1>4, <1>5, <1>6, <1>7 DEF IInv, JobCounted

LEMMA RunKeeps ==
    ASSUME TransactionsWork, IInv, NEW t \in Threads, NEW s \in Prepared, Run(t, s)
    PROVE  IInv'
<1>1. db \in Connection /\ Balanced(db)
  BY DEF IInv, Types
<1>2. db' \in Connection /\ Balanced(db') /\ db'.depth = db.depth
  <2>1. CASE db' = Executed(db, s)
    BY <1>1, <2>1, ExecutionWorks
  <2>2. CASE db' \in FailedStates(db, s)
    BY <1>1, <2>2, FailureWorks
  <2> QED
    BY <2>1, <2>2 DEF Run
<1>3. job = NoJob
  BY DEF Run, Ready
<1>4. Types'
  BY <1>2, AfterTyped DEF Run, IInv, Types
<1> QED
  BY <1>2, <1>3, <1>4 DEF Run, IInv, DepthCounted, JobCounted

LEMMA RestartKeeps ==
    ASSUME IInv, Restart
    PROVE  IInv'
<1>1. db' = [disk |-> db.disk, work |-> db.disk, inTxn |-> FALSE, depth |-> 0,
             handle |-> FALSE, stuck |-> {}]
  BY DEF Restart, Opened
<1>2. db.disk \in SUBSET Row
  BY DEF IInv, Types, Connection
<1>3. db' \in Connection /\ Balanced(db') /\ db'.depth = 0
  BY <1>1, <1>2 DEF Connection, Balanced
<1>4. Types'
  BY <1>3, MetadataAssumption DEF Restart, Types, Jobs, NoJob
<1>5. Cardinality(OpenFrames(frames')) \in Nat
  BY FramesFinite
<1> QED
  BY <1>3, <1>4, <1>5 DEF Restart, IInv, DepthCounted, JobCounted

-----------------------------------------------------------------------------
\* Every action keeps the invariant.
LEMMA NextKeeps ==
    ASSUME TransactionsWork, IInv, [Next]_vars
    PROVE  IInv'
<1>1. CASE UNCHANGED vars
  BY <1>1 DEF vars, IInv, Types, DepthCounted, JobCounted
<1>2. ASSUME NEW t \in Threads, Begin(t) PROVE IInv'
  BY <1>2, BeginKeeps
<1>3. ASSUME NEW t \in Threads, Commit(t) PROVE IInv'
  BY <1>3, CommitKeeps
<1>4. ASSUME NEW t \in Threads, Unwind(t) PROVE IInv'
  BY <1>4, UnwindKeeps
<1>5. ASSUME NEW t \in Threads, Swallow(t) PROVE IInv'
  BY <1>5, SwallowKeeps
<1>6. ASSUME NEW t \in Threads, NEW id \in Ids, NEW meta \in Metas, Set(t, id, meta)
      PROVE  IInv'
  BY <1>6, SetKeeps
<1>7. ASSUME NEW t \in Threads, NEW live \in SUBSET Ids, Survey(t, live) PROVE IInv'
  BY <1>7, SurveyKeeps
<1>8. ASSUME NEW t \in Threads, RemoveOrphans(t) PROVE IInv'
  BY <1>8, RemoveOrphansKeeps
<1>9. ASSUME NEW t \in Threads, JobStep(t) PROVE IInv'
  BY <1>9, JobStepKeeps
<1>10. ASSUME NEW t \in Threads, JobFails(t) PROVE IInv'
  BY <1>10, JobFailsKeeps
<1>11. ASSUME NEW t \in Threads, JobEnds(t) PROVE IInv'
  BY <1>11, JobEndsKeeps
<1>12. ASSUME NEW t \in Threads, NEW id \in Ids, NEW meta \in Metas, NEW e \in meta,
              SetKey(t, id, e)
       PROVE  IInv'
  BY <1>12, StatementsTyped, RunKeeps DEF SetKey
<1>13. ASSUME NEW t \in Threads, NEW meta \in Metas, NEW e \in meta, SetConfig(t, e)
       PROVE  IInv'
  <2>1. /\ RowOf(Config, e) \in Row
        /\ [stmt |-> "set_config_value", id |-> Config, row |-> RowOf(Config, e)] \in Prepared
    BY ConfigTyped
  <2> QED
    BY <1>13, <2>1, RunKeeps DEF SetConfig
<1>14. ASSUME NEW t \in Threads, NEW id \in Ids, Remove(t, id) PROVE IInv'
  BY <1>14, StatementsTyped, RunKeeps DEF Remove
<1>15. ASSUME NEW t \in Threads, NEW row \in Row, RemoveKey(t, row) PROVE IInv'
  <2>1. [stmt |-> "delete_key", id |-> row.id, row |-> row] \in Prepared
    BY DEF Prepared, Statement, Row
  <2> QED
    BY <1>15, <2>1, RunKeeps DEF RemoveKey
<1>16. CASE Close
  BY <1>16, RestartKeeps DEF Close
<1>17. CASE Crash
  BY <1>17, RestartKeeps DEF Crash
<1> QED
  BY <1>1, <1>2, <1>3, <1>4, <1>5, <1>6, <1>7, <1>8, <1>9, <1>10, <1>11, <1>12,
     <1>13, <1>14, <1>15, <1>16, <1>17 DEF Next

\* Hence the invariant holds in every behaviour.
LEMMA InvariantHolds ==
    ASSUME TransactionsWork
    PROVE  Spec => []IInv
<1>1. Init => IInv
  BY InitHolds
<1>2. IInv /\ [Next]_vars => IInv'
  BY NextKeeps
<1> QED
  BY <1>1, <1>2, PTL DEF Spec

\* The types, and the bound of the depth: no nesting of transactions, joined,
\* rolled back or swallowed, counts more frames than there can be.
THEOREM StoreTypeCorrectness ==
    ASSUME TransactionsWork
    PROVE  Spec => []TypeOK
<1>1. IInv => TypeOK
  <2> SUFFICES ASSUME IInv PROVE TypeOK
    OBVIOUS
  <2>1. db \in Connection /\ Types /\ DepthCounted
    BY DEF IInv, Types
  <2>2. /\ Cardinality(OpenFrames(frames)) \in Nat
        /\ Cardinality(OpenFrames(frames)) <= MaxFrames * Cardinality(Threads)
    BY FramesFinite
  <2>3. MaxFrames * Cardinality(Threads) \in Nat
    BY FS_CardinalityType, MetadataAssumption
  <2>4. db.depth \in 0 .. MaxFrames * Cardinality(Threads) + 1
    BY <2>1, <2>2, <2>3 DEF DepthCounted, Connection
  <2> QED
    BY <2>1, <2>4 DEF TypeOK, Types, Connection
<1> QED
  BY <1>1, InvariantHolds, PTL

\* begin_locked, commit_locked and rollback_locked balance: once nobody is
\* inside a call or a transaction, the depth is back at 0, SQLite has no open
\* transaction, and what callers see is on disk.
THEOREM NothingPending ==
    ASSUME TransactionsWork
    PROVE  Spec => []QuietMeansCommitted
<1>1. IInv => QuietMeansCommitted
  <2> SUFFICES ASSUME IInv, Quiet
               PROVE  db.depth = 0 /\ ~db.inTxn /\ ~db.handle /\ db.work = db.disk
    BY DEF QuietMeansCommitted
  <2>1. Cardinality(OpenFrames(frames)) = 0
    BY FramesNone DEF Quiet, IInv, Types
  <2>2. db.depth = 0
    BY <2>1 DEF Quiet, IInv, Types, DepthCounted, Connection
  <2> QED
    BY <2>2 DEF IInv, Balanced
<1> QED
  BY <1>1, InvariantHolds, PTL

-----------------------------------------------------------------------------
(***************************************************************************)
(* MetadataStore implements TransactionalRows, as long as BEGIN and COMMIT *)
(* do not fail and no error makes SQLite roll back by itself: for any      *)
(* number of threads, nested frames, ids, keys and values, and whatever    *)
(* statements fail, a call does what it was asked as a whole or nothing,   *)
(* and a transaction is durable when its last body returns.                *)
(***************************************************************************)
\* The primary key of the metadata table.
KeysUnique(rows) ==
    \A a, b \in rows : a.id = b.id /\ a.key = b.key => a = b

\* The rows of the metadata whose statements have been executed.
Inserted(id, meta) == {RowOf(id, e) : e \in {f \in meta : Insert(RowOf(id, f)) \notin job.todo}}

\* The call under way is a set of this id: either its deletion is to come, or
\* it has put the rows in the place of the old ones whose turn has come.
Replacing(id, meta) ==
    /\ job.todo \subseteq {Delete(id)} \cup {Insert(RowOf(id, e)) : e \in meta}
    /\ Delete(id) \in job.todo => /\ db.work = job.base
                                  /\ \A e \in meta : Insert(RowOf(id, e)) \in job.todo
    /\ Delete(id) \notin job.todo =>
           db.work = {r \in job.base : r.id # id} \cup Inserted(id, meta)

\* The call under way is a remove_orphans that has cleared some of its ids.
Clearing(ids) ==
    /\ job.todo \subseteq {Delete(id) : id \in ids}
    /\ db.work = {r \in job.base : r.id \in ids => Delete(r.id) \in job.todo}

\* The call under way is on its way to what it was asked to do.
Underway ==
    \/ \E t \in Threads, id \in Ids, meta \in Metas :
           job.call = {Request(t, {id}, meta)} /\ Replacing(id, meta)
    \/ \E t \in Threads, ids \in SUBSET Ids :
           job.call = {Request(t, ids, {})} /\ Clearing(ids)

JobMeans == job # NoJob => Underway

RInv ==
    /\ IInv
    /\ JobMeans
    /\ KeysUnique(db.disk)
    /\ KeysUnique(db.work)

\* Whether bodies run whose transaction has been undone.
Loose == db.depth # Cardinality(OpenFrames(frames)) + Cardinality(job.call)

\* What a step of the store is to its promise.
Simulates == [Abstract!Next]_(Abstract!vars)

\* The part of RInv' that IInv does not have.
Kept == JobMeans' /\ KeysUnique(db.disk)' /\ KeysUnique(db.work)'

-----------------------------------------------------------------------------
(***************************************************************************)
(* Bodies and calls, counted                                               *)
(***************************************************************************)
\* A body runs when a frame is open.
LEMMA RunningFrames ==
    ASSUME NEW f \in [Threads -> 0 .. MaxFrames]
    PROVE  Abstract!Running(f) <=> Cardinality(OpenFrames(f)) # 0
<1>1. ASSUME NEW t \in Threads, f[t] > 0 PROVE Cardinality(OpenFrames(f)) # 0
  <2>1. <<t, 1>> \in OpenFrames(f)
    BY <1>1, MetadataAssumption DEF OpenFrames
  <2> QED
    BY <2>1, FramesFinite, FS_EmptySet
<1>2. ASSUME \A t \in Threads : ~(f[t] > 0) PROVE Cardinality(OpenFrames(f)) = 0
  <2>1. \A t \in Threads : f[t] = 0
    BY <1>2, MetadataAssumption
  <2> QED
    BY <2>1, FramesNone
<1> QED
  BY <1>1, <1>2 DEF Abstract!Running

\* No call, or one.
LEMMA CallsCounted ==
    /\ NoJob.call = {} /\ Cardinality({}) = 0
    /\ \A call : Cardinality({call}) = 1
  BY FS_EmptySet, FS_Singleton DEF NoJob

\* What the promise is about while no call is under way.
LEMMA Idle ==
    ASSUME RInv, job = NoJob
    PROVE  /\ job.call = {}
           /\ Loose <=> db.depth # Cardinality(OpenFrames(frames))
           /\ db.depth \in Nat
           /\ Cardinality(OpenFrames(frames)) \in Nat
           /\ db.depth <= Cardinality(OpenFrames(frames))
<1>1. db.depth \in Nat /\ Cardinality(OpenFrames(frames)) \in Nat
  BY FramesFinite DEF RInv, IInv, Types, Connection
<1> QED
  BY <1>1, CallsCounted DEF Loose, RInv, IInv, DepthCounted

-----------------------------------------------------------------------------
(***************************************************************************)
(* Statements and keys                                                     *)
(***************************************************************************)
\* A statement keeps the keys unique.
LEMMA EffectUnique ==
    ASSUME NEW rows, KeysUnique(rows), NEW s
    PROVE  KeysUnique(Effect(rows, s))
  BY DEF KeysUnique, Effect, Without

\* What a statement of a set does to the rows.
LEMMA InsertEffect ==
    ASSUME NEW rows, NEW row
    PROVE  Effect(rows, Insert(row)) = Without(rows, row) \cup {row}
  BY DEF Effect, Insert

LEMMA DeleteEffect ==
    ASSUME NEW rows, NEW id
    PROVE  Effect(rows, Delete(id)) = {r \in rows : r.id # id}
  BY DEF Effect, Delete

\* The two statements with an effect of their own; with unique keys,
\* delete_key takes off one row.
LEMMA SingleEffects ==
    ASSUME NEW rows, KeysUnique(rows), NEW row
    PROVE  /\ Effect(rows, [stmt |-> "set_config_value", id |-> Config, row |-> row])
                  = Without(rows, row) \cup {row}
           /\ row \in rows =>
                  Effect(rows, [stmt |-> "delete_key", id |-> row.id, row |-> row])
                      = rows \ {row}
<1>1. Effect(rows, [stmt |-> "delete_key", id |-> row.id, row |-> row])
          = Without(rows, row)
  BY DEF Effect
<1>2. row \in rows => Without(rows, row) = rows \ {row}
  BY DEF Without, KeysUnique
<1>3. Effect(rows, [stmt |-> "set_config_value", id |-> Config, row |-> row])
          = Without(rows, row) \cup {row}
  BY DEF Effect
<1> QED
  BY <1>1, <1>2, <1>3

-----------------------------------------------------------------------------
(***************************************************************************)
(* Bodies                                                                  *)
(***************************************************************************)
LEMMA BeginSimulates ==
    ASSUME TransactionsWork, RInv, NEW t \in Threads, Begin(t)
    PROVE  Simulates /\ Kept
<1>1. PICK o \in BeginOutcomes(db) :
          db' = o.db /\ frames' = [frames EXCEPT ![t] = IF o.ok THEN @ + 1 ELSE @]
  BY DEF Begin
<1>2. db \in Connection /\ Balanced(db) /\ frames \in [Threads -> 0 .. MaxFrames]
  BY DEF RInv, IInv, Types
<1>3. /\ o.ok /\ db'.disk = db.disk /\ db'.work = db.work /\ db'.inTxn = TRUE
      /\ db'.depth = db.depth + 1
  BY <1>1, <1>2, BeginWorks
<1>4. job = NoJob /\ job' = NoJob /\ plan' = plan /\ frames[t] < MaxFrames
  BY DEF Begin, Ready
<1>5. frames' = [frames EXCEPT ![t] = @ + 1]
  BY <1>1, <1>3
<1>6. Cardinality(OpenFrames(frames')) = Cardinality(OpenFrames(frames)) + 1
  BY <1>2, <1>4, <1>5, FrameAdded
<1>7. Loose' <=> Loose
  BY <1>3, <1>4, <1>6, Idle, CallsCounted DEF Loose
<1>8. Abstract!Enter(t)
  BY <1>3, <1>4, <1>5, <1>7, CallsCounted DEF Abstract!Enter, Loose
<1>9. Kept
  BY <1>3, <1>4 DEF Kept, RInv, JobMeans
<1> QED
  BY <1>8, <1>9 DEF Simulates, Abstract!Next

\* The last body makes its transaction durable; those before it, and those
\* whose transaction a failure has undone, change nothing.
LEMMA CommitSimulates ==
    ASSUME TransactionsWork, RInv, NEW t \in Threads, Commit(t)
    PROVE  Simulates /\ Kept
<1> DEFINE n == Cardinality(OpenFrames(frames))
<1>1. PICK o \in CommitOutcomes(db) : db' = o.db
  BY DEF Commit
<1>2. /\ db \in Connection /\ Balanced(db) /\ db.depth \in Nat
      /\ frames \in [Threads -> 0 .. MaxFrames]
  BY DEF RInv, IInv, Types, Connection
<1>3. /\ db' \in Connection /\ Balanced(db')
      /\ db'.depth = IF db.depth > 0 THEN db.depth - 1 ELSE 0
      /\ db'.disk = IF db.depth = 1 THEN db.work ELSE db.disk
      /\ db'.work = db.work
  BY <1>1, <1>2, CommitWorks
<1>4. /\ job = NoJob /\ job' = NoJob /\ plan' = plan /\ frames[t] > 0
      /\ frames' = [frames EXCEPT ![t] = @ - 1]
  BY DEF Commit, Ready
<1>5. Kept
  BY <1>3, <1>4 DEF Kept, RInv, JobMeans
<1>6. Cardinality(OpenFrames(frames')) = n - 1 /\ n \in Nat
  BY <1>2, <1>4, FrameRemoved, FramesFinite
<1>7. frames' \in [Threads -> 0 .. MaxFrames]
  BY <1>2, <1>4, MetadataAssumption
<1>8. Abstract!Running(frames') <=> n # 1
  BY <1>6, <1>7, RunningFrames
<1>9. db.depth <= n /\ (Loose <=> db.depth # n) /\ job.call = {} /\ job'.call = {}
  BY <1>4, Idle, CallsCounted
<1>10. Loose' <=> db'.depth # n - 1
  BY <1>3, <1>4, <1>6, CallsCounted DEF Loose
<1> HIDE DEF n
<1>11. n > 0
  <2>1. Abstract!Running(frames)
    BY <1>4 DEF Abstract!Running
  <2> QED
    BY <1>2, <1>6, <2>1, RunningFrames DEF n
<1>12. Loose' <=> Loose /\ Abstract!Running(frames')
  BY <1>2, <1>3, <1>6, <1>8, <1>9, <1>10, <1>11
<1>13. CASE db.depth = 1
  <2>1. db'.inTxn = FALSE /\ db'.disk = db'.work
    BY <1>2, <1>3, <1>13 DEF Balanced
  <2>2. Loose \/ ~Abstract!Running(frames')
    BY <1>8, <1>9, <1>13
  <2>3. Abstract!Return(t)
    BY <1>3, <1>4, <1>9, <1>12, <2>1, <2>2 DEF Abstract!Return, Loose
  <2> QED
    BY <1>5, <2>3 DEF Simulates, Abstract!Next
<1>14. CASE db.depth # 1
  <2>1. db'.inTxn = db.inTxn /\ db'.disk = db.disk
    <3>1. CASE db.depth = 0
      BY <1>2, <1>3, <3>1 DEF Balanced
    <3>2. CASE db.depth > 1
      <4>1. db'.depth = db.depth - 1 /\ db'.depth > 0 /\ db'.disk = db.disk
        BY <1>2, <1>3, <3>2
      <4>2. db.inTxn = TRUE /\ db'.inTxn = TRUE
        BY <1>2, <1>3, <3>2, <4>1 DEF Balanced
      <4> QED
        BY <4>1, <4>2
    <3> QED
      BY <1>2, <1>14, <3>1, <3>2
  <2>2. Loose \/ Abstract!Running(frames')
    BY <1>8, <1>9, <1>14
  <2>3. Abstract!Return(t)
    BY <1>3, <1>4, <1>9, <1>12, <2>1, <2>2 DEF Abstract!Return, Loose
  <2> QED
    BY <1>5, <2>3 DEF Simulates, Abstract!Next
<1> QED
  BY <1>13, <1>14

\* An exception takes every frame off: the transaction is undone, and the
\* other bodies go on without one.
LEMMA UnwindSimulates ==
    ASSUME RInv, NEW t \in Threads, Unwind(t)
    PROVE  Simulates /\ Kept
<1>1. /\ db' = RolledBack(db) /\ job = NoJob /\ job' = NoJob /\ plan' = plan
      /\ frames[t] > 0 /\ frames' = [frames EXCEPT ![t] = @ - 1]
  BY DEF Unwind
<1>2. /\ db' \in Connection /\ Balanced(db') /\ db'.depth = 0
      /\ db'.disk = db.disk /\ db'.work = db.disk
  BY <1>1, RollbackWorks DEF RInv, IInv, Types
<1>3. db'.inTxn = FALSE
  BY <1>2 DEF Balanced
<1>4. frames' \in [Threads -> 0 .. MaxFrames]
  BY <1>1, MetadataAssumption DEF RInv, IInv, Types
<1>5. Loose' <=> Abstract!Running(frames')
  <2>1. Cardinality(OpenFrames(frames')) \in Nat
    BY FramesFinite
  <2>2. Cardinality(job'.call) = 0 /\ db'.depth = 0
    BY <1>1, <1>2, CallsCounted
  <2> QED
    BY <1>4, <2>1, <2>2, RunningFrames DEF Loose
<1>6. Abstract!Throw(t)
  BY <1>1, <1>2, <1>3, <1>5, CallsCounted DEF Abstract!Throw, Abstract!Undo,
                                             Abstract!Running, Loose
<1> QED
  BY <1>1, <1>2, <1>6 DEF Simulates, Abstract!Next, Kept, RInv, JobMeans

\* Close and Crash: what was not committed is gone.
LEMMA RestartSimulates ==
    ASSUME RInv, Restart
    PROVE  Simulates /\ Kept
<1>1. /\ db'.disk = db.disk /\ db'.work = db.disk /\ db'.inTxn = FALSE /\ db'.depth = 0
      /\ job' = NoJob
      /\ frames' = [t \in Threads |-> 0] /\ plan' = [t \in Threads |-> {}]
  BY DEF Restart, Opened
<1>2. frames' \in [Threads -> 0 .. MaxFrames]
  BY <1>1, MetadataAssumption
<1>3. Loose' <=> Abstract!Running(frames')
  <2>1. Cardinality(OpenFrames(frames')) \in Nat
    BY FramesFinite
  <2> QED
    BY <1>1, <1>2, <2>1, RunningFrames, CallsCounted DEF Loose
<1>4. Abstract!Restart
  BY <1>1, <1>3, CallsCounted DEF Abstract!Restart, Abstract!Undo, Abstract!Running,
                                 Loose
<1> QED
  BY <1>1, <1>4 DEF Simulates, Abstract!Next, Kept, RInv, JobMeans

-----------------------------------------------------------------------------
(***************************************************************************)
(* Calls of several statements                                             *)
(***************************************************************************)
\* Until its last statement a call changes nothing of what its callers are
\* promised.
LEMMA StartSimulates ==
    ASSUME TransactionsWork, RInv, NEW call \in Calls, NEW todo \in SUBSET Prepared,
           job = NoJob, StartJob(call, todo), plan' \in [Threads -> SUBSET Ids]
    PROVE  /\ Abstract!Ask(call)
           /\ KeysUnique(db.disk)' /\ KeysUnique(db.work)'
           /\ job'.todo = todo /\ db'.work = job'.base /\ job'.call = {call}
<1>1. /\ job' = [call |-> {call}, todo |-> todo, base |-> db.work, open |-> db.inTxn]
      /\ db'.disk = db.disk /\ db'.work = db.work
      /\ job' # NoJob
  BY StartJobKeeps DEF RInv
<1>2. job'.todo = todo /\ job'.base = db.work /\ job'.open = db.inTxn /\ job'.call = {call}
  BY <1>1
<1>3. db'.depth = db.depth + 1
  <2>1. PICK o \in BeginOutcomes(db) : db' = o.db
    BY DEF StartJob
  <2> QED
    BY <2>1, BeginWorks DEF RInv, IInv, Types
<1>4. frames' = frames
  BY DEF StartJob
<1>5. Loose' <=> Loose
  <2>1. Cardinality(job'.call) = 1
    BY <1>2, CallsCounted
  <2>2. /\ Loose <=> db.depth # Cardinality(OpenFrames(frames))
        /\ db.depth \in Nat /\ Cardinality(OpenFrames(frames)) \in Nat
    BY Idle
  <2> QED
    BY <1>3, <1>4, <2>1, <2>2 DEF Loose
<1>6. Abstract!Ask(call)
  BY <1>1, <1>2, <1>4, <1>5, CallsCounted DEF Abstract!Ask, Loose
<1> QED
  BY <1>1, <1>2, <1>6 DEF RInv

LEMMA SetSimulates ==
    ASSUME TransactionsWork, RInv, NEW t \in Threads, NEW id \in Ids, NEW meta \in Metas,
           Set(t, id, meta)
    PROVE  Simulates /\ Kept
<1> DEFINE todo == {Delete(id)} \cup {Insert(RowOf(id, e)) : e \in meta}
           call == Request(t, {id}, meta)
<1>1. todo \in SUBSET Prepared
  BY StatementsTyped
<1>2. /\ job = NoJob /\ StartJob(call, todo) /\ plan' = plan
      /\ plan' \in [Threads -> SUBSET Ids]
  BY DEF Set, Ready, RInv, IInv, Types
<1>3. call \in Calls
  BY DEF Request, Calls
<1>4. /\ Abstract!Ask(call)
      /\ KeysUnique(db.disk)' /\ KeysUnique(db.work)'
      /\ job'.todo = todo /\ db'.work = job'.base /\ job'.call = {call}
  BY <1>1, <1>2, <1>3, StartSimulates
<1>5. Replacing(id, meta)'
  <2>1. Delete(id) \in todo /\ \A e \in meta : Insert(RowOf(id, e)) \in todo
    OBVIOUS
  <2> QED
    BY <1>4, <2>1 DEF Replacing
<1>6. Underway'
  <2> SUFFICES job'.call = {Request(t, {id}, meta)} /\ Replacing(id, meta)'
    BY DEF Underway
  <2> QED
    BY <1>4, <1>5
<1>7. Abstract!Set(t, id, meta)
  BY <1>2, <1>4 DEF Abstract!Set, Request
<1> QED
  BY <1>4, <1>6, <1>7 DEF Simulates, Abstract!Next, Kept, JobMeans

LEMMA RemoveOrphansSimulates ==
    ASSUME TransactionsWork, RInv, NEW t \in Threads, RemoveOrphans(t)
    PROVE  Simulates /\ Kept
<1>1. PICK ids \in SUBSET Ids : ids = plan[t]
  BY DEF RInv, IInv, Types
<1> DEFINE todo == {Delete(id) : id \in ids}
           call == Request(t, ids, {})
<1>2. todo \in SUBSET Prepared
  BY StatementsTyped
<1>3. /\ job = NoJob /\ StartJob(call, todo) /\ plan' = [plan EXCEPT ![t] = {}]
      /\ plan' \in [Threads -> SUBSET Ids]
  BY <1>1 DEF RemoveOrphans, RInv, IInv, Types
<1>4. call \in Calls
  BY DEF Request, Calls
<1>5. /\ Abstract!Ask(call)
      /\ KeysUnique(db.disk)' /\ KeysUnique(db.work)'
      /\ job'.todo = todo /\ db'.work = job'.base /\ job'.call = {call}
  BY <1>2, <1>3, <1>4, StartSimulates
<1>6. Clearing(ids)'
  <2>1. {r \in job'.base : r.id \in ids => Delete(r.id) \in todo} = job'.base
    OBVIOUS
  <2> QED
    BY <1>5, <2>1 DEF Clearing
<1>7. Underway'
  <2> SUFFICES job'.call = {Request(t, ids, {})} /\ Clearing(ids)'
    BY DEF Underway
  <2> QED
    BY <1>5, <1>6
<1>8. Abstract!RemoveOrphans(t)
  BY <1>1, <1>3, <1>5 DEF Abstract!RemoveOrphans, Request
<1> QED
  BY <1>5, <1>7, <1>8 DEF Simulates, Abstract!Next, Kept, JobMeans

\* The statement of a set that comes next keeps what the call means.
LEMMA ReplacingKeeps ==
    ASSUME NEW id \in Ids, NEW meta \in Metas, Replacing(id, meta),
           NEW s \in job.todo, IsNext(s),
           job \in Jobs, job' = [job EXCEPT !.todo = @ \ {s}],
           db'.work = Effect(db.work, s)
    PROVE  Replacing(id, meta)'
<1> DEFINE rest == {r \in job.base : r.id # id}
<1>1. job'.todo = job.todo \ {s} /\ job'.base = job.base
  BY DEF Jobs
<1>2. \A e \in meta : Insert(RowOf(id, e)) # Delete(id)
  BY DEF Insert, Delete
<1>3. CASE s = Delete(id)
  <2>1. db.work = job.base /\ \A e \in meta : Insert(RowOf(id, e)) \in job'.todo
    BY <1>1, <1>2, <1>3 DEF Replacing
  <2>2. Inserted(id, meta)' = {}
    BY <2>1 DEF Inserted
  <2>3. db'.work = rest
    BY <1>3, <2>1, DeleteEffect
  <2>4. Delete(id) \notin job'.todo
    BY <1>1, <1>3
  <2> QED
    BY <1>1, <2>2, <2>3, <2>4 DEF Replacing
<1>4. ASSUME NEW e \in meta, s = Insert(RowOf(id, e)) PROVE Replacing(id, meta)'
  <2> DEFINE row  == RowOf(id, e)
             done == Inserted(id, meta)
  <2>1. Delete(id) \notin job.todo /\ Delete(id) \notin job'.todo
    BY <1>1, <1>4 DEF IsNext, Insert, Delete
  <2>2. db.work = rest \cup done
    BY <2>1 DEF Replacing
  <2>3. db'.work = Without(rest \cup done, row) \cup {row}
    BY <1>4, <2>2, InsertEffect
  <2>4. row.id = id
    BY DEF RowOf
  <2>5. \A r \in rest : r.id # row.id
    BY <2>4
  <2>6. \A r \in done : r.key # row.key
    <3>1. TAKE r \in done
    <3>2. PICK f \in meta : r = RowOf(id, f) /\ Insert(RowOf(id, f)) \notin job.todo
      BY DEF Inserted
    <3>3. f # e
      BY <1>4, <3>2
    <3>4. f.key # e.key
      BY <3>3, MetadataAssumption
    <3> QED
      BY <3>2, <3>4 DEF RowOf
  <2>7. Without(rest \cup done, row) = rest \cup done
    BY <2>5, <2>6 DEF Without
  <2>8. Inserted(id, meta)' = done \cup {row}
    <3>1. \A f \in meta : Insert(RowOf(id, f)) = s => RowOf(id, f) = row
      BY <1>4 DEF Insert
    <3>2. \A f \in meta : Insert(RowOf(id, f)) \notin job'.todo
                              <=> Insert(RowOf(id, f)) \notin job.todo
                                  \/ Insert(RowOf(id, f)) = s
      BY <1>1
    <3> QED
      BY <1>4, <3>1, <3>2 DEF Inserted
  <2> HIDE DEF row, done
  <2>9. db'.work = rest \cup Inserted(id, meta)'
    BY <2>3, <2>7, <2>8
  <2> QED
    BY <1>1, <2>1, <2>9 DEF Replacing
<1> QED
  BY <1>3, <1>4 DEF Replacing

LEMMA ClearingKeeps ==
    ASSUME NEW ids, Clearing(ids), NEW s \in job.todo, job \in Jobs,
           job' = [job EXCEPT !.todo = @ \ {s}], db'.work = Effect(db.work, s)
    PROVE  Clearing(ids)'
<1>1. job'.todo = job.todo \ {s} /\ job'.base = job.base
  BY DEF Jobs
<1>2. PICK id \in ids : s = Delete(id)
  BY DEF Clearing
<1>3. \A r : Delete(r) = Delete(id) <=> r = id
  BY DEF Delete
<1>4. db'.work = {r \in job.base : (r.id \in ids => Delete(r.id) \in job.todo) /\ r.id # id}
  BY <1>2, DeleteEffect DEF Clearing
<1>5. db'.work = {r \in job.base : r.id \in ids => Delete(r.id) \in job'.todo}
  BY <1>1, <1>2, <1>3, <1>4
<1> QED
  BY <1>1, <1>5 DEF Clearing

LEMMA JobStepSimulates ==
    ASSUME RInv, NEW t \in Threads, JobStep(t)
    PROVE  Simulates /\ Kept
<1>1. PICK s \in job.todo : /\ IsNext(s)
                            /\ db' = Executed(db, s)
                            /\ job' = [job EXCEPT !.todo = @ \ {s}]
  BY DEF JobStep
<1>2. job \in Jobs /\ job # NoJob
  BY DEF RInv, IInv, Types, JobStep, Calling, NoJob
<1>3. s \in Prepared
  BY DEF RInv, IInv, Types, Jobs
<1>4. db.inTxn = TRUE
  BY <1>2 DEF RInv, IInv, Balanced, JobCounted
<1>5. db'.disk = db.disk /\ db'.work = Effect(db.work, s) /\ db'.depth = db.depth
  BY <1>1, <1>3, <1>4, ExecutionWorks DEF RInv, IInv, Types
<1>6. job'.base = job.base /\ job'.open = job.open /\ job'.call = job.call
  BY <1>1, <1>2 DEF Jobs
<1>7. job' # NoJob
  BY <1>6 DEF JobStep, Calling, NoJob
<1>8. Underway'
  <2>1. ASSUME NEW id \in Ids, NEW meta \in Metas, Replacing(id, meta)
        PROVE  Replacing(id, meta)'
    BY <1>1, <1>2, <1>5, <2>1, ReplacingKeeps
  <2>2. ASSUME NEW ids, Clearing(ids) PROVE Clearing(ids)'
    BY <1>1, <1>2, <1>5, <2>2, ClearingKeeps
  <2>3. CASE \E u \in Threads, id \in Ids, meta \in Metas :
                 job.call = {Request(u, {id}, meta)} /\ Replacing(id, meta)
    <3>1. PICK u \in Threads, id \in Ids, meta \in Metas :
              job.call = {Request(u, {id}, meta)} /\ Replacing(id, meta)
      BY <2>3
    <3> QED
      BY <1>6, <2>1, <3>1 DEF Underway
  <2>4. CASE \E u \in Threads, ids \in SUBSET Ids :
                 job.call = {Request(u, ids, {})} /\ Clearing(ids)
    <3>1. PICK u \in Threads, ids \in SUBSET Ids :
              job.call = {Request(u, ids, {})} /\ Clearing(ids)
      BY <2>4
    <3> QED
      BY <1>6, <2>2, <3>1 DEF Underway
  <2> QED
    BY <1>2, <2>3, <2>4 DEF RInv, JobMeans, Underway
<1>9. Simulates
  <2>1. plan' = plan /\ frames' = frames
    BY DEF JobStep
  <2> QED
    BY <1>2, <1>5, <1>6, <1>7, <2>1 DEF Simulates, Abstract!vars
<1> QED
  BY <1>5, <1>8, <1>9, EffectUnique DEF Kept, RInv, JobMeans

LEMMA JobFailsSimulates ==
    ASSUME TransactionsWork, RInv, NEW t \in Threads, JobFails(t)
    PROVE  Simulates /\ Kept
<1>1. /\ IInv'
      /\ db'.disk = db.disk /\ db'.work = db.disk /\ job' = NoJob
      /\ plan' = plan /\ frames' = frames
  BY JobFailsKeeps DEF RInv, JobFails
<1>2. PICK d : db' = RolledBack(d) /\ d \in Connection
  <2>1. PICK s \in job.todo : \E d \in FailedStates(db, s) : db' = RolledBack(d)
    BY DEF JobFails
  <2>2. s \in Prepared
    BY DEF RInv, IInv, Types, Jobs
  <2> QED
    BY <2>1, <2>2, FailureWorks DEF RInv, IInv, Types
<1>3. db'.inTxn = FALSE /\ db'.depth = 0
  BY <1>2 DEF RolledBack, Connection
<1>4. Loose' <=> Abstract!Running(frames')
  <2>1. Cardinality(OpenFrames(frames')) \in Nat /\ frames' \in [Threads -> 0 .. MaxFrames]
    BY <1>1, FramesFinite DEF RInv, IInv, Types
  <2> QED
    BY <1>1, <1>3, <2>1, RunningFrames, CallsCounted DEF Loose
<1>5. Abstract!Fail
  <2>1. job.call # {}
    BY DEF JobFails, Calling
  <2> QED
    BY <1>1, <1>3, <1>4, <2>1, CallsCounted DEF Abstract!Fail, Abstract!Undo,
                                                   Abstract!Running, Loose
<1> QED
  BY <1>1, <1>5 DEF Simulates, Abstract!Next, Kept, RInv, JobMeans

\* With no statement left, the rows are those the call was asked for.
LEMMA CallDone ==
    ASSUME job # NoJob, Underway, job.todo = {}
    PROVE  \E call \in job.call :
               /\ job.call = {call}
               /\ db.work = {r \in job.base : r.id \notin call.ids}
                            \cup UNION {Abstract!Given(id, call.meta) : id \in call.ids}
<1>1. ASSUME NEW t \in Threads, NEW id \in Ids, NEW meta \in Metas,
             job.call = {Request(t, {id}, meta)}, Replacing(id, meta)
      PROVE  \E call \in job.call :
               /\ job.call = {call}
               /\ db.work = {r \in job.base : r.id \notin call.ids}
                            \cup UNION {Abstract!Given(i, call.meta) : i \in call.ids}
  <2> DEFINE call == Request(t, {id}, meta)
  <2>1. call.ids = {id} /\ call.meta = meta
    BY DEF Request
  <2>2. db.work = {r \in job.base : r.id # id} \cup Inserted(id, meta)
    BY <1>1 DEF Replacing
  <2>3. Inserted(id, meta) = Abstract!Given(id, meta)
    BY DEF Inserted, Abstract!Given, RowOf, Stored
  <2>4. UNION {Abstract!Given(i, meta) : i \in {id}} = Abstract!Given(id, meta)
    OBVIOUS
  <2>5. db.work = {r \in job.base : r.id \notin call.ids}
                  \cup UNION {Abstract!Given(i, call.meta) : i \in call.ids}
    BY <2>1, <2>2, <2>3, <2>4
  <2> HIDE DEF call
  <2> QED
    BY <1>1, <2>5 DEF call
<1>2. ASSUME NEW t \in Threads, NEW ids \in SUBSET Ids,
             job.call = {Request(t, ids, {})}, Clearing(ids)
      PROVE  \E call \in job.call :
               /\ job.call = {call}
               /\ db.work = {r \in job.base : r.id \notin call.ids}
                            \cup UNION {Abstract!Given(i, call.meta) : i \in call.ids}
  <2> DEFINE call == Request(t, ids, {})
  <2>1. call.ids = ids /\ call.meta = {}
    BY DEF Request
  <2>2. db.work = {r \in job.base : r.id \notin ids}
    BY <1>2 DEF Clearing
  <2>3. UNION {Abstract!Given(i, {}) : i \in ids} = {}
    BY DEF Abstract!Given
  <2>4. db.work = {r \in job.base : r.id \notin call.ids}
                  \cup UNION {Abstract!Given(i, call.meta) : i \in call.ids}
    BY <2>1, <2>2, <2>3
  <2> HIDE DEF call
  <2> QED
    BY <1>2, <2>4 DEF call
<1> QED
  BY <1>1, <1>2 DEF Underway

\* The last statement is done: the call takes effect, as a whole.
LEMMA JobEndsSimulates ==
    ASSUME TransactionsWork, RInv, NEW t \in Threads, JobEnds(t)
    PROVE  Simulates /\ Kept
<1>1. /\ IInv'
      /\ job' = NoJob
      /\ db'.work = db.work
      /\ db'.disk = IF db.depth = 1 THEN db.work ELSE db.disk
      /\ db'.depth = db.depth - 1
      /\ plan' = plan /\ frames' = frames
  BY JobEndsKeeps DEF RInv, JobEnds
<1>2. job # NoJob /\ job.todo = {}
  BY DEF JobEnds, Calling, NoJob
<1>3. db.depth \in Nat /\ db.depth > 0 /\ (job.open <=> db.depth > 1)
  BY <1>2 DEF RInv, IInv, Types, Connection, JobCounted
<1>4. db' \in Connection /\ Balanced(db') /\ job.open \in BOOLEAN
  BY <1>1 DEF RInv, IInv, Types, Jobs
<1>5. PICK call \in job.call :
          /\ job.call = {call}
          /\ db.work = {r \in job.base : r.id \notin call.ids}
                       \cup UNION {Abstract!Given(id, call.meta) : id \in call.ids}
  BY <1>2, CallDone DEF RInv, JobMeans
<1>6. Abstract!Change(db.work)
  <2>1. CASE db.depth = 1
    <3>1. job.open = FALSE /\ db'.inTxn = FALSE /\ db'.disk = db.work
      BY <1>1, <1>3, <1>4, <2>1 DEF Balanced
    <3> QED
      BY <1>1, <1>2, <3>1 DEF Abstract!Change
  <2>2. CASE db.depth > 1
    <3>1. job.open = TRUE /\ db'.inTxn = TRUE /\ db'.disk = db.disk
      BY <1>1, <1>3, <1>4, <2>2 DEF Balanced
    <3> QED
      BY <1>1, <1>2, <3>1 DEF Abstract!Change
  <2> QED
    BY <1>3, <2>1, <2>2
<1>7. Loose' <=> Loose
  <2>1. Cardinality(OpenFrames(frames)) \in Nat
    BY FramesFinite
  <2>2. Cardinality(job.call) = 1 /\ Cardinality(job'.call) = 0
    BY <1>1, <1>5, CallsCounted
  <2> QED
    BY <1>1, <1>3, <2>1, <2>2 DEF Loose
<1>8. Abstract!Perform
  BY <1>1, <1>2, <1>5, <1>6, <1>7, CallsCounted DEF Abstract!Perform, Loose
<1> QED
  BY <1>1, <1>8 DEF Simulates, Abstract!Next, Kept, RInv, JobMeans

-----------------------------------------------------------------------------
(***************************************************************************)
(* Calls of one statement                                                  *)
(***************************************************************************)
\* A call of one statement takes effect or leaves the rows alone.
LEMMA RunSimulates ==
    ASSUME TransactionsWork, RInv, NEW t \in Threads, NEW s \in Prepared, Run(t, s),
           Abstract!AtOnce(Effect(db.work, s)) => Abstract!Next
    PROVE  Simulates /\ Kept
<1>1. db \in Connection /\ Balanced(db)
  BY DEF RInv, IInv, Types
<1>2. job = NoJob /\ job' = NoJob /\ plan' = plan /\ frames' = frames
  BY DEF Run, Ready
<1>3. CASE db' = Executed(db, s)
  <2>1. /\ db'.work = Effect(db.work, s)
        /\ db'.disk = IF db.inTxn THEN db.disk ELSE Effect(db.work, s)
        /\ db'.inTxn = db.inTxn /\ db'.depth = db.depth
    BY <1>1, <1>3, ExecutionWorks
  <2>2. Abstract!AtOnce(Effect(db.work, s))
    BY <1>2, <2>1, CallsCounted DEF Abstract!AtOnce, Abstract!Change
  <2>3. KeysUnique(Effect(db.work, s)) /\ KeysUnique(db.disk)
    BY EffectUnique DEF RInv
  <2>4. KeysUnique(db'.work) /\ KeysUnique(db'.disk)
    BY <2>1, <2>3
  <2> QED
    BY <1>2, <2>2, <2>4 DEF Simulates, Kept, JobMeans
<1>4. CASE db' \in FailedStates(db, s)
  <2>1. /\ db'.work = db.work /\ db'.disk = db.disk /\ db'.inTxn = db.inTxn
        /\ db'.depth = db.depth
    BY <1>1, <1>4, FailureWorks
  <2>2. Simulates
    BY <1>2, <2>1 DEF Simulates, Abstract!vars
  <2> QED
    BY <1>2, <2>1, <2>2 DEF Kept, RInv, JobMeans
<1> QED
  BY <1>3, <1>4 DEF Run

\* What set_key, set_config, remove and remove_key promise.
LEMMA SinglesSimulate ==
    ASSUME TransactionsWork, RInv, NEW t \in Threads
    PROVE  /\ \A id \in Ids, meta \in Metas : \A e \in meta :
                  SetKey(t, id, e) => Simulates /\ Kept
           /\ \A meta \in Metas : \A e \in meta : SetConfig(t, e) => Simulates /\ Kept
           /\ \A id \in Ids : Remove(t, id) => Simulates /\ Kept
           /\ \A row \in Row : RemoveKey(t, row) => Simulates /\ Kept
<1>1. job = NoJob => db.work \in SUBSET Row /\ KeysUnique(db.work)
  BY DEF RInv, IInv, Types, Connection
<1>2. ASSUME NEW id \in Ids, NEW meta \in Metas, NEW e \in meta, SetKey(t, id, e)
      PROVE  Simulates /\ Kept
  <2> DEFINE row == RowOf(id, e)
  <2>1. row \in Row /\ Insert(row) \in Prepared
    BY StatementsTyped DEF Row
  <2>2. job = NoJob /\ Run(t, Insert(row))
    BY <1>2 DEF SetKey, Run, Ready
  <2>3. Effect(db.work, Insert(row)) = Without(db.work, row) \cup {row}
    BY InsertEffect
  <2>4. Abstract!AtOnce(Effect(db.work, Insert(row))) => Abstract!Put(row)
    BY <2>2, <2>3 DEF Abstract!Put, Without
  <2> HIDE DEF row
  <2>5. Abstract!AtOnce(Effect(db.work, Insert(row))) => Abstract!Next
    BY <2>1, <2>4 DEF Abstract!Next, Abstract!Row, Row
  <2> QED
    BY <2>1, <2>2, <2>5, RunSimulates
<1>3. ASSUME NEW meta \in Metas, NEW e \in meta, SetConfig(t, e)
      PROVE  Simulates /\ Kept
  <2> DEFINE row == RowOf(Config, e)
             s   == [stmt |-> "set_config_value", id |-> Config, row |-> row]
  <2>1. row \in Row /\ s \in Prepared
    BY ConfigTyped
  <2>2. job = NoJob /\ Run(t, s)
    BY <1>3 DEF SetConfig, Run, Ready
  <2>3. Effect(db.work, s) = Without(db.work, row) \cup {row}
    BY <1>1, <2>1, <2>2, SingleEffects
  <2>4. Abstract!AtOnce(Effect(db.work, s)) => Abstract!Put(row)
    BY <2>2, <2>3 DEF Abstract!Put, Without
  <2> HIDE DEF row, s
  <2>5. Abstract!AtOnce(Effect(db.work, s)) => Abstract!Next
    BY <2>1, <2>4 DEF Abstract!Next, Abstract!Row, Row
  <2> QED
    BY <2>1, <2>2, <2>5, RunSimulates
<1>4. ASSUME NEW id \in Ids, Remove(t, id)
      PROVE  Simulates /\ Kept
  <2>1. Delete(id) \in Prepared
    BY StatementsTyped
  <2>2. job = NoJob /\ Run(t, Delete(id))
    BY <1>4 DEF Remove, Run, Ready
  <2>3. Effect(db.work, Delete(id)) = {r \in db.work : r.id # id}
    BY DeleteEffect
  <2>4. Abstract!AtOnce(Effect(db.work, Delete(id))) => Abstract!Clear(id)
    BY <2>2, <2>3 DEF Abstract!Clear
  <2>5. Abstract!AtOnce(Effect(db.work, Delete(id))) => Abstract!Next
    BY <2>4 DEF Abstract!Next
  <2> QED
    BY <2>1, <2>2, <2>5, RunSimulates
<1>5. ASSUME NEW row \in Row, RemoveKey(t, row)
      PROVE  Simulates /\ Kept
  <2> DEFINE s == [stmt |-> "delete_key", id |-> row.id, row |-> row]
  <2>1. s \in Prepared
    BY DEF Prepared, Statement, Row
  <2>2. job = NoJob /\ Run(t, s) /\ row \in db.work
    BY <1>5 DEF RemoveKey, Run, Ready
  <2>3. Effect(db.work, s) = db.work \ {row}
    BY <1>1, <2>2, SingleEffects
  <2>4. Abstract!AtOnce(Effect(db.work, s)) => Abstract!Drop(row)
    BY <2>2, <2>3 DEF Abstract!Drop
  <2> HIDE DEF s
  <2>5. Abstract!AtOnce(Effect(db.work, s)) => Abstract!Next
    BY <2>4 DEF Abstract!Next, Abstract!Row, Row
  <2> QED
    BY <2>1, <2>2, <2>5, RunSimulates
<1> QED
  BY <1>2, <1>3, <1>4, <1>5

\* What a remove_orphans is about to clear.
LEMMA SurveySimulates ==
    ASSUME RInv, NEW t \in Threads, NEW live \in SUBSET Ids, Survey(t, live)
    PROVE  Simulates /\ Kept
<1>1. /\ job = NoJob /\ job' = NoJob /\ UNCHANGED <<db, job, frames>>
      /\ plan' = [plan EXCEPT ![t] = {r.id : r \in db.work} \ (live \cup {Config})]
  BY DEF Survey, Ready
<1>2. Abstract!Survey(t, live)
  BY <1>1, CallsCounted DEF Abstract!Survey
<1> QED
  BY <1>1, <1>2 DEF Simulates, Abstract!Next, Kept, RInv, JobMeans

\* A thread that goes on, and nothing at all.
LEMMA OthersSimulate ==
    ASSUME RInv, UNCHANGED <<db, job, frames, plan>>
    PROVE  Simulates /\ Kept
<1>1. Simulates
  BY DEF Simulates, Abstract!vars
<1>2. JobMeans'
  BY DEF RInv, JobMeans, Underway, Replacing, Inserted, Clearing
<1> QED
  BY <1>1, <1>2 DEF Kept, RInv

-----------------------------------------------------------------------------
\* Every step of the store is a step of its promise or none.
LEMMA NextSimulates ==
    ASSUME TransactionsWork, RInv, [Next]_vars
    PROVE  Simulates /\ RInv'
<1>1. IInv'
  BY NextKeeps DEF RInv
<1>2. CASE UNCHANGED vars
  BY <1>2, OthersSimulate, <1>1 DEF vars, Kept, RInv
<1>3. CASE Next
  <2>1. ASSUME NEW t \in Threads, Begin(t) PROVE Simulates /\ Kept
    BY <2>1, BeginSimulates
  <2>2. ASSUME NEW t \in Threads, Commit(t) PROVE Simulates /\ Kept
    BY <2>2, CommitSimulates
  <2>3. ASSUME NEW t \in Threads, Unwind(t) PROVE Simulates /\ Kept
    BY <2>3, UnwindSimulates
  <2>4. ASSUME NEW t \in Threads, Swallow(t) PROVE Simulates /\ Kept
    BY <2>4, OthersSimulate DEF Swallow
  <2>5. ASSUME NEW t \in Threads, NEW id \in Ids, NEW meta \in Metas, Set(t, id, meta)
        PROVE  Simulates /\ Kept
    BY <2>5, SetSimulates
  <2>6. ASSUME NEW t \in Threads, NEW live \in SUBSET Ids, Survey(t, live)
        PROVE  Simulates /\ Kept
    BY <2>6, SurveySimulates
  <2>7. ASSUME NEW t \in Threads, RemoveOrphans(t) PROVE Simulates /\ Kept
    BY <2>7, RemoveOrphansSimulates
  <2>8. ASSUME NEW t \in Threads, JobStep(t) PROVE Simulates /\ Kept
    BY <2>8, JobStepSimulates
  <2>9. ASSUME NEW t \in Threads, JobFails(t) PROVE Simulates /\ Kept
    BY <2>9, JobFailsSimulates
  <2>10. ASSUME NEW t \in Threads, JobEnds(t) PROVE Simulates /\ Kept
    BY <2>10, JobEndsSimulates
  <2>11. ASSUME NEW t \in Threads, NEW id \in Ids, NEW meta \in Metas, NEW e \in meta,
                SetKey(t, id, e)
         PROVE  Simulates /\ Kept
    BY <2>11, SinglesSimulate
  <2>12. ASSUME NEW t \in Threads, NEW meta \in Metas, NEW e \in meta, SetConfig(t, e)
         PROVE  Simulates /\ Kept
    BY <2>12, SinglesSimulate
  <2>13. ASSUME NEW t \in Threads, NEW id \in Ids, Remove(t, id) PROVE Simulates /\ Kept
    BY <2>13, SinglesSimulate
  <2>14. ASSUME NEW t \in Threads, NEW row \in Row, RemoveKey(t, row) PROVE Simulates /\ Kept
    BY <2>14, SinglesSimulate
  <2>15. ASSUME Close PROVE Simulates /\ Kept
    BY <2>15, RestartSimulates DEF Close
  <2>16. ASSUME Crash PROVE Simulates /\ Kept
    BY <2>16, RestartSimulates DEF Crash
  <2>17. Simulates /\ Kept
    BY <1>3, <2>1, <2>2, <2>3, <2>4, <2>5, <2>6, <2>7, <2>8, <2>9, <2>10, <2>11, <2>12,
       <2>13, <2>14, <2>15, <2>16 DEF Next
  <2> QED
    BY <1>1, <2>17 DEF Kept, RInv
<1> QED
  BY <1>2, <1>3

LEMMA RefinementInit ==
    ASSUME Init
    PROVE  RInv /\ Abstract!Init
<1>1. IInv
  BY InitHolds
<1>2. /\ db.disk = {} /\ db.work = {} /\ db.inTxn = FALSE /\ db.depth = 0 /\ job = NoJob
      /\ plan = [t \in Threads |-> {}] /\ frames = [t \in Threads |-> 0]
  BY DEF Init, Opened
<1>3. ~Loose
  <2>1. Cardinality(OpenFrames(frames)) = 0
    BY <1>2, FramesNone, MetadataAssumption
  <2> QED
    BY <1>2, <2>1, CallsCounted DEF Loose
<1>4. Abstract!Init
  BY <1>2, <1>3, CallsCounted DEF Abstract!Init, Loose
<1> QED
  BY <1>1, <1>2, <1>4 DEF RInv, JobMeans, KeysUnique

\* set and remove_orphans do what they were asked as a whole or not at all,
\* with the ids and the metadata they were given; and a transaction, nested or
\* joined by other threads, is durable as a whole when its last body returns,
\* or undone as a whole when a body or a call throws.
THEOREM RowsAreTransactional ==
    ASSUME TransactionsWork
    PROVE  Spec => ImplementsTransactionalRows
<1>1. Init => RInv /\ Abstract!Init
  BY RefinementInit
<1>2. RInv /\ [Next]_vars => RInv' /\ [Abstract!Next]_(Abstract!vars)
  BY NextSimulates DEF Simulates
<1> QED
  BY <1>1, <1>2, PTL DEF Spec, ImplementsTransactionalRows, Abstract!Spec
=============================================================================
