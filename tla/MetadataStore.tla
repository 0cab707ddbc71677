---------------------------- MODULE MetadataStore ----------------------------
(***************************************************************************)
(* The metadata store: one SQLite connection with shared prepared          *)
(* statements, and transactions that nest by counting their depth, so that *)
(* only the outermost begin and commit reach SQLite.                       *)
(*                                                                         *)
(* A call of several statements holds the mutex from its first to its      *)
(* last; the other calls are one statement.  in_transaction holds it only  *)
(* while it begins and ends, so calls of other threads may come between    *)
(* and then join its transaction.  SQLite itself is external: a statement  *)
(* takes effect as a whole, at once when no transaction is open.           *)
(***************************************************************************)
EXTENDS Naturals, FiniteSets

CONSTANTS
    Threads,
    Ids, Keys,
    Values,     \* the values callers give
    Metas,      \* the metadata callers give to set: sets of [key, value]
    Config,     \* stands for the id in the rows of schema_info
    NaN, Zero,  \* a real that SQLite stores as NULL, and what NULL reads as
    MaxFrames,  \* how deep a thread nests in_transaction
    Faults      \* "stmt", "abort", "begin", "commit", "swallow", "crash"

ASSUME MetadataAssumption ==
    /\ IsFiniteSet(Threads)
    /\ Config \notin Ids
    /\ Zero \in Values
    /\ MaxFrames \in Nat
    /\ \A m \in Metas :
           /\ m \subseteq [key : Keys, value : Values]
           /\ \A e, f \in m : e.key = f.key => e = f
    /\ Faults \subseteq {"stmt", "abort", "begin", "commit", "swallow", "crash"}

VARIABLES
    db,         \* the connection and the transaction bookkeeping of Impl
    job,        \* the call that holds the mutex between two statements, if any
    pc,         \* of a thread: "body", "survey" inside remove_orphans, "thrown"
    frames,     \* of a thread: the in_transaction calls it is inside of
    plan        \* of a thread: the ids its remove_orphans found

vars == <<db, job, pc, frames, plan>>

Row       == [id : Ids \cup {Config}, key : Keys, value : Values]
Statement == {"insert_value", "delete_by_vector", "delete_key", "set_config_value"}
NoRow     == [id |-> Config, key |-> "none", value |-> Zero]

\* bind_value and the reading columns: a NaN is bound as NULL, and a NULL in
\* the real column is read as 0.0.
Stored(v) == IF v = NaN THEN Zero ELSE v

RowOf(id, entry) == [id |-> id, key |-> entry.key, value |-> Stored(entry.value)]

\* A prepared statement with its bindings.
Delete(id)  == [stmt |-> "delete_by_vector", id |-> id, row |-> NoRow]
Insert(row) == [stmt |-> "insert_value", id |-> row.id, row |-> row]
Without(rows, row) == {r \in rows : <<r.id, r.key>> # <<row.id, row.key>>}

Effect(rows, s) ==
    CASE s.stmt = "delete_by_vector" -> {r \in rows : r.id # s.id}
      [] s.stmt = "delete_key"       -> Without(rows, s.row)
      [] OTHER                       -> Without(rows, s.row) \cup {s.row}

(***************************************************************************)
(* The connection and Impl's bookkeeping.  handle says whether the         *)
(* Transaction object exists; it has not finished then.  A statement whose *)
(* step failed is not reset, and SQLite refuses to bind it from then on.   *)
(***************************************************************************)
Opened(rows) ==
    [disk |-> rows, work |-> rows, inTxn |-> FALSE,
     depth |-> 0, handle |-> FALSE, stuck |-> {}]

\* begin_locked.  The new Transaction begins before it replaces the old one,
\* so one that a failed commit left behind rolls the new one back.
Begun(d) ==
    IF d.depth > 0 THEN [d EXCEPT !.depth = @ + 1]
    ELSE [d EXCEPT !.depth = 1, !.handle = TRUE, !.inTxn = ~d.handle]

\* BEGIN IMMEDIATE throws after the depth was counted up.
BeginRefused(d) == [d EXCEPT !.depth = 1]

\* Outermost, COMMIT makes the rows durable; a nested frame is only counted
\* off; with no frame left, because a failure rolled all of them back, the
\* call returns.
\* Mutants: every frame commits; the early return is missing.
CommittedEach(d) ==
    [d EXCEPT !.depth = IF @ > 0 THEN @ - 1 ELSE 0, !.handle = FALSE,
              !.inTxn = FALSE, !.disk = d.work]

CommittedUnchecked(d) ==
    IF d.depth # 1 THEN [d EXCEPT !.depth = @ - 1]
    ELSE [d EXCEPT !.depth = 0, !.handle = FALSE, !.inTxn = FALSE, !.disk = d.work]

Committed(d) ==
    IF d.depth # 1 THEN [d EXCEPT !.depth = IF @ > 0 THEN @ - 1 ELSE 0]
    ELSE [d EXCEPT !.depth = 0, !.handle = FALSE, !.inTxn = FALSE, !.disk = d.work]

\* COMMIT throws: the Transaction object stays.  SQLite has rolled back, as it
\* does after an I/O error; of a COMMIT that finds the file busy, which leaves
\* the transaction open, nothing is said here.
CommitRefused(d) == [d EXCEPT !.depth = 0, !.inTxn = FALSE, !.work = d.disk]

\* Mutant: the depth is not reset.
RolledBackKeepsDepth(d) ==
    [d EXCEPT !.handle = FALSE, !.inTxn = FALSE, !.work = d.disk]

\* rollback_locked takes every frame of every thread off.
RolledBack(d) ==
    [d EXCEPT !.depth = 0, !.handle = FALSE, !.inTxn = FALSE, !.work = d.disk]

\* commit_locked would follow a null pointer.
Fatal(d) == d.depth = 1 /\ ~d.handle

\* What begin_locked and commit_locked may leave, and whether they return.
BeginOutcomes(d) ==
    {[db |-> Begun(d), ok |-> TRUE]} \cup
    {[db |-> BeginRefused(d), ok |-> FALSE] : f \in Faults \cap {"begin"} \cap
                                                  (IF d.depth = 0 THEN Faults ELSE {})}

CommitOutcomes(d) ==
    LET outermost == d.depth = 1
    IN  {o \in {[db |-> Committed(d), ok |-> TRUE], [db |-> CommitRefused(d), ok |-> FALSE]} :
            IF o.ok THEN outermost => d.inTxn
                    ELSE outermost /\ (d.inTxn => "commit" \in Faults)}

Executed(d, s) ==
    [d EXCEPT !.work = Effect(@, s), !.disk = IF d.inTxn THEN @ ELSE Effect(d.work, s)]

\* What a throwing statement may leave: a refused bind changes nothing; a
\* failed step leaves the statement unusable, and some errors make SQLite
\* roll back by itself.
FailedStates(d, s) ==
    IF s.stmt \in d.stuck THEN {d}
    ELSE LET failed == [d EXCEPT !.stuck = @ \cup {s.stmt}]
         IN  {f \in {failed, [failed EXCEPT !.inTxn = FALSE, !.work = d.disk]} :
                 IF f = failed THEN "stmt" \in Faults ELSE "abort" \in Faults}

-----------------------------------------------------------------------------
NoJob == [call |-> {}, todo |-> {}, base |-> {}, open |-> FALSE]

\* What a call was asked to do: clear the ids, and give them the metadata.
Request(t, ids, meta) == [by |-> t, ids |-> ids, meta |-> meta]

Calling(t) == \E call \in job.call : call.by = t

\* The mutex is free and the thread is not inside a call.
Ready(t) == job = NoJob /\ pc[t] = "body"

\* Where a thread goes on: after the call, or where its exception arrives in
\* the innermost of n bodies.
After(t, ok, n) == pc' = [pc EXCEPT ![t] = IF ok \/ n = 0 THEN "body" ELSE "thrown"]

Init ==
    /\ db = Opened({})
    /\ job = NoJob
    /\ pc = [t \in Threads |-> "body"]
    /\ frames = [t \in Threads |-> 0]
    /\ plan = [t \in Threads |-> {}]

(***************************************************************************)
(* in_transaction                                                          *)
(***************************************************************************)
Begin(t) ==
    /\ Ready(t)
    /\ frames[t] < MaxFrames
    /\ \E o \in BeginOutcomes(db) :
           /\ db' = o.db
           /\ frames' = [frames EXCEPT ![t] = IF o.ok THEN @ + 1 ELSE @]
           /\ After(t, o.ok, frames[t])
    /\ UNCHANGED <<job, plan>>

\* The body returned.
Commit(t) ==
    /\ Ready(t)
    /\ frames[t] > 0
    /\ ~Fatal(db)
    /\ frames' = [frames EXCEPT ![t] = @ - 1]
    /\ \E o \in CommitOutcomes(db) : db' = o.db /\ After(t, o.ok, frames[t] - 1)
    /\ UNCHANGED <<job, plan>>

\* The body throws, or lets the exception of a call pass.
Unwind(t) ==
    /\ job = NoJob
    /\ pc[t] \in {"body", "thrown"}
    /\ frames[t] > 0
    /\ db' = RolledBack(db)
    /\ frames' = [frames EXCEPT ![t] = @ - 1]
    /\ After(t, FALSE, frames[t] - 1)
    /\ UNCHANGED <<job, plan>>

\* The body catches the exception and goes on.
Swallow(t) ==
    /\ "swallow" \in Faults
    /\ pc[t] = "thrown"
    /\ pc' = [pc EXCEPT ![t] = "body"]
    /\ UNCHANGED <<db, job, frames, plan>>

(***************************************************************************)
(* Calls of several statements: set and remove_orphans                     *)
(***************************************************************************)
StartJob(call, statements) ==
    /\ \E o \in BeginOutcomes(db) :
           /\ db' = o.db
           /\ job' = IF o.ok THEN [call |-> {call}, todo |-> statements,
                                   base |-> db.work, open |-> db.inTxn]
                             ELSE NoJob
           /\ After(call.by, o.ok, frames[call.by])
    /\ UNCHANGED frames

\* Replace semantics: delete every row of the id, then insert the new ones.
\* A metadata with an empty key is refused before anything else.
Set(t, id, meta) ==
    /\ Ready(t)
    /\ StartJob(Request(t, {id}, meta),
                {Delete(id)} \cup {Insert(RowOf(id, e)) : e \in meta})
    /\ UNCHANGED plan

\* orphaned_ids takes and returns the mutex of its own.
Survey(t, live) ==
    /\ Ready(t)
    /\ LET orphans == {r.id : r \in db.work} \ (live \cup {Config})
       IN  /\ orphans # {}
           /\ plan' = [plan EXCEPT ![t] = orphans]
    /\ pc' = [pc EXCEPT ![t] = "survey"]
    /\ UNCHANGED <<db, job, frames>>

RemoveOrphans(t) ==
    /\ job = NoJob
    /\ pc[t] = "survey"
    /\ StartJob(Request(t, plan[t], {}), {Delete(id) : id \in plan[t]})
    /\ plan' = [plan EXCEPT ![t] = {}]

\* Mutant: a deletion may come last.
IsNextAnyOrder(s) == s \in job.todo

\* Deletions come before insertions.
IsNext(s) ==
    /\ s \in job.todo
    /\ s.stmt = "insert_value" => \A o \in job.todo : o.stmt = "insert_value"

JobStep(t) ==
    /\ Calling(t)
    /\ \E s \in job.todo :
           /\ IsNext(s)
           /\ s.stmt \notin db.stuck
           /\ db' = Executed(db, s)
           /\ job' = [job EXCEPT !.todo = @ \ {s}]
    /\ UNCHANGED <<pc, frames, plan>>

JobFails(t) ==
    /\ Calling(t)
    /\ \E s \in job.todo : IsNext(s) /\ \E d \in FailedStates(db, s) : db' = RolledBack(d)
    /\ job' = NoJob
    /\ After(t, FALSE, frames[t])
    /\ UNCHANGED <<frames, plan>>

\* The commit is outside the try block.
JobEnds(t) ==
    /\ Calling(t)
    /\ job.todo = {}
    /\ ~Fatal(db)
    /\ \E o \in CommitOutcomes(db) : db' = o.db /\ After(t, o.ok, frames[t])
    /\ job' = NoJob
    /\ UNCHANGED <<frames, plan>>

(***************************************************************************)
(* Calls of one statement                                                  *)
(***************************************************************************)
Run(t, s) ==
    /\ Ready(t)
    /\ \/ s.stmt \notin db.stuck /\ db' = Executed(db, s) /\ After(t, TRUE, frames[t])
       \/ db' \in FailedStates(db, s) /\ After(t, FALSE, frames[t])
    /\ UNCHANGED <<job, frames, plan>>

\* set_key takes no lock: its caller must not share the store.
SetKey(t, id, e) == Run(t, Insert(RowOf(id, e)))

SetConfig(t, e) ==
    Run(t, [stmt |-> "set_config_value", id |-> Config, row |-> RowOf(Config, e)])

\* remove and remove_key count the rows first and do nothing without any.
Remove(t, id) == (\E r \in db.work : r.id = id) /\ Run(t, Delete(id))

RemoveKey(t, row) ==
    /\ row \in db.work
    /\ row.id # Config
    /\ Run(t, [stmt |-> "delete_key", id |-> row.id, row |-> row])

(***************************************************************************)
(* The process ends and another opens the file                             *)
(***************************************************************************)
Restart ==
    /\ db' = Opened(db.disk)
    /\ job' = NoJob
    /\ pc' = [t \in Threads |-> "body"]
    /\ frames' = [t \in Threads |-> 0]
    /\ plan' = [t \in Threads |-> {}]

Quiet == job = NoJob /\ \A t \in Threads : pc[t] = "body" /\ frames[t] = 0

Close == Quiet /\ Restart
Crash == ("crash" \in Faults \/ Fatal(db)) /\ Restart

Next ==
    \/ \E t \in Threads :
           \/ Begin(t) \/ Commit(t) \/ Unwind(t) \/ Swallow(t)
           \/ \E id \in Ids, meta \in Metas : Set(t, id, meta)
           \/ \E live \in SUBSET Ids : Survey(t, live)
           \/ RemoveOrphans(t) \/ JobStep(t) \/ JobFails(t) \/ JobEnds(t)
           \/ \E id \in Ids, meta \in Metas : \E e \in meta : SetKey(t, id, e)
           \/ \E meta \in Metas : \E e \in meta : SetConfig(t, e)
           \/ \E id \in Ids : Remove(t, id)
           \/ \E row \in Row : RemoveKey(t, row)
    \/ Close
    \/ Crash

Spec == Init /\ [][Next]_vars

-----------------------------------------------------------------------------
\* The variables have their types; the depth never goes below zero nor past
\* the frames that are open.
TypeOK ==
    /\ db.disk \subseteq Row /\ db.work \subseteq Row
    /\ db.stuck \subseteq Statement
    /\ db.depth \in 0 .. MaxFrames * Cardinality(Threads) + 1
    /\ {db.inTxn, db.handle} \subseteq BOOLEAN
    /\ pc \in [Threads -> {"body", "survey", "thrown"}]
    /\ frames \in [Threads -> 0 .. MaxFrames]
    /\ plan \in [Threads -> SUBSET Ids]

\* When no call and no in_transaction is under way, nothing is pending: the
\* depth is back at 0, no transaction is open, and what callers see is what
\* a restart finds.  begin_locked, commit_locked and rollback_locked have to
\* balance over nested frames, threads that join a transaction, and bodies
\* that swallow an exception.
QuietMeansCommitted ==
    Quiet => /\ db.depth = 0
             /\ ~db.inTxn
             /\ ~db.handle
             /\ db.work = db.disk

\* A call that throws part-way leaves no mixture of old and new rows (the
\* comment in MetadataStore::set): callers see the rows from before it, or,
\* inside a transaction, those from before the transaction.
FailedCallUndone ==
    [][\A t \in Threads :
           JobFails(t) => db'.work = IF job.open THEN db.disk ELSE job.base]_vars

\* The frames that are open, of all threads.
OpenFrames(f) == {p \in Threads \X (1 .. MaxFrames) : p[2] <= f[p[1]]}

\* The store implements TransactionalRows: a set leaves the rows of the
\* metadata it was given and a remove_orphans clears the ids it found, as a
\* whole or not at all; and what the bodies of in_transaction do together is
\* durable when the last of them returns, or undone when one throws.  While a
\* call is between two statements its caller is promised the rows from before
\* it; a body's transaction has been undone when the depth misses its frame.
Abstract == INSTANCE TransactionalRows
    WITH table  <- db.disk,
         view   <- IF job = NoJob THEN db.work ELSE job.base,
         open   <- IF job = NoJob THEN db.inTxn ELSE job.open,
         asked  <- job.call,
         found  <- plan,
         bodies <- frames,
         loose  <- db.depth # Cardinality(OpenFrames(frames)) + Cardinality(job.call)

ImplementsTransactionalRows == Abstract!Spec
=============================================================================
