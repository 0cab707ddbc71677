# A verification project for vector-db

`vectordb` is an embedded vector database in C++: vectors under 64-bit ids, a
nearest-neighbour index over them (HNSW or brute force), JSON metadata in
SQLite, a command line, and a thread-safe wrapper. This directory holds TLA+
modules that model its core, TLC configurations that check them on small
instances, and TLAPS proofs of what holds for every instance. Paths are those
of the repository; `PROJECT.json` maps every definition to its lines.

## The system

| component | state | operations | who calls it |
|---|---|---|---|
| vector store (`storage/vector_store`) | per-slot arrays, id map, liveness bytes, live counter | insert, upsert, remove, append_trusted | Database; the vector file reader |
| metadata store (`storage/metadata_store`, `sqlite`) | an SQLite connection, prepared statements, a transaction depth, a mutex | set, set_key, get, remove, matching, set_config, orphaned_ids, remove_orphans, transactions | Database, synchronously |
| HNSW index (`index/hnsw`) | one node per slot with level and links, entry point, live counter, random generator; a visited set per thread | add, remove, search, restore | Database; its file reader |
| brute-force index, top-k (`index/brute_force`, `core/top_k`) | none; a bounded heap per search | search; offer, take_sorted, merge | Database |
| database (`db/database`) | the three above, `next_auto_id_`, `dirty_`, `has_metadata_` | create, open, insert, upsert, remove, set_metadata, search, flush, rebuild_index, compact, check, destructor | applications, ConcurrentDatabase, the command line |
| files (`persistence`, `storage/vector_file`, `index/hnsw/hnsw_file`) | `vectors.bin`, `index.hnsw`, `metadata.sqlite` | atomic whole-file write, validated read | flush and open |
| thread pool (`concurrency/thread_pool`) | queue, `active_`, `stopping_`, two condition variables | submit, parallel_for, wait_idle, destructor | ConcurrentDatabase::batch_search, applications |
| concurrent database (`db/concurrent_database`) | a shared mutex, a Database, a ThreadPool | reads under the shared lock, writes under the exclusive one | applications |
| filters (`storage/filter`) | none | match, parse | Database::search; the command line |
| distance kernels (`distance`) | the kernel chosen once for the machine | l2_squared, dot, norm_squared | the indexes |
| command line (`cli`) | the process: arguments, options looked at, a Database | one handler a command; exit codes | users, scripts |
| encodings, data sets | none | parsing, arithmetic, input and output | the files; `generate`, `import` |

How the parts meet, and what is hard about it:

* A graph node *is* a slot. Whatever numbers slots anew (compaction, a reload)
  has to renumber the graph, and a tombstone keeps its node. `HnswIndex::add`
  throws if the slot it is given is not the next node, and by then the store
  has taken the vector.
* Three files are written at different times. Metadata is durable when the call
  returns; vectors, graph and id counter only at `flush`, in that order. A
  crash may fall between any two writes, and `open` has to make sense of every
  combination.
* `dirty_` and `has_metadata_` are hints. The first decides that nothing need be
  written, the second that nothing need be read; both must err on one side only.
* An operation has several steps (store, graph, metadata, counter, flag) and
  the metadata step may throw.
* The pool drops its lock before it notifies, counts running tasks for
  `wait_idle`, drains its queue on destruction, and hands a task a reference to
  the caller's function object.

Every hazard we know of is listed in `PROJECT.json` at the line where it bites,
with the properties that would catch it, or the reason that none does.

What makes each component correct:

* vector store: id map, liveness bytes and counter agree; no id is live twice;
* database: it is a map from ids to vector and metadata; after a stop it is
  the map of some save; a graph belongs to the store it is used with; automatic
  ids are fresh; the hints are safe;
* thread pool: no task is lost, dropped or run twice; no wakeup is lost;
  parallel_for, wait_idle and the destructor mean what they say, and return;
* metadata store: a call of several statements does with its own ids and metadata
  what it was asked, or nothing; nested and joined transactions are one, durable
  when the last body returns; and nothing is pending once every call has
  returned, whatever failed in between;
* HNSW index: what add builds is what the file reader accepts; no node is
  isolated; a layer search stops only where it cannot improve; calls return;
* top-k and search: the k best matches, in order, whatever the order they were
  offered in, with a filter or without, of the whole or merged from parts;
* concurrent database: every query of a batch answers from the database as one
  write left it, and every call returns and gives the lock back;
* kernels: each reads every component once, and runs only where it may;
* files: a reader finds a whole old file or a whole new one, and what was
  written is there after a power cut, as far as the directories are synced;
* command line: the exit code tells what became of the database, if the line is
  read as it was meant.

## The modules

### `VectorStore` (vector_store.cpp)

A store is a value and an operation maps a store to a store: `StoreInsert`,
`StoreUpsert`, `StoreRemove`, and `StoreOf` for what a reader builds with
`append_trusted`. Slots are counted from 1, so that 0 can stand for "not in the
map". `Compactions` says what `Database::compact` makes of a list of slots.
Vectors are model values: validation, normalisation and norms are functions of
the vector alone. `CanInsert` has the two refusals that depend on the store.

### `Database` (database.cpp, with vector_file.cpp and hnsw_file.cpp)

The life of one directory and of the Database object that has it open. One
object at a time: two objects on one directory are outside what the code
supports.

| variable | in the code |
|---|---|
| `phase`, `caller` | where the thread is: no object, inside `create`, between calls, or at one of the three writes of a flush, and who asked for it |
| `store`, `index`, `nextId`, `dirty`, `hasMeta` | `Impl`: `store_`, `index_`, `next_auto_id_`, `dirty_`, `has_metadata_` |
| `dir` | no directory; a directory without a configuration; the configured index type |
| `vfile`, `ifile` | the vector file (empty when missing) and the set holding the index file, if any |
| `rows`, `savedNext` | SQLite: the metadata table, the `next_auto_id` key |
| `used` | history: the ids the store has ever taken a vector for, also when the insert then threw |
| `moved` | history: the slots whose vector an upsert has replaced by one that belongs elsewhere, since the graph was last built |
| `halfDone` | history: whether an operation has stopped half-way that `dirty_` does not show |

Every call of the API that changes state is one action, because one thread is
inside the object (`ConcurrentDatabase` holds the exclusive lock for a write).
A flush is three actions, one a file, so that a crash or an exception may come
between them. Each call that has a metadata step has a second action in which
that step throws, after the steps before it and without the ones after it. A
failed file write happens before the rename, or after it (the `fsync` of the
directory throws). The exception goes to the caller; in the destructor it is
swallowed; in `create` it destroys the new object, whose destructor flushes
again.

The index is abstracted to what its owner relies on: in slot order, the id each
node was linked for and the place where it was linked, and the live counter.
`Place` says where a vector belongs. An upsert replaces the vector and leaves
the node where it was, "in the wrong place in the graph until a rebuild"
(database.cpp:345-349): the model keeps the old place and notes the slot in
`moved`, and a rebuild, a compaction or an open that rebuilds puts it right. How
a place comes about from links is `HnswGraph`'s matter. A brute-force index has
nothing. The index file is loaded when its node count equals the slot count,
which is the one comparison with the store `read_hnsw_file` makes, and rebuilt
otherwise.

`Faults` names what may go wrong: `"crash"` (the process stops at any step; what
the system call had renamed stays), `"io"` (a file write throws), `"meta"` (a
metadata step throws). A power cut, which may also undo a rename or a
transaction, is in `Commands`.

### `SnapshotStore` and `DurableMap`

The abstract specifications. `SnapshotStore`: operations change one id, a save
makes all of the contents durable at once, a restart finds the last save.
`DurableMap`: a map from ids to vector and metadata with a next id, of which
closing, opening, flushing, compacting and rebuilding are invisible. `Database`
implements the first under crashes, failing writes and failing metadata steps,
the second when nothing goes wrong; the refinement mappings are `Snapshot` and `Durable` in `Database`.

### `ThreadPool` (thread_pool.cpp, thread_pool.hpp)

Workers and callers as processes. What happens under `mutex_` is one step; the
notification after the unlock is another, so that other threads run between
them; a task is one step of its worker, which may also submit tasks or call
`wait_idle` before it ends. Waiting is explicit: a thread in `"waiting"` or
`"idleblocked"` goes on only when a notification picks it or it wakes for no
reason (`SpuriousWakeup`). `parallel_for` is its chunk arithmetic, one submit a
chunk, and one `future.get()` a chunk; a task ends with a result or an
exception. The destructor runs when no member function does, as C++ demands of
its caller. `parallel_for` inside a task, which its comment forbids, is left
out, and so are `pending()` and `size()`, which only read.

### `HnswGraph` (hnsw_index.cpp, with the validation of hnsw_file.cpp)

`add` and `search` as walks over the graph, one step a pass of `greedy_descend`,
a turn of a loop of `search_layer`, or the update of one neighbour list. `step`
and `op` say where the call is; `layer`, `at`, `frontier`, `best` and `visited`
are its locals; `todo` is what an inner loop has left. One call runs at a time:
`ConcurrentDatabase` lets searches overlap, but they write nothing shared, and
an add excludes them. A node's level is any that `random_level` can draw.
Neighbour lists are sets, and the loops over them go in any order: the code's
order, which depends on insertion history, is one of these. Nodes have a point
and `Dist` ranks points; two nodes may be at one point, and `Move` is an upsert
that replaces the vector under a node whose links stay. `remove` changes nothing
here, because a tombstone keeps routing; it is in `Database`. `ReaderAccepts` is
what `read_hnsw_file` tests of levels, links and entry point.

The visited set with its generation counter is a set here.

### `MetadataStore` and `TransactionalRows` (metadata_store.cpp, sqlite.cpp)

`db` is the connection and `Impl`'s bookkeeping: the durable rows and those a
statement sees, whether SQLite has a transaction open, `depth`, whether the
`Transaction` object exists (`handle`), and which prepared statements were left
unusable by a failed step (`stuck`). `job` is the call that holds the mutex
between two statements (`set`, `remove_orphans`); the other calls are one
statement. `frames` counts the `in_transaction` bodies a thread is inside of:
the mutex is free in a body, so calls of other threads come between and join
the transaction. An exception (`pc` is `"thrown"`) unwinds frame by frame, or is
swallowed by a body. `BeginOutcomes`, `CommitOutcomes` and `FailedStates` say
what a failing BEGIN, COMMIT or statement leaves. Of a COMMIT that finds the file busy,
after which SQLite leaves the transaction open, nothing is said
(`CommitRefused`): only `metadata_leak` lets a COMMIT fail.

`TransactionalRows` is the promise. A `set` or `remove_orphans` is asked with its
arguments (`asked`: who, which ids, which metadata) and then performed or failed:
performed, it clears these ids and gives its id the rows of this metadata, and
nothing else; the ids of `remove_orphans` are those its own survey `found`. The
calls of one statement take one row, or one id's, as one step. `bodies` counts
the `in_transaction` bodies of each thread: what they did becomes durable when the
last of them returns, neither before nor after, and is undone when one of them,
or a call of several statements, throws. Left open is one case (`loose`): once
an exception has undone the transaction of bodies that still run, a new one may
begin under them, and which of the returns makes that one durable is not
promised. In the mapping, a call between two statements shows the rows from
before it, and bodies are loose when the depth misses their frames.

### `Search` and `ConcurrentDatabase` (top_k.cpp, brute_force_index.cpp, filter.cpp, concurrent_database.cpp)

`Search` has the pure parts: rank keys, the collector with its conservative
pre-test, the merge, comparison of metadata values, filters, and what
`Database::search` makes of candidates. `ConcurrentDatabase` puts them under the
reader-writer lock, in steps: a scan offers one slot a step, a get reads the
vector and the rows in two, a write does its operations one by one and its
metadata after the store. `log` records the contents at every unlock of a
writer; `answers` what each read returned and which versions it overlapped. The
reference (`Fits`) says of an answer and a version, without computing one: each
result is a matching entry, they are in order, and what an exact search leaves
out comes after `k` others. A search may throw in three cases only
(`Refusable`), which are what the code does: a `k` of zero; a filtered exact
search of an empty database, which asks for the best 0 of its slots (although
the comment at database.cpp:465 has a filter without metadata match nothing);
and a filtered search of the graph when `k` times the oversampling wraps to
zero. The graph search returns any live slots up to the
number asked for: how it finds them is `HnswGraph`'s matter. The loops of
search_range and merge_top_k are recursive functions (`SearchRange`,
`OfferSorted`). `DatabaseAssumption` says what calls and first stores are.

### `Kernels` (kernel_scalar.cpp, kernel_neon.cpp, kernel_avx2.cpp, cpu_features.cpp)

A kernel is a list of loops, each with its step, the offsets of its
accumulators and its lanes; `Loads` is what a call reads. `Machines` is what
the build and cpuid may say, `ActiveKernel` what is then chosen. There is no
behaviour here: `ActiveKernelIsSound` is an assumption of `MCSearch`, which TLC
evaluates for every machine and all lengths up to `MaxCount`.

### `AtomicFile` and `Commands` (file_io.cpp, main.cpp, args.cpp, commands.cpp, vector_io.cpp)

`AtomicFile` is `write_file_atomically` system call by system call, over a page
cache: `path` is what a reader finds now, `hard` what it may find after a power
cut, and bytes that were not synced may be lost region by region. The sync of
the directory may fail without anybody being told (`SyncDirectoryUnseen`;
file_io.cpp:77 ignores what `fsync` returns), and `unseen` remembers it. A write
that is given up may leave its temporary file behind; nobody reads it and the
next write truncates it, so the model drops it (`Abandon`).

`Commands` is the program: `Parse` and `Reads` give a process its options,
`OptionsRefused` the usage mistakes, `Refusal` and `InputRefusal` the exit codes
of files it cannot read or that are of another dimension; then come the
handlers, the flush through `AtomicFile`, and the destructor that flushes what
is still dirty. `dir` and `saved` are what SQLite holds, `savedHard` what a power
cut leaves of it. `anchored` says whether the entry of the database's directory
in its parent is on the disk: `create` does not sync the parent, so the entry
gets there when the kernel writes it (`Settle`), and a power cut before that may
take everything (`LosesDirectory`). `ran` is the history the properties read:
the command, its exit code (9 killed, 10 a power cut) and what it left. A vector
file holds a set of ids with vectors; metadata and the index file are left to
`Database`, so a flush here is the vector file and the next id. Arguments are
tokens of a form and a text, not characters; of two negative numbers in a row,
of which the program takes the second for an option, nothing is said
(`CommandsAssumption`).

The reference does not use the program's parse. `Reading` says what a line means
from the usage text alone (which options are flags, which take a value),
`Intended`, `Imported` and `Adds` what a command is for, with every line of a
file under its own id. The program departs from this silently for six kinds of
line, which `Misread` names and `ExitCodeTellsTheOutcome` leaves out: `--id`
without a value inserts id 0; `delete 12abc` deletes 12 (commands.cpp:227);
`--start-id` without a value is 0; a start id wraps past the last id; a CSV line
with an id and no components is skipped after its id was taken, so that the ids
of the lines after it are shifted (vector_io.cpp:236-260, against "otherwise one
per vector" in vector_io.hpp:28); and arguments beyond those a command looks at
are dropped. The inputs of the run have lines of these kinds, so that what the
program does with them is explored and the other properties hold there.

A matrix without rows is an input too: its import returns 0 without a flush, and
`SuccessIsDurable` does not speak of it, because nothing was to be saved
(`Writes`). `compact` with nothing to reclaim returns without a flush; if the
opening made the database dirty, the destructor flushes and its failure is not
told (`Maintain`).

## The runs

| run | question | what it shows |
|---|---|---|
| `database_life` | nothing goes wrong | the database is a `DurableMap`; each node of the graph belongs to its slot's id and, unless an upsert has replaced the vector since the graph was built, is in its place; automatic ids are fresh; no row is orphaned; a vector has the metadata it was inserted with |
| `database_crash` | crashes, failing writes and metadata steps that throw | the vectors found are those of one save (`ImplementsSnapshotStore`); store, counter and file header agree, so the directory opens again; ids are unique; the graph covers the store; the hint is safe; not dirty and nothing half-done means durable, and checks clean |
| `database_meta` | *violation* | an automatic insert whose metadata step throws leaves its id taken and the counter at it: every later automatic insert is refused |
| `database_staleindex` | *violation* | a graph from before a compaction is trusted because its node count fits |
| `graph` | every sequence of adds, replacements and searches | the file reader accepts what add built; nobody is isolated; a layer search ends only when no neighbour of its result can improve it; every call returns |
| `metadata` | two threads, nested and joined transactions, failing statements, swallowed exceptions, crashes | a call does what it was asked or nothing, a transaction is durable when its last body returns or undone; nothing is pending once nobody is inside a call |
| `metadata_leak` | *violation* | a BEGIN that throws leaves the depth at 1: later calls run without a transaction, and one that fails leaves old and new keys mixed |
| `search` | searches, batches and gets against writers | each read answers from one version, as the reference search does; merges are exact; every call returns |
| `commands` | the program run again and again, with failing system calls, kills and power cuts | files are whole; the exit code tells the outcome of every line that is not misread; success survives a power cut once the directory's entry is on the disk and unless its sync failed unseen |
| `pool_safety` | every interleaving, spurious wakeups, tasks that submit or wait | tasks are conserved, wakeups are not lost, `active_` counts, parallel_for is complete, wait_idle and the destructor mean what they say |
| `pool_liveness` | threads that can run do run | parallel_for, wait_idle and the destructor return |
| `pool_body` | *violation* | parallel_for leaves at the first exception while chunks still refer to the body |

The violation runs each check one sentence of the documentation or of a comment;
`findings` quotes it. They are the places where the text promises more than the
code does, and the passing runs say what does hold there. `metadata` leaves out
the faults of `metadata_leak` (a failing BEGIN or COMMIT, and errors that make
SQLite roll back by itself), because after them the properties do not hold.

The model shows more of this kind, which have no run of their own and are listed
under `hazards`: after a crash between the vector file and the id counter,
automatic inserts throw until the counter has passed the ids in use; a row whose
vector a crash lost becomes the metadata of a later vector with that id
(docs/metadata.md calls such rows inert); after a call whose metadata step threw,
a flush writes nothing although memory and file differ (`halfDone`); a power cut
may take a database that `create` made and later commands filled, because the
parent of its directory was never synced, whatever docs/persistence.md:83 says
of a flush that has returned; command lines are misread (`Misread`); a task that
calls `wait_idle` waits for itself. Rows after a crash have no property at all:
`NoOrphanRows` and `InsertedAsGiven` are about a life without one.

### Bounds, and why they are enough

* `MaxId`, the largest VectorId, is 1 or 2: with 1 the wrap-around of `id + 1`
  happens after two inserts; with 2 there is an id that is neither the first
  nor the last. `NextAfter` computes modulo `MaxId + 1`, as 64-bit addition does.
* `MaxSlots`, `kMaxVectorCount`: 3 slots for 2 ids let every id be removed and
  inserted again beside its tombstone, and let a full store refuse an insert
  although it has tombstones; 2 slots under crashes still give compaction
  something to move and an old graph the length of the new store.
* Two vectors distinguish an overwritten value from the old one, one non-empty
  metadata value a row from no row. In `database_life` each vector has a place of
  its own, so that every upsert of another vector displaces its node; in
  `database_crash`, where no property speaks of places, all share one. Both use
  the symmetry of the vectors, which no definition distinguishes.
* `database_crash` has only the HNSW type: a brute-force database has one file
  less, and nothing that the run asks of it is not asked of the other. The life
  run and the proofs have both.
* No counter of the database grows without bound, so histories are of any length.
* `HnswGraph`: points 0, 1 and 3 on a line under the squared distance, used by
  up to 4 nodes, one of which may move once: so there are duplicates, ties, and
  a nearer and a farther side. With `M` = 2 and four nodes on layer 1 a list
  overflows and is selected anew; the limit of 4 of layer 0 is not reached in
  the run, but the proofs cover it. `EfConstruction` = 3 keeps less than all;
  `EfSearch` 1 and 2 include the narrowest beam. `MaxLevel` = 1, against 254,
  gives one layer to descend through and one to search below another.
* `ThreadPool`: two workers and two callers; each caller makes `MaxCalls` = 1
  call and each worker's tasks submit `MaxTaskCalls` = 1 task. Three indices on
  two workers give a short last chunk. Workers and callers are interchangeable
  in the safety run (`ThreadSymmetry`); no symmetry is used for liveness.
* `MetadataStore`: two threads, two frames each, one id with two keys, and a
  metadata value that is a NaN: a join of two nests, a replacement whose two
  insertions can be cut apart, and a value that is stored as another. The
  threads are interchangeable. With one id a call cannot touch the rows of
  another one in the run; `RowsAreTransactional` is proved for any ids.
* `search`: two workloads of four and five calls on three threads, from an empty
  store and from one with a tombstone and ties. `MaxId` = 3 and `MaxSlots` = 5
  hold all the insertions; `SizeMax` = 15 and `Oversample` = 8 make twice the
  oversampling wrap; `MaxCount` = 75 is two blocks of 32, one of 8 and a tail.
* `commands`: `Regions` = 2 (a header and one more) gives torn files; `MaxId` = 1
  makes `start_id + i` and the counter wrap; `MaxFaults` = 2 allows a flush that
  fails twice, or fails, also unseen, and then meets a power cut. The command
  lines hold one of every way an option can be read or misread; the six input
  files a row that is refused after one that is not, a line of commas between
  rows, a column of ids, a line with an id alone, no rows at all, and another
  dimension than the database's.
* Deadlock is checked where the system cannot stop: in `database_life`, `graph`,
  `metadata` and `commands`. After a crash inside
  `create` the directory can be neither created nor opened, and the model of
  `database_crash` stops there, as the program does; a pool stops when its
  callers are done, and `search` when its workload is.

### Fairness

`Database` is checked for safety only: nobody has to call it. `FairSpec` of
`ThreadPool` has weak fairness for each worker and for each caller that is
inside a call: the operating system runs a thread that can run, a mutex that is
held for a bounded time is obtained, and a task ends. Weak fairness is for a
thread's steps together, not for each of its choices, so nothing is assumed of
which worker a notification picks or whether a task throws. `FairSpec` of
`HnswGraph` says that a call that has begun goes on, which is one thread running;
nobody has to call. Spurious wakeups
of the pool have no fairness: progress must come from notifications. Starting a call,
including destruction, has none either.
`ConcurrentDatabase` has weak fairness for each thread: the workload is finite,
so the lock itself need not be fair, and no more than that `shared_mutex` hands
itself to somebody is assumed.

## The proofs

TLAPS, for every value of the constants that their assumptions allow (any
number of ids, slots, vectors and metadata values):

| theorem | statement | assuming |
|---|---|---|
| `TypeCorrectness` | `Spec => []TypeOK` | |
| `StoreAgreement` | `Spec => []StoreAgrees` | |
| `UniqueIds` | `Spec => []LiveIdsUnique` | |
| `IndexCoverage` | `Spec => []IndexCoversStore` | |
| `HintSafety` | `Spec => []HintIsSafe` | |
| `SnapshotsHold` | `Spec => ImplementsSnapshotStore` | |
| `CleanDurability` | `Spec => []CleanIsDurable` | |
| `CleanCheck` | `Spec => []CleanChecksClean` | |
| `FreshAutoIds` | `Spec => []AutoIdsAreFresh` | no fault |
| `IndexHolds` | `Spec => []IndexDescribesStore` | no fault |
| `NoOrphans` | `Spec => []NoOrphanRows` | no fault |
| `InsertsAsGiven` | `Spec => InsertedAsGiven` | no fault |
| `DurableMapHolds` | `Spec => ImplementsDurableMap` | no fault |
| `GraphTypeCorrectness` | `Spec => []TypeOK` of `HnswGraph` | |
| `FileAcceptance` | `Spec => []ReaderAccepts` | |
| `NoNodeIsolated` | `Spec => []NobodyIsolated` | |
| `BeamClosed` | `Spec => []BeamIsClosed` | |
| `StoreTypeCorrectness` | `Spec => []TypeOK` of `MetadataStore` | `TransactionsWork` |
| `NothingPending` | `Spec => []QuietMeansCommitted` | `TransactionsWork` |
| `RowsAreTransactional` | `Spec => ImplementsTransactionalRows` | `TransactionsWork` |
| `PoolTypeCorrectness` | `Spec => []TypeOK` of `ThreadPool` | |
| `ActiveIsCounted` | `Spec => []ActiveCounts` | |
| `TasksAreConserved` | `Spec => []TasksConserved` | |
| `DestructorDrains` | `Spec => []ShutdownDrains` | |
| `WaitIdleMeansDone` | `Spec => IdleMeansDone` | |
| `WakeupsAreNotLost` | `Spec => []NoLostWakeup` | |
| `EveryIndexRuns` | `Spec => []ParallelForComplete` | |
| `DatabaseTypes` | `Spec => []TypeOK` of `ConcurrentDatabase` | |
| `ReadsAtomic` | `Spec => []ReadsAreAtomic` | |
| `MergesAreExact` | `Spec => []MergeIsExact` | |
| `CommandTypes` | `Spec => []TypeOK` of `Commands` | |
| `FilesAreWhole` | `Spec => []FileIsWhole` | |
| `SuccessSurvives` | `Spec => []SuccessIsDurable` | |
| `ExitCodesTell` | `Spec => []ExitCodeTellsTheOutcome` | |

The first eight hold whatever `Faults` contains; `CleanIsDurable` and
`CleanChecksClean` have in their own premise that no operation is half-done. The
last five of `Database` are about a life without faults, and must be: a metadata
step that throws leaves the counter behind an id in use (`database_meta`), and so
does a crash between the vector file and the counter; a row is written at once
and its vector by the next flush, so that a crash in between leaves a row
without a vector; and `database_staleindex` shows what a crash does to the
index.

* `VectorStoreProofs`: lemmas about the operators. Each operation keeps
  `StoreConsistent`; consistency implies that live ids are unique; `StoreOf` of
  slots with unique live ids is consistent; a compaction keeps ids unique. The
  arguments about the counter are about the cardinality of a set that gains or
  loses one member. The lemmas on `Contents` say what each operation does to what
  a reader sees: an insert and an upsert put one vector, a removal takes one
  away, a compaction changes nothing.
* `DatabaseProofs`: `IInv` is the inductive invariant. `StoreAgrees` is not
  inductive: that a reload is consistent needs the file's live ids to be unique
  (`DiskOK`), that a flush of an image keeps the file good needs the memory to
  be consistent (`MemoryOK`), that the graph covers the store after `create`
  needs the memory to be empty while no object exists (`Idle`), and `HintIsSafe`
  needs a directory without a configuration to have no rows. One lemma an
  action, `NextKeeps` puts them together.
* `DurabilityProofs`: `CleanIsDurable` needs `FlushProgress`, that the files a
  flush has already written are images of the memory until it ends, and that a
  database inside a flush is dirty. `AutoIdsAreFresh` needs `SavedFresh`, that
  the saved counter is past the used ids while no object exists, and equal to
  the one in memory while the database is clean. For the `SnapshotStore`, what
  memory shows (`Shown`) and what the file holds (`Saved`) are followed through
  each step: the file changes in one step, to an image of the memory, and an
  object that is given up leaves what the file shows; `Bare` says that a
  directory without a configuration has no vectors. For the `DurableMap`,
  `LifeInv` adds `WhenClosed`, that the index file of a closed database was built
  from its vector file but for the places of moved nodes, which is why `open` may
  load it; `NoOrphanRows` is what makes an insert without metadata leave none.
* `HnswGraphProofs`: for every distance with integer values, symmetric or not,
  every `M` of at least 2, `EfConstruction` of at least `M`, and any number of
  nodes, layers and moves. `GInv` is the inductive invariant: lists are valid in
  the middle of an add too (`GraphOK`); a walk stays on nodes that reach its
  layer, and keeps at least one (`CallOK`); and nobody links to the node that is
  being added on the layers not yet done (`NewIsUnseen`), which is why add
  cannot link it to itself. `SelectionBounded` says of `select_neighbours` that
  it returns candidates, within the limit, and at least one. `NobodyIsolated`
  is not inductive, since the new node, and the only other one, have no
  neighbours for a while: `LinkedInv` says for how long. `BeamInv` is why a layer
  search may stop: whom it has seen and does not keep was refused or pushed out
  by a full result in which nobody is farther, and it has seen all the
  neighbours of whom it keeps and has expanded. That a nearest and a worst
  exist is an argument about finite orders (`MaximalExists`).

* `MetadataStoreProofs`: for any number of threads and frames. `TransactionsWork` says that BEGIN and COMMIT do not fail and that
  no error makes SQLite roll back by itself; statements may fail, bodies may
  swallow the exception, the process may be killed. It cannot be dropped:
  `metadata_leak` shows what a BEGIN that throws does. In `IInv`, `Balanced`
  says that SQLite's transaction, the `Transaction` object and the depth go
  together; `DepthCounted`, that the depth counts no more than the open frames
  and the call under way, where it counts less after a rollback that took off
  everybody's frames; `JobCounted`, that a call of several statements is always
  inside a transaction. For the refinement `RInv` adds `JobMeans`, which ties the
  rows between two statements to the call under way: what is left to do, and the
  base with the part of the call that is done, so that when nothing is left the
  rows are those the call was asked for; and `KeysUnique`, the primary key of the
  table. That a body's return commits when, and only when, it is the last one is
  counting: the depth is the open frames and the call under way unless bodies are
  loose.

* `ThreadPoolProofs`: for any finite number of workers (at least one) and
  callers, and tasks that submit tasks or wait. `IInv` is the inductive
  invariant. `TasksConserved` needs that a task which is queued is not one that
  was queued before (`Fresh`): calls are numbered, and the chunks of a call
  within it. `ShutdownDrains` needs `Draining`: nobody calls once the destructor
  has begun, and a worker leaves an empty queue only. `NoLostWakeup` is inductive on
  top of it, by counting: each `submit` puts its own thread among those `OnTheWay`,
  each `notify_one` exchanges it for a worker if one sleeps, and a worker that takes a
  task leaves with it.
  `EveryIndexRuns` rests on the arithmetic of parallel_for, that the chunks in
  their order end at the count and every index is in one (`ChunksInOrder`,
  `OneChunkEach`), and on a caller submitting and awaiting exactly these
  (`Awaits`, `OwnTask`).

* `ConcurrentDatabaseProofs`: for any number of threads, any workload, metric and
  first store that `DatabaseAssumption` allows. First the collector. `Keeps(k,
  kept, cands)` says that `kept` is the best of `cands`, at most `k` of them, and
  full if it left one out. An offer preserves it (`OfferKeeps`), so do
  search_range (`SearchRangeKeeps`) and the loop of merge_top_k, which may leave a
  sorted list early because the rest of it is no better (`OfferSortedKeeps`); the
  best of the best of two parts are the best of both (`MergedIsBest`), and
  `TakeSorted` lists a set in the order of distance and slot
  (`TakeSortedSorts`, where a candidate's rank is the number of better ones).
  Together these are `MergesAreExact`. `ResultsFit` says what `Results` makes of the
  candidates kept: filtered or not, with the hint up or down.
  `CInv` is the inductive invariant: the lock is held by the threads that think so,
  by readers or by one writer (`LockInv`); the last version is the database
  unless a writer is inside (`LogInv`); the store is consistent, and without the
  hint there are no rows (`DatabaseInv`); a scan that has come to a slot keeps
  the best of the live slots below it, as the store is now (`ThreadInv`). An
  answer then fits the last version, which the log had, or got, since the call
  began; later writes only append (`AnswerInv`). `ReadsAreAtomic` alone is not
  inductive: nothing in it says what a scan has found half-way.

* `CommandsProofs`: for any command lines, files and numbers of regions, and
  any number of faults. `IInv` says how far a flush has come (`FlushOK`: the
  temporary file is a first part of the file of the memory, then all of it, then
  synced, and only then renamed, which is why a reader finds whole files) and
  where the process is (`ProcessOK`). `DurableInv` adds what a power cut can leave
  at each place of a writing command, `OutcomeInv` what has been done to the
  contents at each row of an import, in the terms of the line as it is meant.
  What carries the one to the other is `AcceptedAlike`: a line that no handler
  refuses and that is not among the misread ones is read by `Parse` as by
  `Reading`, although the program does not know which options are flags. A word
  that it takes for the value of a flag changes no other option (`ReadAlike`); it is
  missed among the arguments, but a delete that finds two all the same was
  typed with more than it looks at, which is a misread line
  (`ArgumentsAlike`). For
  the import, the rows of the batch are the lines with components, under their
  own ids unless some line has none (`NoneLeftOut`, `RowIdOf`). `DurableInv` follows
  `anchored` and `unseen`: `Settle` and a power cut that keeps the directory are
  what makes the promise begin, a sync that fails unseen what suspends it.

Every property that a passing run checks is proved, but for liveness: that calls
return (`HnswGraph`, `ConcurrentDatabase`), and that parallel_for, wait_idle and the
destructor do (`ThreadPool`). Liveness under fairness is out of the prover's
reach. Model-checked only are these, and `Kernels`, up to `MaxCount` components.

The prover cannot apply an induction theorem to a formula, so what a recursive
function computes is proved by well-founded minima: of the numbers up to `N` for
which something fails there would be a least one (`ReachesAll`, from `WFMin`),
and for the same reason the recursion has a solution (`RecursionSolvable`). No
module uses a recursive operator.

## Not modelled

* The recall of a search: how near what it returns is to the true answer. That
  every node stays reachable is not promised, and is not checked.
* The random generator of the levels and its saved state; the generation
  counter of the visited set, which takes 2^32 searches of one thread to wrap.
* The parser of the filter language, which has no state; JSON; what the commands
  print.
* Floating-point arithmetic: `Kernels` is about what is read, not about sums.
  Rank keys are integers, so no key is a NaN.
* Byte layouts and checksums: a torn file is recognised by a region it lacks.
* The generators of data sets, which compute one result from a seed.
* Two processes on one directory: nothing in the code makes it safe, and the
  documents do not speak of it.
* Addresses: that the index never keeps a pointer into an array that has moved.

## The plan

Done: `VectorStore`, `Database` with its abstract specifications, `ThreadPool`,
`HnswGraph`, `MetadataStore` with its abstract specification, `Search` and
`ConcurrentDatabase`, `Kernels`, `AtomicFile` and `Commands`; the proofs above.

Left, in order of worth:

1. `Kernels` for vectors of any dimension: that the loops of a kernel continue
   one another to the end.
2. A module for the visited set with its generation counter, shown to be a set.
3. `ConcurrentDatabase` as a refinement of a store that answers each call in one
   step, of which `ReadsAreAtomic` is the part about values.
