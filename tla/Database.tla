------------------------------ MODULE Database -------------------------------
(***************************************************************************)
(* The life of one database directory and of the Database object that has  *)
(* it open: three artefacts on disk that are not written together (the     *)
(* vector file, the index file, the SQLite file with the metadata rows and *)
(* the configuration) and their copies in memory.                          *)
(*                                                                         *)
(* An operation of the API is one action, up to the write of a file: a     *)
(* flush is three steps, and between two of them the process may stop or a *)
(* step may throw.  Metadata is written to SQLite by the operation itself. *)
(***************************************************************************)
EXTENDS VectorStore

CONSTANTS
    Metas,      \* the non-empty metadata values
    NoMeta,     \* the empty metadata: no row in SQLite
    IndexTypes, \* the index types a database is created with
    Places,     \* the places in the graph, as far as they are told apart
    Place,      \* the place where a vector belongs
    Faults      \* what may go wrong: "crash", "io", "meta"

ASSUME DatabaseAssumption ==
    /\ NoMeta \notin Metas
    /\ IndexTypes \subseteq {"hnsw", "brute"}
    /\ Place \in [Vecs -> Places]
    /\ Faults \subseteq {"crash", "io", "meta"}

VARIABLES
    \* the process
    phase,      \* where the program stands; "open" between two API calls
    caller,     \* who asked for the flush under way
    \* memory: Database::Impl
    store, index, nextId, dirty, hasMeta,
    \* disk
    dir,        \* the directory: absent, bare (not configured) or its index type
    vfile, ifile, rows, savedNext,
    \* history
    used,       \* the ids the store has ever taken a vector for
    moved,      \* the slots whose vector belongs elsewhere since an upsert,
                \* until the graph is built anew
    halfDone    \* whether an operation is half-done that dirty does not show

memory == <<store, index, nextId, dirty, hasMeta>>
disk   == <<dir, vfile, ifile, rows, savedNext>>
history == <<used, moved, halfDone>>
vars   == <<phase, caller, memory, disk, history>>

Flushing == {"vectors", "index", "nextid"}
Working  == phase \in Flushing \cup {"open"}
Metadata == Metas \cup {NoMeta}

(***************************************************************************)
(* The index as far as its owner can tell: in slot order the id each node  *)
(* was linked for and the place where it was linked, and its live counter. *)
(* A brute-force index keeps nothing of its own, so it stays empty.        *)
(***************************************************************************)
Node  == [id : Ids, at : Places]

NodeFor(id, v) == [id |-> id, at |-> Place[v]]

Index == [nodes : Seq(Node), live : Nat]

EmptyIndex == [nodes |-> <<>>, live |-> 0]

IndexAdd(id, v) ==
    IF dir = "hnsw"
    THEN [nodes |-> Append(index.nodes, NodeFor(id, v)), live |-> index.live + 1]
    ELSE index

\* Mutant: the counter is not taken down.
IndexRemoveForgets == index

IndexRemove ==
    [index EXCEPT !.live = IF @ > 0 THEN @ - 1 ELSE @]

\* build_index replays every slot and takes the tombstones out again.
BuildIndex(slots) ==
    IF dir = "hnsw"
    THEN [nodes |-> [i \in DOMAIN slots |-> NodeFor(slots[i].id, slots[i].vec)],
          live  |-> Cardinality(LiveSlots(slots))]
    ELSE EmptyIndex

-----------------------------------------------------------------------------
Init ==
    /\ phase = "closed"
    /\ caller = "none"
    /\ store = EmptyStore
    /\ index = EmptyIndex
    /\ nextId = 0
    /\ dirty = FALSE
    /\ hasMeta = FALSE
    /\ dir = "absent"
    /\ vfile = [slots |-> <<>>, liveCount |-> 0]
    /\ ifile = {}
    /\ rows = [id \in Ids |-> NoMeta]
    /\ savedNext = 0
    /\ used = {}
    /\ moved = {}
    /\ halfDone = FALSE

\* The Database object is gone and its memory with it.
Forget ==
    /\ phase' = "closed"
    /\ caller' = "none"
    /\ store' = EmptyStore
    /\ index' = EmptyIndex
    /\ nextId' = 0
    /\ dirty' = FALSE
    /\ hasMeta' = FALSE
    /\ halfDone' = FALSE
    /\ UNCHANGED <<used, moved>>

(***************************************************************************)
(* create and open                                                         *)
(***************************************************************************)
\* create refuses a directory that exists; then it makes the directory and
\* an SQLite file without a configuration.
Create ==
    /\ phase = "closed"
    /\ dir = "absent"
    /\ dir' = "bare"
    /\ phase' = "config"
    /\ UNCHANGED <<caller, memory, vfile, ifile, rows, savedNext, history>>

\* persist_config, one transaction; build_index; the first flush begins.
PersistConfig(type) ==
    /\ phase = "config"
    /\ dir' = type
    /\ savedNext' = nextId
    /\ dirty' = TRUE
    /\ phase' = "vectors"
    /\ caller' = "create"
    /\ UNCHANGED <<store, index, nextId, hasMeta, vfile, ifile, rows, history>>

\* No Database object exists yet, so nothing is flushed on the way out.
PersistConfigFails ==
    /\ "io" \in Faults
    /\ phase = "config"
    /\ Forget
    /\ UNCHANGED disk

\* Mutant: the hint starts as FALSE.
OpenStoreWithoutHint ==
    /\ phase = "closed"
    /\ dir \in IndexTypes
    /\ vfile.liveCount = Cardinality(LiveSlots(vfile.slots))
    /\ store' = StoreOf(vfile.slots)
    /\ nextId' = savedNext
    /\ hasMeta' = FALSE
    /\ phase' = "open"
    /\ UNCHANGED <<caller, disk, used, halfDone>>

\* What every open reads.  A missing vector file is an empty store, which is
\* what vfile is at first; a file whose header disagrees with its liveness
\* bytes is refused.
OpenStore ==
    /\ phase = "closed"
    /\ dir \in IndexTypes
    /\ vfile.liveCount = Cardinality(LiveSlots(vfile.slots))
    /\ store' = StoreOf(vfile.slots)
    /\ nextId' = savedNext
    /\ hasMeta' = (\E id \in Ids : rows[id] # NoMeta)
    /\ phase' = "open"
    /\ UNCHANGED <<caller, disk, used, halfDone>>

\* Mutant: the node count is not compared.
LoadableUnchecked == {x \in ifile : dir = "hnsw"}

\* read_hnsw_file compares the node count with the slot count, and nothing
\* else, with the store.
Loadable == {x \in ifile : dir = "hnsw" /\ Len(x.nodes) = Len(vfile.slots)}

OpenLoadingIndex ==
    /\ OpenStore
    /\ index' \in Loadable
    /\ dirty' = FALSE
    /\ UNCHANGED moved

\* Mutant: a rebuilt index does not count as a change.
OpenRebuildingIndexClean ==
    /\ OpenStore
    /\ Loadable = {}
    /\ index' = BuildIndex(vfile.slots)
    /\ moved' = {}
    /\ dirty' = FALSE

OpenRebuildingIndex ==
    /\ OpenStore
    /\ Loadable = {}
    /\ index' = BuildIndex(vfile.slots)
    /\ moved' = {}
    /\ dirty' = (dir = "hnsw")

(***************************************************************************)
(* Writing.  dirty is the last thing an operation sets: an operation whose *)
(* metadata step throws leaves its earlier steps done and dirty as it was. *)
(***************************************************************************)
\* Mutants: a counter wider than an id; > for >=.
NextAfterUnbounded(id) == IF id >= nextId THEN id + 1 ELSE nextId

NextAfterStrict(id) == IF id > nextId THEN (id + 1) % (MaxId + 1) ELSE nextId

NextAfter(id) == IF id >= nextId THEN (id + 1) % (MaxId + 1) ELSE nextId

InsertVector(id, v) ==
    /\ phase = "open"
    /\ CanInsert(store, id)
    /\ store' = StoreInsert(store, id, v)
    /\ index' = IndexAdd(id, v)
    /\ used' = used \cup {id}
    /\ UNCHANGED <<phase, caller, dir, vfile, ifile, savedNext, moved>>

Insert(id, v, m) ==
    /\ InsertVector(id, v)
    /\ rows' = IF m = NoMeta THEN rows ELSE [rows EXCEPT ![id] = m]
    /\ hasMeta' = (hasMeta \/ m # NoMeta)
    /\ nextId' = NextAfter(id)
    /\ dirty' = TRUE
    /\ halfDone' = FALSE

InsertAuto(v, m) == Insert(nextId, v, m)

InsertMetadataFails(id, v) ==
    /\ "meta" \in Faults
    /\ InsertVector(id, v)
    /\ halfDone' = ~dirty
    /\ UNCHANGED <<rows, hasMeta, nextId, dirty>>

\* The index is not told: the node stays where the old vector was.
UpsertVector(id, v) ==
    /\ phase = "open"
    /\ Contains(store, id)
    /\ store' = StoreUpsert(store, id, v)
    /\ moved' = moved \cup {i \in {store.idToLocal[id]} :
                               Place[store.slots[i].vec] # Place[v]}
    /\ UNCHANGED <<phase, caller, index, nextId, dir, vfile, ifile, savedNext, used>>

Upsert(id, v, m) ==
    \/ /\ UpsertVector(id, v)
       /\ rows' = [rows EXCEPT ![id] = m]
       /\ hasMeta' = (hasMeta \/ m # NoMeta)
       /\ dirty' = TRUE
       /\ halfDone' = FALSE
    \/ Insert(id, v, m)

UpsertMetadataFails(id, v) ==
    /\ "meta" \in Faults
    /\ UpsertVector(id, v)
    /\ halfDone' = ~dirty
    /\ UNCHANGED <<rows, hasMeta, dirty>>

RemoveVector(id) ==
    /\ phase = "open"
    /\ Contains(store, id)
    /\ store' = StoreRemove(store, id)
    /\ index' = IndexRemove
    /\ UNCHANGED <<phase, caller, nextId, hasMeta, dir, vfile, ifile, savedNext,
                   used, moved>>

\* Mutant: the metadata stays.
RemoveVectorOnly(id) ==
    /\ RemoveVector(id)
    /\ dirty' = TRUE
    /\ halfDone' = FALSE
    /\ UNCHANGED rows

Remove(id) ==
    /\ RemoveVector(id)
    /\ rows' = [rows EXCEPT ![id] = NoMeta]
    /\ dirty' = TRUE
    /\ halfDone' = FALSE

RemoveMetadataFails(id) ==
    /\ "meta" \in Faults
    /\ RemoveVector(id)
    /\ halfDone' = ~dirty
    /\ UNCHANGED <<rows, dirty>>

\* Mutant: the id is not looked up first.
SetMetadataUnchecked(id, m) ==
    /\ phase = "open"
    /\ rows' = [rows EXCEPT ![id] = m]
    /\ hasMeta' = (hasMeta \/ m # NoMeta)
    /\ UNCHANGED <<phase, caller, store, index, nextId, dirty,
                   dir, vfile, ifile, savedNext, history>>

SetMetadata(id, m) ==
    /\ phase = "open"
    /\ Contains(store, id)
    /\ rows' = [rows EXCEPT ![id] = m]
    /\ hasMeta' = (hasMeta \/ m # NoMeta)
    /\ UNCHANGED <<phase, caller, store, index, nextId, dirty,
                   dir, vfile, ifile, savedNext, history>>

(***************************************************************************)
(* Flushing and maintenance                                                *)
(***************************************************************************)
StartFlush(who) ==
    /\ phase' = "vectors"
    /\ caller' = who

Flush ==
    /\ phase = "open"
    /\ dirty
    /\ StartFlush("flush")
    /\ UNCHANGED <<memory, disk, history>>

RebuildIndex ==
    /\ phase = "open"
    /\ index' = BuildIndex(store.slots)
    /\ dirty' = TRUE
    /\ StartFlush("flush")
    /\ moved' = {}
    /\ halfDone' = FALSE
    /\ UNCHANGED <<store, nextId, hasMeta, disk, used>>

Compact ==
    /\ phase = "open"
    /\ TombstoneCount(store) > 0
    /\ \E slots \in Compactions(store.slots) :
           /\ store' = StoreOf(slots)
           /\ index' = BuildIndex(slots)
    /\ dirty' = TRUE
    /\ StartFlush("flush")
    /\ moved' = {}
    /\ halfDone' = FALSE
    /\ UNCHANGED <<nextId, hasMeta, disk, used>>

\* The destructor flushes what is dirty.
Close ==
    /\ phase = "open"
    /\ IF dirty THEN StartFlush("close") /\ UNCHANGED <<memory, history>> ELSE Forget
    /\ UNCHANGED disk

WriteVectors ==
    /\ phase = "vectors"
    /\ vfile' = [slots |-> store.slots, liveCount |-> store.liveCount]
    /\ phase' = IF dir = "hnsw" THEN "index" ELSE "nextid"
    /\ UNCHANGED <<caller, memory, dir, ifile, rows, savedNext, history>>

WriteIndex ==
    /\ phase = "index"
    /\ ifile' = {index}
    /\ phase' = "nextid"
    /\ UNCHANGED <<caller, memory, dir, vfile, rows, savedNext, history>>

\* The last line of flush, and the return to its caller.
EndFlush ==
    \/ /\ caller = "close"
       /\ Forget
    \/ /\ caller # "close"
       /\ phase' = "open"
       /\ caller' = "none"
       /\ dirty' = FALSE
       /\ UNCHANGED <<store, index, nextId, hasMeta, history>>

\* Mutant: the id counter is not saved.
SaveNothing ==
    /\ phase = "nextid"
    /\ EndFlush
    /\ UNCHANGED disk

SaveNextId ==
    /\ phase = "nextid"
    /\ savedNext' = nextId
    /\ EndFlush
    /\ UNCHANGED <<dir, vfile, ifile, rows>>

\* Mutant: the file is written in place.
FlushTearsFile ==
    /\ "io" \in Faults
    /\ phase = "vectors"
    /\ \E n \in 0 .. Len(store.slots) :
           vfile' = [slots |-> SubSeq(store.slots, 1, n), liveCount |-> store.liveCount]
    /\ phase' = "open"
    /\ caller' = "none"
    /\ UNCHANGED <<memory, dir, ifile, rows, savedNext, history>>

\* A write throws: before the rename took effect or, when the directory
\* cannot be opened for its fsync, after it.  The exception leaves a database
\* that is still dirty, except in the destructor, which swallows it; out of
\* create it destroys the new object, which tries to flush once more.
FlushFails ==
    /\ "io" \in Faults
    /\ phase \in Flushing
    /\ \/ UNCHANGED <<vfile, ifile>>
       \/ /\ phase = "vectors"
          /\ vfile' = [slots |-> store.slots, liveCount |-> store.liveCount]
          /\ UNCHANGED ifile
       \/ /\ phase = "index"
          /\ ifile' = {index}
          /\ UNCHANGED vfile
    /\ \/ /\ caller = "flush"
          /\ phase' = "open"
          /\ caller' = "none"
          /\ UNCHANGED <<memory, history>>
       \/ caller = "create" /\ StartFlush("close") /\ UNCHANGED <<memory, history>>
       \/ caller = "close"  /\ Forget
    /\ UNCHANGED <<dir, rows, savedNext>>

Crash ==
    /\ "crash" \in Faults
    /\ phase # "closed"
    /\ Forget
    /\ UNCHANGED disk

\* Mutant: the live slots are counted.
CheckErrorsOfLive ==
    {"index" : x \in {y \in ifile : dir = "hnsw" /\ Len(y.nodes) # store.liveCount}}

\* What check reports as errors: it compares the files with the store in
\* memory.  A file that is missing is an error when there are slots (so is
\* one without a vector, a case of its own in the code).  The tests of the
\* header and of the dimension have nothing to fail on here: both are written
\* once, by the flush that writes the file.
CheckErrors ==
    {"vectors" : x \in {y \in {vfile} : y.slots = <<>> /\ store.slots # <<>>}}
    \cup {"index" : x \in {y \in ifile : dir = "hnsw" /\ Len(y.nodes) # Len(store.slots)}}

-----------------------------------------------------------------------------
Lifecycle ==
    \/ Create
    \/ \E type \in IndexTypes : PersistConfig(type)
    \/ PersistConfigFails
    \/ OpenLoadingIndex
    \/ OpenRebuildingIndex
    \/ Close
    \/ Crash

Writing ==
    \E id \in Ids, v \in Vecs :
        \/ \E m \in Metadata : \/ Insert(id, v, m)
                               \/ Upsert(id, v, m)
        \/ InsertMetadataFails(id, v)
        \/ UpsertMetadataFails(id, v)

AutoWriting == \E v \in Vecs, m \in Metadata : InsertAuto(v, m)

Removing ==
    \E id \in Ids :
        \/ Remove(id)
        \/ RemoveMetadataFails(id)
        \/ \E m \in Metadata : SetMetadata(id, m)

Maintenance ==
    \/ Flush
    \/ RebuildIndex
    \/ Compact
    \/ WriteVectors
    \/ WriteIndex
    \/ SaveNextId
    \/ FlushFails

Next == Lifecycle \/ Writing \/ AutoWriting \/ Removing \/ Maintenance

Spec == Init /\ [][Next]_vars
-----------------------------------------------------------------------------
(***************************************************************************)
(* Properties that hold whatever goes wrong                                *)
(***************************************************************************)
\* The type invariant.
TypeOK ==
    /\ phase \in Flushing \cup {"closed", "config", "open"}
    /\ caller \in {"none", "create", "flush", "close"}
    /\ store \in Store
    /\ index \in Index
    /\ nextId \in Ids
    /\ dirty \in BOOLEAN
    /\ hasMeta \in BOOLEAN
    /\ dir \in {"absent", "bare"} \cup IndexTypes
    /\ vfile \in [slots : Seq(Slot), liveCount : Nat]
    /\ ifile \in SUBSET Index
    /\ rows \in [Ids -> Metadata]
    /\ savedNext \in Ids
    /\ used \in SUBSET Ids
    /\ moved \in SUBSET Nat
    /\ halfDone \in BOOLEAN

\* The id map, the liveness bytes and the live counter agree after every
\* operation, and so do the counter and the bytes of the vector file, which
\* read_vector_file would otherwise refuse: a directory that was configured
\* can be opened again.
StoreAgrees ==
    /\ StoreConsistent(store)
    /\ vfile.liveCount = Cardinality(LiveSlots(vfile.slots))

\* No two live slots hold one id, in memory or in the file: a search never
\* reports an id twice, and loading the file loses no vector.
LiveIdsUnique ==
    \A slots \in {store.slots, vfile.slots} :
        \A i, j \in LiveSlots(slots) : slots[i].id = slots[j].id => i = j

\* The graph has a node for every slot and for no other.  HnswIndex::add
\* throws when it has not, after the store has taken the vector.
IndexCoversStore ==
    Working => Len(index.nodes) = IF dir = "hnsw" THEN Len(store.slots) ELSE 0

\* has_metadata_ is stale in the safe direction only: a search that skips the
\* metadata because the hint is false skips nothing.
HintIsSafe ==
    Working /\ ~hasMeta => \A id \in Ids : rows[id] = NoMeta

\* Over vectors the database is a SnapshotStore: a crash, a failed write or a
\* failed close loses what came after the last vector file, all of it and
\* nothing else, and no other operation than the one called changes anything.
Snapshot == INSTANCE SnapshotStore WITH
    contents <- IF Working THEN Contents(store.slots) ELSE Contents(vfile.slots),
    saved    <- Contents(vfile.slots)

ImplementsSnapshotStore == Snapshot!Spec

\* flush() is "a no-op when nothing has changed": a database that is not
\* dirty has on disk what it has in memory, unless the metadata step of an
\* operation has thrown since, which leaves the operation half-done and
\* dirty_ as it was.
CleanIsDurable ==
    phase = "open" /\ ~dirty /\ ~halfDone =>
        /\ vfile = [slots |-> store.slots, liveCount |-> store.liveCount]
        /\ savedNext = nextId
        /\ dir = "hnsw" => ifile = {index}

\* check raises no false alarm: of a database that has nothing to flush, and
\* no half-done operation either, it reports no error, whatever crash or
\* failed write came before.  What an open has mended in memory only it does
\* report.
CleanChecksClean ==
    phase = "open" /\ ~dirty /\ ~halfDone => CheckErrors = {}

(***************************************************************************)
(* Properties that need every operation and every flush to run to its end  *)
(***************************************************************************)
\* The ids the nodes were linked for.
NodeIds(x) == [i \in DOMAIN x.nodes |-> x.nodes[i].id]

\* An index is the one a rebuild would make of the slots, but for the places
\* of the nodes whose vector an upsert has replaced since.
Describes(x, slots) ==
    LET built == BuildIndex(slots)
    IN  /\ x.live = built.live
        /\ Len(x.nodes) = Len(built.nodes)
        /\ \A i \in DOMAIN x.nodes :
               /\ x.nodes[i].id = built.nodes[i].id
               /\ i \notin moved => x.nodes[i].at = built.nodes[i].at

\* The graph belongs to the slots it is searched with: every node to the id
\* of its slot, the counter to the live ones, and a node is in its slot's
\* place unless upsert has replaced the vector under it ("the node is in the
\* wrong place in the graph until a rebuild", database.cpp).
IndexDescribesStore ==
    Working => Describes(index, store.slots)

\* The same of the ids alone: "an index that disagrees with the vector store
\* is rebuilt rather than trusted" (database.hpp).
GraphDescribesStore ==
    Working => NodeIds(index) = NodeIds(BuildIndex(store.slots))

\* An automatic id is past every id the store has ever taken, until 2^64 - 1
\* has been: "one past the highest ever used" (database.hpp).
AutoIdsAreFresh ==
    Working /\ MaxId \notin used => \A id \in used : id < nextId

\* A vector has the metadata it was inserted with; above all none, when it
\* was inserted with none.
InsertedAsGiven ==
    [][\A id \in Ids, v \in Vecs, m \in Metadata :
           Insert(id, v, m) => rows'[id] = m]_vars

\* Every metadata row belongs to a vector.
NoOrphanRows ==
    \A id \in Ids :
        rows[id] # NoMeta =>
            id \in LiveIds(IF Working THEN store.slots ELSE vfile.slots)

\* The database is a DurableMap: what was written, vector and metadata and
\* the next id, is there until it is overwritten, through any number of
\* closings, openings, compactions and rebuilds.
View(slots) ==
    LET vectors == Contents(slots)
    IN  [id \in DOMAIN vectors |-> [vec |-> vectors[id], meta |-> rows[id]]]

Durable == INSTANCE DurableMap WITH
    entries <- View(IF Working THEN store.slots ELSE vfile.slots),
    next    <- IF Working THEN nextId ELSE savedNext

ImplementsDurableMap == Durable!Spec
=============================================================================
