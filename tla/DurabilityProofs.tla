-------------------------- MODULE DurabilityProofs ---------------------------
(***************************************************************************)
(* What the database promises over its whole life, each under the faults   *)
(* it withstands:                                                          *)
(*  - over vectors it is a SnapshotStore, whatever crashes or throws;      *)
(*  - a clean database is durable, and passes its own check, whatever      *)
(*    crashes and whichever write or metadata step throws;                 *)
(*  - when nothing goes wrong automatic ids are fresh, the index describes *)
(*    the store, and the database is a DurableMap over vectors, metadata   *)
(*    and the next id.                                                     *)
(***************************************************************************)
EXTENDS DatabaseProofs

\* The vector file that a flush makes of the store.
Image == [slots |-> store.slots, liveCount |-> store.liveCount]

(***************************************************************************)
(* A clean database is durable.  On the way through a flush the files that *)
(* are already written stay images of the memory, because nothing else     *)
(* runs until it ends; there is at most one index file.                    *)
(***************************************************************************)
FlushProgress ==
    /\ \A x, y \in ifile : x = y
    /\ phase \in Flushing => dirty
    /\ phase \in {"index", "nextid"} => vfile = Image
    /\ phase = "nextid" /\ dir = "hnsw" => ifile = {index}

DurableInv == IInv /\ FlushProgress /\ CleanIsDurable

\* Steps of an operation that end with dirty_ set.
LEMMA DirtyStepKeeps ==
    ASSUME FlushProgress, dirty' = TRUE, UNCHANGED <<vfile, ifile>>,
           phase' \in {"open", "vectors"}
    PROVE  FlushProgress' /\ CleanIsDurable'
  BY DEF FlushProgress, CleanIsDurable, Flushing

\* Steps that leave behind an object that does not exist any more.
LEMMA ForgetKeepsDurable ==
    ASSUME Forget, \A x, y \in ifile' : x = y
    PROVE  FlushProgress' /\ CleanIsDurable'
  BY DEF Forget, FlushProgress, CleanIsDurable, Flushing

\* open: what is loaded is what is on disk, and what is rebuilt is dirty.
LEMMA OpenKeepsDurable ==
    ASSUME IInv, FlushProgress, OpenLoadingIndex \/ OpenRebuildingIndex
    PROVE  FlushProgress' /\ CleanIsDurable'
  <1>1. /\ phase' = "open"
        /\ UNCHANGED <<dir, vfile, ifile, savedNext>>
        /\ nextId' = savedNext
        /\ store' = StoreOf(vfile.slots)
        /\ vfile.liveCount = Cardinality(LiveSlots(vfile.slots))
    BY DEF OpenLoadingIndex, OpenRebuildingIndex, OpenStore, disk
  <1>2. vfile' = Image'
    <2>1. /\ store'.slots = vfile.slots
          /\ store'.liveCount = vfile.liveCount
      BY <1>1 DEF StoreOf
    <2>2. vfile = [slots |-> vfile.slots, liveCount |-> vfile.liveCount]
      BY DEF IInv, DiskOK
    <2>3. QED
      BY <1>1, <2>1, <2>2 DEF Image
  <1>3. FlushProgress'
    BY <1>1 DEF FlushProgress, Flushing
  <1>4. CASE OpenLoadingIndex
    <2>1. index' \in ifile
      BY <1>4 DEF OpenLoadingIndex, Loadable
    <2>2. ifile' = {index'}
      BY <1>1, <2>1 DEF FlushProgress
    <2>3. QED
      BY <1>1, <1>2, <1>3, <2>2 DEF CleanIsDurable, Image
  <1>5. CASE OpenRebuildingIndex
    <2>1. dirty' = (dir = "hnsw")
      BY <1>5 DEF OpenRebuildingIndex
    <2>2. QED
      BY <1>1, <1>2, <1>3, <2>1 DEF CleanIsDurable, Image
  <1>6. QED
    BY <1>4, <1>5

\* The steps of a flush, and a step of it that throws.
LEMMA FlushKeepsDurable ==
    ASSUME IInv, FlushProgress, WriteVectors \/ WriteIndex \/ SaveNextId \/ FlushFails
    PROVE  FlushProgress' /\ CleanIsDurable'
  <1>1. CASE WriteVectors
    BY <1>1 DEF WriteVectors, memory, FlushProgress, CleanIsDurable, Flushing, Image
  <1>2. CASE WriteIndex
    BY <1>2 DEF WriteIndex, memory, FlushProgress, CleanIsDurable, Flushing, Image
  <1>3. CASE SaveNextId
    <2>1. vfile = Image /\ (dir = "hnsw" => ifile = {index})
      BY <1>3 DEF SaveNextId, FlushProgress
    <2>2. CASE caller = "close"
      BY <1>3, <2>2, ForgetKeepsDurable DEF SaveNextId, EndFlush, FlushProgress
    <2>3. CASE caller # "close"
      BY <1>3, <2>1, <2>3 DEF SaveNextId, EndFlush, FlushProgress, CleanIsDurable,
                              Flushing, Image
    <2>4. QED
      BY <2>2, <2>3
  <1>4. CASE FlushFails
    <2>1. /\ dirty
          /\ \A x, y \in ifile' : x = y
      BY <1>4 DEF FlushFails, FlushProgress
    <2>2. CASE caller = "close"
      BY <1>4, <2>1, <2>2, ForgetKeepsDurable DEF FlushFails
    <2>3. CASE caller # "close"
      <3>1. phase' \in {"open", "vectors"} /\ UNCHANGED memory
        BY <1>4, <2>3 DEF FlushFails, StartFlush
      <3>2. QED
        BY <2>1, <3>1 DEF memory, FlushProgress, CleanIsDurable, Flushing
    <2>4. QED
      BY <2>2, <2>3
  <1>5. QED
    BY <1>1, <1>2, <1>3, <1>4

\* An operation that is half-done shows, by dirty_ or to halfDone.
LEMMA HalfDoneKeeps ==
    ASSUME FlushProgress, UNCHANGED <<vfile, ifile>>, phase' = "open",
           dirty' = dirty, halfDone' = ~dirty
    PROVE  FlushProgress' /\ CleanIsDurable'
  BY DEF FlushProgress, CleanIsDurable, Flushing

\* Every step keeps DurableInv.
LEMMA DurableStep ==
    ASSUME DurableInv, [Next]_vars
    PROVE  DurableInv'
  <1>1. IInv' /\ IInv /\ FlushProgress /\ CleanIsDurable
    BY NextKeeps DEF DurableInv
  <1>2. CASE Lifecycle
    <2> SUFFICES FlushProgress' /\ CleanIsDurable'
      BY <1>1 DEF DurableInv
    <2>1. CASE Create
      BY <1>1, <2>1 DEF Create, memory, FlushProgress, CleanIsDurable, Flushing
    <2>2. CASE \E type \in IndexTypes : PersistConfig(type)
      BY <1>1, <2>2, DirtyStepKeeps DEF PersistConfig
    <2>3. CASE PersistConfigFails \/ Crash
      BY <1>1, <2>3, ForgetKeepsDurable DEF PersistConfigFails, Crash, disk, FlushProgress
    <2>4. CASE OpenLoadingIndex \/ OpenRebuildingIndex
      BY <1>1, <2>4, OpenKeepsDurable
    <2>5. CASE Close
      <3>1. CASE dirty
        BY <1>1, <2>5, <3>1 DEF Close, StartFlush, memory, disk, FlushProgress,
                                CleanIsDurable, Flushing
      <3>2. CASE ~dirty
        BY <1>1, <2>5, <3>2, ForgetKeepsDurable DEF Close, disk, FlushProgress
      <3>3. QED
        BY <3>1, <3>2
    <2>6. QED
      BY <1>2, <2>1, <2>2, <2>3, <2>4, <2>5 DEF Lifecycle
  <1>3. ASSUME NEW id \in Ids, NEW v \in Vecs, NEW m \in Metadata,
               Insert(id, v, m) \/ Upsert(id, v, m)
        PROVE  DurableInv'
    <2>1. /\ dirty' = TRUE /\ phase' = "open"
          /\ UNCHANGED <<vfile, ifile>>
      BY <1>3 DEF Insert, InsertVector, Upsert, UpsertVector
    <2>2. QED
      BY <1>1, <2>1, DirtyStepKeeps DEF DurableInv
  <1>4. CASE Writing
    <2>1. CASE \E id \in Ids, v \in Vecs :
                   InsertMetadataFails(id, v) \/ UpsertMetadataFails(id, v)
      BY <1>1, <2>1, HalfDoneKeeps
      DEF InsertMetadataFails, InsertVector, UpsertMetadataFails, UpsertVector, DurableInv
    <2>2. QED
      BY <1>3, <1>4, <2>1 DEF Writing
  <1>5. CASE AutoWriting
    <2>1. nextId \in Ids
      BY <1>1 DEF IInv, MemoryOK
    <2>2. QED
      BY <1>3, <1>5, <2>1 DEF AutoWriting, InsertAuto
  <1>6. CASE Removing
    <2>1. CASE \E id \in Ids : Remove(id)
      BY <1>1, <2>1, DirtyStepKeeps DEF Remove, RemoveVector, DurableInv
    <2>2. CASE \E id \in Ids, m \in Metadata : SetMetadata(id, m)
      BY <1>1, <2>2 DEF SetMetadata, DurableInv, FlushProgress, CleanIsDurable,
                        Flushing, Image, history
    <2>3. CASE \E id \in Ids : RemoveMetadataFails(id)
      BY <1>1, <2>3, HalfDoneKeeps DEF RemoveMetadataFails, RemoveVector, DurableInv
    <2>4. QED
      BY <1>6, <2>1, <2>2, <2>3 DEF Removing
  <1>7. CASE Maintenance
    <2>1. CASE Flush \/ RebuildIndex \/ Compact
      <3>1. dirty' = TRUE /\ phase' = "vectors" /\ UNCHANGED <<vfile, ifile>>
        BY <1>1, <2>1 DEF Flush, RebuildIndex, Compact, StartFlush, memory, disk,
                          IInv, MemoryOK
      <3>2. QED
        BY <1>1, <3>1, DirtyStepKeeps DEF DurableInv
    <2>2. CASE WriteVectors \/ WriteIndex \/ SaveNextId \/ FlushFails
      BY <1>1, <2>2, FlushKeepsDurable DEF DurableInv
    <2>3. QED
      BY <1>7, <2>1, <2>2 DEF Maintenance
  <1>8. CASE UNCHANGED vars
    BY <1>1, <1>8 DEF vars, memory, disk, history, DurableInv, FlushProgress,
                      CleanIsDurable, Image
  <1>9. QED
    BY <1>2, <1>4, <1>5, <1>6, <1>7, <1>8 DEF Next

\* A database that is not dirty, and in which no operation has stopped
\* half-way since, has on disk what it has in memory, whatever crashes and
\* whichever write or metadata step throws: flush may return at once, and so
\* may the destructor.
THEOREM CleanDurability == Spec => []CleanIsDurable
  <1>1. Init => DurableInv
    BY InitIInv DEF Init, DurableInv, FlushProgress, CleanIsDurable, Flushing
  <1>2. DurableInv /\ [Next]_vars => DurableInv'
    BY DurableStep
  <1>3. DurableInv => CleanIsDurable
    BY DEF DurableInv
  <1>4. QED
    BY <1>1, <1>2, <1>3, PTL DEF Spec

(***************************************************************************)
(* Automatic ids are fresh.  On the way to the next open the counter is in *)
(* the SQLite file, where every flush that ends has put it, and an insert  *)
(* makes the database dirty.                                               *)
(***************************************************************************)
Fresh(next) == MaxId \notin used => \A id \in used : id < next

SavedFresh ==
    /\ dir \notin IndexTypes => used = {}
    /\ phase = "closed" => Fresh(savedNext)
    /\ phase = "open" /\ ~dirty => savedNext = nextId

FreshInv == IInv /\ SavedFresh /\ AutoIdsAreFresh

\* Below the last id, a used id moves the counter past itself and not back.
LEMMA NextAfterPasses ==
    ASSUME nextId \in Ids, NEW id \in Ids, id # MaxId
    PROVE  id < NextAfter(id) /\ nextId <= NextAfter(id)
  <1>1. MaxId \in Nat /\ id \in 0 .. MaxId /\ nextId \in 0 .. MaxId
    BY StoreAssumption DEF Ids
  <1>2. (id + 1) % (MaxId + 1) = id + 1
    BY <1>1
  <1>3. QED
    BY <1>1, <1>2 DEF NextAfter

\* Steps that leave the counter, the configuration and the used ids alone and
\* do not end a flush.
LEMMA CounterKeptFresh ==
    ASSUME SavedFresh, AutoIdsAreFresh, Working, Working',
           UNCHANGED <<nextId, savedNext, dir, used>>,
           phase' = "open" /\ ~dirty' => phase = "open" /\ ~dirty
    PROVE  SavedFresh' /\ AutoIdsAreFresh'
  BY DEF SavedFresh, AutoIdsAreFresh, Fresh, Working, Flushing

\* An accepted insert, also the one an upsert of a new id makes.
LEMMA InsertKeepsFresh ==
    ASSUME IInv, SavedFresh, AutoIdsAreFresh,
           NEW id \in Ids, NEW v \in Vecs, NEW m \in Metadata, Insert(id, v, m)
    PROVE  SavedFresh' /\ AutoIdsAreFresh'
  <1>1. /\ phase = "open" /\ phase' = "open" /\ dirty'
        /\ UNCHANGED <<dir, savedNext>>
        /\ nextId' = NextAfter(id)
        /\ used' = used \cup {id}
    BY DEF Insert, InsertVector
  <1>2. /\ Working /\ nextId \in Ids /\ used \in SUBSET Ids
        /\ nextId' \in Ids /\ dir \in IndexTypes
    BY <1>1, NextAfterType DEF Working, IInv, MemoryOK, PhaseOK, Idle, HistoryOK
  <1>3. ASSUME MaxId \notin used', NEW x \in used' PROVE x < nextId'
    <2>1. MaxId \notin used /\ id # MaxId
      BY <1>1, <1>3
    <2>2. id < nextId' /\ nextId <= nextId'
      BY <1>1, <1>2, <2>1, NextAfterPasses
    <2>3. CASE x = id
      BY <2>2, <2>3
    <2>4. CASE x \in used
      <3>1. x < nextId
        BY <1>2, <2>1, <2>4 DEF AutoIdsAreFresh
      <3>2. x \in Int /\ nextId \in Int /\ nextId' \in Int
        BY <1>2, <2>4, StoreAssumption DEF Ids
      <3>3. QED
        BY <2>2, <3>1, <3>2
    <2>5. QED
      BY <1>1, <1>3, <2>3, <2>4
  <1>4. QED
    BY <1>1, <1>2, <1>3 DEF SavedFresh, AutoIdsAreFresh

\* With every operation and every flush running to its end, every step keeps
\* FreshInv.
LEMMA FreshStep ==
    ASSUME Faults = {}, FreshInv, [Next]_vars
    PROVE  FreshInv'
  <1>1. IInv /\ SavedFresh /\ AutoIdsAreFresh
    BY DEF FreshInv
  <1> SUFFICES SavedFresh' /\ AutoIdsAreFresh'
    BY <1>1, NextKeeps DEF FreshInv
  <1>2. CASE Lifecycle
    <2>1. CASE Create
      BY <1>1, <2>1, EmptyParts DEF Create, SavedFresh, AutoIdsAreFresh, Fresh,
                                    Working, Flushing, history
    <2>2. CASE \E type \in IndexTypes : PersistConfig(type)
      <3>1. used = {}
        BY <1>1, <2>2, EmptyParts DEF PersistConfig, IInv, Idle, SavedFresh
      <3>2. QED
        BY <2>2, <3>1 DEF PersistConfig, SavedFresh, AutoIdsAreFresh, Fresh, history
    <2>3. CASE OpenLoadingIndex \/ OpenRebuildingIndex
      BY <1>1, <2>3 DEF OpenLoadingIndex, OpenRebuildingIndex, OpenStore, disk,
                        SavedFresh, AutoIdsAreFresh, Fresh, Working
    <2>4. CASE Close
      BY <1>1, <2>4 DEF Close, StartFlush, Forget, memory, disk, history, SavedFresh,
                        AutoIdsAreFresh, Fresh, Working, Flushing
    <2>5. QED
      BY <1>2, <2>1, <2>2, <2>3, <2>4 DEF Lifecycle, PersistConfigFails, Crash
  <1>3. ASSUME NEW id \in Ids, NEW v \in Vecs,
               UpsertVector(id, v), ~dirty' => ~dirty
        PROVE  SavedFresh' /\ AutoIdsAreFresh'
    BY <1>1, <1>3, CounterKeptFresh DEF UpsertVector, Working
  <1>4. CASE Writing
    <2>1. CASE \E id \in Ids, v \in Vecs, m \in Metadata :
                   Insert(id, v, m) \/ Upsert(id, v, m)
      BY <1>1, <1>3, <2>1, InsertKeepsFresh DEF Upsert
    <2>2. QED
      BY <1>4, <2>1 DEF Writing, InsertMetadataFails, UpsertMetadataFails
  <1>5. CASE AutoWriting
    <2>1. nextId \in Ids
      BY <1>1 DEF IInv, MemoryOK
    <2>2. QED
      BY <1>1, <1>5, <2>1, InsertKeepsFresh DEF AutoWriting, InsertAuto
  <1>6. CASE Removing
    <2>1. CASE \E id \in Ids : Remove(id)
      BY <1>1, <2>1, CounterKeptFresh DEF Remove, RemoveVector, Working
    <2>2. CASE \E id \in Ids, m \in Metadata : SetMetadata(id, m)
      BY <1>1, <2>2, CounterKeptFresh DEF SetMetadata, Working, history
    <2>3. QED
      BY <1>6, <2>1, <2>2 DEF Removing, RemoveMetadataFails
  <1>7. CASE Maintenance
    <2>1. CASE Flush \/ RebuildIndex \/ Compact \/ WriteVectors \/ WriteIndex
      BY <1>1, <2>1, CounterKeptFresh DEF Flush, RebuildIndex, Compact, StartFlush,
                    WriteVectors, WriteIndex, memory, disk, history, Working, Flushing
    <2>2. CASE SaveNextId
      BY <1>1, <2>2 DEF SaveNextId, EndFlush, Forget, SavedFresh, AutoIdsAreFresh,
                        Fresh, Working, Flushing, history
    <2>3. QED
      BY <1>7, <2>1, <2>2 DEF Maintenance, FlushFails
  <1>8. CASE UNCHANGED vars
    BY <1>1, <1>8 DEF vars, memory, disk, history, SavedFresh, AutoIdsAreFresh, Fresh,
                      Working, Flushing
  <1>9. QED
    BY <1>2, <1>4, <1>5, <1>6, <1>7, <1>8 DEF Next

\* When nothing goes wrong, an automatic id is past every id the store has
\* ever taken, through any number of removals, compactions, closings and
\* openings.
THEOREM FreshAutoIds ==
    ASSUME Faults = {}
    PROVE  Spec => []AutoIdsAreFresh
  <1>1. Init => FreshInv
    BY InitIInv DEF Init, FreshInv, SavedFresh, Fresh, AutoIdsAreFresh, Working, Flushing
  <1>2. FreshInv /\ [Next]_vars => FreshInv'
    BY FreshStep
  <1>3. FreshInv => AutoIdsAreFresh
    BY DEF FreshInv
  <1>4. QED
    BY <1>1, <1>2, <1>3, PTL DEF Spec

(***************************************************************************)
(* Over vectors the database is a SnapshotStore, whatever crashes or       *)
(* throws.  An operation changes what memory shows; the vector file        *)
(* changes in one step, to an image of the memory; and an object that is   *)
(* given up, after a flush or without one, leaves what the file shows.     *)
(***************************************************************************)
Saved == Contents(vfile.slots)

Shown == IF Working THEN Contents(store.slots) ELSE Saved

\* A directory without a configuration holds no vectors, so that what create
\* shows first is what the disk shows.
Bare == dir \notin IndexTypes => vfile.slots = <<>>

SnapshotInv == IInv /\ Bare

Simulates == Snapshot!Next \/ UNCHANGED Snapshot!vars

\* The steps of the abstract specification.
LEMMA Stutters ==
    ASSUME Shown' = Shown, Saved' = Saved PROVE Simulates
  BY DEF Simulates, Snapshot!vars, Shown, Saved

LEMMA Saves ==
    ASSUME Shown' = Shown, Saved' = Shown PROVE Simulates
  BY DEF Simulates, Snapshot!Next, Snapshot!Save, Shown, Saved

LEMMA Restarts ==
    ASSUME Saved' = Saved, Shown' = Saved PROVE Simulates
  BY DEF Simulates, Snapshot!Next, Snapshot!Restart, Shown, Saved

LEMMA Puts ==
    ASSUME NEW id \in Ids, NEW v \in Vecs, Saved' = Saved,
           Shown' = [k \in DOMAIN Shown \cup {id} |-> IF k = id THEN v ELSE Shown[k]]
    PROVE  Simulates
  <1>1. Snapshot!Put(id, v)
    BY DEF Snapshot!Put, Shown, Saved
  <1>2. QED
    BY <1>1 DEF Simulates, Snapshot!Next

LEMMA Deletes ==
    ASSUME NEW id \in Ids, id \in DOMAIN Shown, Saved' = Saved,
           Shown' = [k \in DOMAIN Shown \ {id} |-> Shown[k]]
    PROVE  Simulates
  <1>1. Snapshot!Delete(id)
    BY DEF Snapshot!Delete, Shown, Saved
  <1>2. QED
    BY <1>1 DEF Simulates, Snapshot!Next

\* The object is gone, and the vector file is what it was.
LEMMA ForgetRestarts ==
    ASSUME Forget, vfile' = vfile PROVE Simulates
  <1>1. ~Working'
    BY DEF Forget, Working, Flushing
  <1>2. Saved' = Saved /\ Shown' = Saved
    BY <1>1 DEF Saved, Shown
  <1>3. QED
    BY <1>2, Restarts

\* Steps of an open database that leave the vectors alone.
LEMMA VectorsSame ==
    ASSUME Working, Working', store' = store, vfile' = vfile PROVE Simulates
  BY Stutters DEF Shown, Saved

LEMMA InsertSimulates ==
    ASSUME IInv, NEW id \in Ids, NEW v \in Vecs, InsertVector(id, v)
    PROVE  Simulates
  <1>1. /\ Working /\ Working' /\ vfile' = vfile
        /\ store' = StoreInsert(store, id, v) /\ ~Contains(store, id)
    BY DEF InsertVector, CanInsert, Working
  <1>2. store \in Store /\ StoreConsistent(store)
    BY DEF IInv, MemoryOK
  <1>3. /\ Shown = Contents(store.slots)
        /\ Shown' = Contents(StoreInsert(store, id, v).slots)
        /\ Saved' = Saved
    BY <1>1 DEF Shown, Saved
  <1>4. Shown' = [k \in DOMAIN Shown \cup {id} |-> IF k = id THEN v ELSE Shown[k]]
    BY <1>1, <1>2, <1>3, InsertContents
  <1>5. QED
    BY <1>3, <1>4, Puts

LEMMA UpsertSimulates ==
    ASSUME IInv, NEW id \in Ids, NEW v \in Vecs, UpsertVector(id, v)
    PROVE  Simulates
  <1>1. /\ Working /\ Working' /\ vfile' = vfile
        /\ store' = StoreUpsert(store, id, v) /\ Contains(store, id)
    BY DEF UpsertVector, Working
  <1>2. store \in Store /\ StoreConsistent(store)
    BY DEF IInv, MemoryOK
  <1>3. /\ Shown = Contents(store.slots)
        /\ Shown' = Contents(StoreUpsert(store, id, v).slots)
        /\ Saved' = Saved
    BY <1>1 DEF Shown, Saved
  <1>4. Shown' = [k \in DOMAIN Shown \cup {id} |-> IF k = id THEN v ELSE Shown[k]]
    BY <1>1, <1>2, <1>3, UpsertContents
  <1>5. QED
    BY <1>3, <1>4, Puts

LEMMA RemoveSimulates ==
    ASSUME IInv, NEW id \in Ids, RemoveVector(id)
    PROVE  Simulates
  <1>1. /\ Working /\ Working' /\ vfile' = vfile
        /\ store' = StoreRemove(store, id) /\ Contains(store, id)
    BY DEF RemoveVector, Working
  <1>2. store \in Store /\ StoreConsistent(store)
    BY DEF IInv, MemoryOK
  <1>3. /\ Shown = Contents(store.slots)
        /\ Shown' = Contents(StoreRemove(store, id).slots)
        /\ Saved' = Saved
    BY <1>1 DEF Shown, Saved
  <1>4. QED
    BY <1>1, <1>2, <1>3, RemoveContents, Deletes

\* create and open: an empty store, or the one in the file.
LEMMA BeginSimulates ==
    ASSUME SnapshotInv,
           \/ Create \/ \E type \in IndexTypes : PersistConfig(type)
           \/ OpenLoadingIndex \/ OpenRebuildingIndex
    PROVE  Simulates
  <1>1. IInv /\ Bare
    BY DEF SnapshotInv
  <1>2. vfile' = vfile /\ ~Working
    BY DEF Create, PersistConfig, OpenLoadingIndex, OpenRebuildingIndex, OpenStore,
           disk, Working, Flushing
  <1>3. CASE Create
    BY <1>2, <1>3, Stutters DEF Create, Working, Flushing, Shown, Saved
  <1>4. CASE \E type \in IndexTypes : PersistConfig(type)
    <2>1. phase = "config" /\ Working' /\ store' = store
      BY <1>4 DEF PersistConfig, Working, Flushing
    <2>2. vfile.slots = <<>> /\ store.slots = <<>>
      BY <1>1, <1>2, <2>1, EmptyParts DEF IInv, Idle, Bare
    <2>3. QED
      BY <1>2, <2>1, <2>2, Stutters DEF Shown, Saved
  <1>5. CASE OpenLoadingIndex \/ OpenRebuildingIndex
    <2>1. store' = StoreOf(vfile.slots) /\ Working'
      BY <1>5 DEF OpenLoadingIndex, OpenRebuildingIndex, OpenStore, Working
    <2>2. store'.slots = vfile.slots
      BY <2>1 DEF StoreOf
    <2>3. QED
      BY <1>2, <2>1, <2>2, Stutters DEF Shown, Saved
  <1>6. QED
    BY <1>3, <1>4, <1>5

LEMMA CompactSimulates ==
    ASSUME IInv, Compact PROVE Simulates
  <1>1. store.slots \in Seq(Slot) /\ UniqueLiveIds(store.slots)
    BY ConsistentImpliesUnique DEF IInv, MemoryOK, Store
  <1>2. PICK slots \in Compactions(store.slots) : store' = StoreOf(slots)
    BY DEF Compact
  <1>3. store'.slots = slots
    BY <1>2 DEF StoreOf
  <1>4. Contents(store'.slots) = Contents(store.slots)
    BY <1>1, <1>3, CompactionContents
  <1>5. Working /\ Working' /\ vfile' = vfile
    BY DEF Compact, StartFlush, disk, Working, Flushing
  <1>6. QED
    BY <1>4, <1>5, Stutters DEF Shown, Saved

\* The vector file is replaced as a whole, or not; afterwards the object may
\* be given up.
LEMMA FlushSimulates ==
    ASSUME IInv, WriteVectors \/ WriteIndex \/ SaveNextId \/ FlushFails
    PROVE  Simulates
  <1>1. /\ Working
        /\ vfile' = vfile \/ vfile'.slots = store.slots
        /\ Forget \/ (store' = store /\ Working')
    BY DEF WriteVectors, WriteIndex, SaveNextId, EndFlush, FlushFails, StartFlush, memory,
           Working, Flushing
  <1>2. Shown = Contents(store.slots)
    BY <1>1 DEF Shown
  <1>3. CASE vfile' = vfile /\ Forget
    BY <1>3, ForgetRestarts
  <1>4. CASE vfile' = vfile /\ store' = store /\ Working'
    BY <1>1, <1>4, VectorsSame
  <1>5. CASE vfile'.slots = store.slots
    <2>1. Saved' = Shown
      BY <1>2, <1>5 DEF Saved
    <2>2. CASE Forget
      <3>1. ~Working'
        BY <2>2 DEF Forget, Working, Flushing
      <3>2. QED
        BY <2>1, <3>1, Saves DEF Shown
    <2>3. CASE store' = store /\ Working'
      BY <1>2, <2>1, <2>3, Saves DEF Shown
    <2>4. QED
      BY <1>1, <2>2, <2>3
  <1>6. QED
    BY <1>1, <1>3, <1>4, <1>5

LEMMA SnapshotStep ==
    ASSUME SnapshotInv, [Next]_vars
    PROVE  SnapshotInv' /\ Simulates
  <1>1. IInv /\ Bare /\ IInv'
    BY NextKeeps DEF SnapshotInv
  <1>2. Bare'
    <2>1. CASE vfile' = vfile /\ (dir' \notin IndexTypes => dir \notin IndexTypes)
      BY <1>1, <2>1 DEF Bare
    <2>2. CASE Create
      BY <1>1, <2>2, EmptyParts DEF Create, Bare
    <2>3. CASE dir' = dir /\ dir \in IndexTypes
      BY <2>3 DEF Bare
    <2>4. CASE WriteVectors \/ FlushFails
      BY <1>1, <2>3, <2>4 DEF WriteVectors, FlushFails, IInv, Idle, Working, Flushing
    <2>5. CASE UNCHANGED vars
      BY <2>1, <2>5 DEF vars, disk
    <2>6. CASE Lifecycle
      BY <2>1, <2>2, <2>6
      DEF Lifecycle, PersistConfig, PersistConfigFails, OpenLoadingIndex,
          OpenRebuildingIndex, OpenStore, Close, Crash, disk
    <2>7. CASE Writing \/ AutoWriting \/ Removing
      BY <2>1, <2>7
      DEF Writing, AutoWriting, Removing, Insert, InsertAuto, InsertVector, Upsert,
          UpsertVector, InsertMetadataFails, UpsertMetadataFails, Remove,
          RemoveMetadataFails, RemoveVector, SetMetadata
    <2>8. CASE Maintenance
      BY <2>1, <2>4, <2>8
      DEF Maintenance, Flush, RebuildIndex, Compact, WriteIndex, SaveNextId, disk
    <2>9. QED
      BY <2>5, <2>6, <2>7, <2>8 DEF Next
  <1> SUFFICES Simulates
    BY <1>1, <1>2 DEF SnapshotInv
  <1>3. CASE Lifecycle
    <2>1. CASE PersistConfigFails \/ Crash
      BY <2>1, ForgetRestarts DEF PersistConfigFails, Crash, disk
    <2>2. CASE Close
      <3>1. CASE dirty
        BY <2>2, <3>1, VectorsSame DEF Close, StartFlush, memory, disk, Working, Flushing
      <3>2. CASE ~dirty
        BY <2>2, <3>2, ForgetRestarts DEF Close, disk
      <3>3. QED
        BY <3>1, <3>2
    <2>3. QED
      BY <1>3, <2>1, <2>2, BeginSimulates DEF Lifecycle
  <1>4. CASE Writing
    BY <1>1, <1>4, InsertSimulates, UpsertSimulates
    DEF Writing, Insert, Upsert, InsertMetadataFails, UpsertMetadataFails
  <1>5. CASE AutoWriting
    BY <1>1, <1>5, InsertSimulates DEF AutoWriting, InsertAuto, Insert, IInv, MemoryOK
  <1>6. CASE Removing
    <2>1. CASE \E id \in Ids, m \in Metadata : SetMetadata(id, m)
      BY <2>1, VectorsSame DEF SetMetadata, Working
    <2>2. QED
      BY <1>1, <1>6, <2>1, RemoveSimulates DEF Removing, Remove, RemoveMetadataFails
  <1>7. CASE Maintenance
    <2>1. CASE Flush \/ RebuildIndex
      BY <2>1, VectorsSame DEF Flush, RebuildIndex, StartFlush, memory, disk, Working, Flushing
    <2>2. QED
      BY <1>1, <1>7, <2>1, CompactSimulates, FlushSimulates DEF Maintenance
  <1>8. CASE UNCHANGED vars
    BY <1>8, Stutters DEF vars, memory, disk, Shown, Saved, Working, Flushing
  <1>9. QED
    BY <1>3, <1>4, <1>5, <1>6, <1>7, <1>8 DEF Next

\* The database is a SnapshotStore: no fault loses part of a flush, shows a
\* state that no flush wrote, or changes an id that was not written.
THEOREM SnapshotsHold == Spec => ImplementsSnapshotStore
  <1>1. ASSUME Init PROVE SnapshotInv /\ Snapshot!Init
    <2>1. IInv
      BY <1>1, InitIInv
    <2>2. vfile.slots = <<>> /\ ~Working
      BY <1>1 DEF Init, Working, Flushing
    <2>3. QED
      BY <2>1, <2>2, EmptyContents
      DEF SnapshotInv, Bare, Snapshot!Init, Snapshot!Nothing
  <1>2. SnapshotInv /\ [Next]_vars => SnapshotInv' /\ [Snapshot!Next]_(Snapshot!vars)
    BY SnapshotStep DEF Simulates
  <1>3. QED
    BY <1>1, <1>2, PTL DEF Spec, ImplementsSnapshotStore, Snapshot!Spec

(***************************************************************************)
(* check raises no false alarm.                                            *)
(***************************************************************************)
\* Of a database that has nothing to flush and no half-done operation, check
\* reports no error: what it compares the files with is what they were
\* written from.
THEOREM CleanCheck == Spec => []CleanChecksClean
  <1>1. Init => DurableInv
    BY InitIInv DEF Init, DurableInv, FlushProgress, CleanIsDurable, Flushing
  <1>2. DurableInv /\ [Next]_vars => DurableInv'
    BY DurableStep
  <1>3. ASSUME DurableInv PROVE CleanChecksClean
    <2> SUFFICES ASSUME phase = "open", ~dirty, ~halfDone PROVE CheckErrors = {}
      BY DEF CleanChecksClean
    <2>1. /\ vfile.slots = store.slots
          /\ dir = "hnsw" => ifile = {index}
      BY <1>3 DEF DurableInv, CleanIsDurable
    <2>2. dir = "hnsw" => Len(index.nodes) = Len(store.slots)
      BY <1>3 DEF DurableInv, IInv, IndexCoversStore, Working
    <2>3. QED
      BY <2>1, <2>2 DEF CheckErrors
  <1>4. QED
    BY <1>1, <1>2, <1>3, PTL DEF Spec

(***************************************************************************)
(* When nothing goes wrong the database is a DurableMap.  A flush runs to  *)
(* its end, so an object that is given up has on disk what it had in       *)
(* memory: the vectors, the index, and the counter (WhenClosed).           *)
(***************************************************************************)
\* A graph with a node for every slot, each linked for the id of its slot and,
\* but for the slots that are gone elsewhere, where the slot's vector belongs.
InPlace(x, slots, gone) ==
    /\ x.live = Cardinality(LiveSlots(slots))
    /\ Len(x.nodes) = Len(slots)
    /\ \A i \in 1 .. Len(slots) :
           /\ x.nodes[i].id = slots[i].id
           /\ i \notin gone => x.nodes[i].at = Place[slots[i].vec]

WhenClosed ==
    /\ phase = "closed" /\ dir = "hnsw" => \A x \in ifile : InPlace(x, vfile.slots, moved)
    /\ dir \notin IndexTypes => savedNext = 0 /\ nextId = 0

LifeInv ==
    /\ DurableInv
    /\ Bare
    /\ WhenClosed
    /\ ~halfDone
    /\ IndexDescribesStore
    /\ NoOrphanRows

Slots == IF Working THEN store.slots ELSE vfile.slots
NextOf == IF Working THEN nextId ELSE savedNext

Mirrors == Durable!Next \/ UNCHANGED Durable!vars

\* LifeInv but for what other lemmas show.
LifeStep == WhenClosed' /\ IndexDescribesStore' /\ NoOrphanRows' /\ Mirrors

LEMMA SlotsOK ==
    ASSUME IInv
    PROVE  Slots \in Seq(Slot) /\ UniqueLiveIds(Slots)
  BY ConsistentImpliesUnique DEF IInv, MemoryOK, DiskOK, Store, Slots

\* The view, slot by slot.
LEMMA ViewAt ==
    ASSUME NEW slots \in Seq(Slot), UniqueLiveIds(slots)
    PROVE  /\ View(slots) = [id \in LiveIds(slots) |->
                                [vec |-> Contents(slots)[id], meta |-> rows[id]]]
           /\ DOMAIN View(slots) = LiveIds(slots)
  BY ContentsAt DEF View

\* Nothing that a reader sees changes.
LEMMA ViewSame ==
    ASSUME IInv, IInv', Contents(Slots') = Contents(Slots), rows' = rows,
           NextOf' = NextOf
    PROVE  Mirrors
  <1>1. View(Slots)' = View(Slots)
    BY DEF View
  <1>2. QED
    BY <1>1 DEF Mirrors, Durable!vars, Slots, NextOf

\* A step that only goes on with what is there, open before and after, or
\* closed before and after, or from one to the other.
LEMMA SameSlots ==
    ASSUME IInv, IInv', NoOrphanRows, Slots' = Slots, rows' = rows, NextOf' = NextOf
    PROVE  NoOrphanRows' /\ Mirrors
  <1>1. NoOrphanRows'
    BY DEF NoOrphanRows, Slots
  <1>2. Contents(Slots') = Contents(Slots)
    OBVIOUS
  <1>3. QED
    BY <1>1, <1>2, ViewSame

\* What the property says of a graph, and of a brute-force index.
LEMMA NowDescribes ==
    ASSUME IInv, IndexDescribesStore, Working
    PROVE  /\ dir = "hnsw" => InPlace(index, store.slots, moved)
           /\ dir # "hnsw" => index = EmptyIndex
  <1>1. /\ store.slots \in Seq(Slot) /\ index \in Index
        /\ Describes(index, store.slots)
    BY DEF IInv, MemoryOK, Store, IndexDescribesStore
  <1>2. CASE dir = "hnsw"
    <2>1. DOMAIN store.slots = 1 .. Len(store.slots) /\ Len(store.slots) \in Nat
      BY <1>1, LiveSlotsType
    <2>2. /\ Len(BuildIndex(store.slots).nodes) = Len(store.slots)
          /\ BuildIndex(store.slots).live = Cardinality(LiveSlots(store.slots))
          /\ \A i \in 1 .. Len(store.slots) :
                 BuildIndex(store.slots).nodes[i] = NodeFor(store.slots[i].id, store.slots[i].vec)
      BY <1>1, <1>2, <2>1, BuildIndexCovers DEF BuildIndex
    <2>3. Len(index.nodes) = Len(store.slots) /\ DOMAIN index.nodes = 1 .. Len(index.nodes)
      BY <1>1, <2>2 DEF Describes, Index
    <2>4. /\ index.live = BuildIndex(store.slots).live
          /\ Len(index.nodes) = Len(BuildIndex(store.slots).nodes)
          /\ \A i \in 1 .. Len(index.nodes) :
                 /\ index.nodes[i].id = BuildIndex(store.slots).nodes[i].id
                 /\ i \notin moved =>
                        index.nodes[i].at = BuildIndex(store.slots).nodes[i].at
      BY <1>1, <2>3 DEF Describes
    <2>5. \A i \in 1 .. Len(store.slots) :
             /\ BuildIndex(store.slots).nodes[i].id = store.slots[i].id
             /\ BuildIndex(store.slots).nodes[i].at = Place[store.slots[i].vec]
      <3>1. TAKE i \in 1 .. Len(store.slots)
      <3>2. BuildIndex(store.slots).nodes[i] =
                [id |-> store.slots[i].id, at |-> Place[store.slots[i].vec]]
        BY <2>2 DEF NodeFor
      <3>3. QED
        BY <3>2
    <2> HIDE DEF InPlace
    <2>6. InPlace(index, store.slots, moved)
      BY <2>1, <2>2, <2>3, <2>4, <2>5 DEF InPlace
    <2>7. QED
      BY <1>2, <2>6
  <1>3. CASE dir # "hnsw"
    <2>1. index.live = 0 /\ Len(index.nodes) = 0
      BY <1>1, <1>3, EmptyParts DEF Describes, BuildIndex, EmptyIndex
    <2>2. index.nodes = <<>>
      BY <1>1, <2>1 DEF Index
    <2>3. index = [nodes |-> index.nodes, live |-> index.live]
      BY <1>1 DEF Index
    <2>4. QED
      BY <1>3, <2>1, <2>2, <2>3 DEF EmptyIndex
  <1>4. QED
    BY <1>2, <1>3

\* The same after a step.
LEMMA NextDescribes ==
    ASSUME IInv',
           dir' = "hnsw" => InPlace(index', store'.slots, moved'),
           dir' # "hnsw" => index' = EmptyIndex
    PROVE  IndexDescribesStore'
  <1>1. store'.slots \in Seq(Slot) /\ index' \in Index
    BY DEF IInv, MemoryOK, Store
  <1>2. CASE dir' = "hnsw"
    <2>1. /\ DOMAIN store'.slots = 1 .. Len(store'.slots) /\ Len(store'.slots) \in Nat
          /\ DOMAIN index'.nodes = 1 .. Len(index'.nodes)
      BY <1>1, LiveSlotsType DEF Index
    <2> DEFINE nodes == [i \in DOMAIN store'.slots |->
                            NodeFor(store'.slots[i].id, store'.slots[i].vec)]
    <2>2. Len(nodes) = Len(store'.slots)
      BY <2>1
    <2>3. QED
      BY <1>2, <2>1, <2>2 DEF IndexDescribesStore, Describes, BuildIndex, InPlace, NodeFor
  <1>3. CASE dir' # "hnsw"
    BY <1>3, EmptyParts DEF IndexDescribesStore, Describes, BuildIndex, EmptyIndex
  <1>4. QED
    BY <1>2, <1>3

\* An index built anew.
LEMMA BuiltDescribes ==
    ASSUME IInv', dir' = dir, NEW slots \in Seq(Slot), store'.slots = slots,
           index' = BuildIndex(slots)
    PROVE  IndexDescribesStore'
  <1>1. DOMAIN slots = 1 .. Len(slots) /\ Len(slots) \in Nat
    BY LiveSlotsType
  <1>2. dir = "hnsw" => InPlace(BuildIndex(slots), slots, moved')
    BY <1>1, BuildIndexCovers DEF BuildIndex, InPlace, NodeFor
  <1>3. QED
    BY <1>2, NextDescribes DEF BuildIndex

\* A step that leaves the store, the index and the places alone.
LEMMA KeptDescribes ==
    ASSUME IInv, IInv', IndexDescribesStore, Working,
           UNCHANGED <<store, index, dir, moved>>
    PROVE  IndexDescribesStore'
  BY NowDescribes, NextDescribes

\* The index of the store after an operation on it.
LEMMA AddDescribes ==
    ASSUME IInv, IInv', IndexDescribesStore,
           NEW id \in Ids, NEW v \in Vecs, InsertVector(id, v)
    PROVE  IndexDescribesStore'
  <1> DEFINE slot == [id |-> id, vec |-> v, live |-> TRUE]
             old  == store.slots
             new  == Append(old, slot)
  <1>1. /\ Working /\ dir' = dir /\ moved' = moved
        /\ store' = StoreInsert(store, id, v) /\ index' = IndexAdd(id, v)
        /\ store \in Store /\ StoreConsistent(store) /\ ~Contains(store, id)
        /\ index \in Index
    BY DEF InsertVector, CanInsert, Working, IInv, MemoryOK
  <1>2. old \in Seq(Slot) /\ slot \in Slot /\ slot.id = id /\ slot.vec = v /\ slot.live
    BY <1>1 DEF Store, Slot
  <1>3. store'.slots = new
    BY <1>1 DEF StoreInsert
  <1>4. CASE dir # "hnsw"
    BY <1>1, <1>4, NowDescribes, NextDescribes DEF IndexAdd
  <1>5. CASE dir = "hnsw"
    <2>1. Cardinality(LiveSlots(new)) = Cardinality(LiveSlots(old)) + 1
      <3> DEFINE s == StoreInsert(store, id, v)
      <3>1. StoreConsistent(s) /\ s.slots = new /\ s.liveCount = store.liveCount + 1
        BY <1>1, InsertConsistent DEF StoreInsert
      <3> HIDE DEF s
      <3>2. QED
        BY <1>1, <3>1 DEF StoreConsistent
    <2>2. InPlace(index, old, moved)
      BY <1>1, <1>5, NowDescribes
    <2>3. /\ Len(old) \in Nat /\ Len(new) = Len(old) + 1
          /\ \A i \in 1 .. Len(old) : new[i] = old[i]
          /\ new[Len(old) + 1] = slot
      BY <1>2, LiveSlotsType
    <2>4. /\ index'.nodes = Append(index.nodes, NodeFor(id, v))
          /\ index'.live = index.live + 1
      BY <1>1, <1>5 DEF IndexAdd
    <2>5. /\ index.nodes \in Seq(Node) /\ Len(index.nodes) = Len(old)
          /\ NodeFor(id, v) \in Node
      BY <1>1, <2>2, NodeForType DEF Index, InPlace
    <2>6. /\ Len(index'.nodes) = Len(old) + 1
          /\ \A i \in 1 .. Len(old) : index'.nodes[i] = index.nodes[i]
          /\ index'.nodes[Len(old) + 1] = NodeFor(id, v)
      BY <2>3, <2>4, <2>5
    <2> HIDE DEF old, new, slot
    <2>7. ASSUME NEW i \in 1 .. Len(new)
          PROVE  /\ index'.nodes[i].id = new[i].id
                 /\ i \notin moved => index'.nodes[i].at = Place[new[i].vec]
      <3>1. CASE i = Len(old) + 1
        BY <1>2, <2>3, <2>6, <3>1 DEF NodeFor
      <3>2. CASE i \in 1 .. Len(old)
        BY <2>2, <2>3, <2>6, <3>2 DEF InPlace
      <3>3. QED
        BY <2>3, <2>7, <3>1, <3>2
    <2>8. InPlace(index', new, moved)
      BY <2>1, <2>2, <2>3, <2>4, <2>6, <2>7 DEF InPlace
    <2>9. QED
      BY <1>1, <1>3, <1>5, <2>8, NextDescribes
  <1>6. QED
    BY <1>4, <1>5

LEMMA UpsertDescribes ==
    ASSUME IInv, IInv', IndexDescribesStore,
           NEW id \in Ids, NEW v \in Vecs, UpsertVector(id, v)
    PROVE  IndexDescribesStore' /\ LiveIds(store'.slots) = LiveIds(store.slots)
  <1> DEFINE at  == store.idToLocal[id]
             old == store.slots
             new == store'.slots
  <1>1. /\ Working /\ dir' = dir /\ index' = index
        /\ moved' = moved \cup {i \in {at} : Place[old[i].vec] # Place[v]}
        /\ store' = StoreUpsert(store, id, v)
        /\ store \in Store /\ StoreConsistent(store) /\ Contains(store, id)
    BY DEF UpsertVector, Working, IInv, MemoryOK
  <1>2. /\ old \in Seq(Slot) /\ at \in DOMAIN old /\ new = [old EXCEPT ![at].vec = v]
    BY <1>1 DEF Store, StoreConsistent, LiveSlots, StoreUpsert
  <1>3. new \in Seq(Slot)
    BY <1>1, UpsertConsistent DEF Store
  <1>4. /\ DOMAIN new = DOMAIN old
        /\ \A i \in DOMAIN old : new[i].id = old[i].id /\ new[i].live = old[i].live
        /\ \A i \in DOMAIN old : new[i].vec = IF i = at THEN v ELSE old[i].vec
    <2>1. old[at] \in Slot
      BY <1>2
    <2>2. /\ DOMAIN new = DOMAIN old
          /\ \A i \in DOMAIN old : i # at => new[i] = old[i]
          /\ new[at] = [old[at] EXCEPT !.vec = v]
      BY <1>2
    <2>3. new[at].vec = v
      BY <2>1, <2>2 DEF Slot
    <2>4. QED
      BY <1>2, <2>1, <2>2, <2>3, SlotExcept
  <1> HIDE DEF at, old, new
  <1>5. LiveSlots(new) = LiveSlots(old)
    BY <1>4 DEF LiveSlots
  <1>6. LiveIds(new) = LiveIds(old)
    BY <1>4, <1>5 DEF LiveIds, LiveSlots
  <1>7. CASE dir # "hnsw"
    BY <1>1, <1>6, <1>7, NowDescribes, NextDescribes DEF old, new
  <1>8. CASE dir = "hnsw"
    <2>1. InPlace(index, old, moved)
      BY <1>1, <1>8, NowDescribes DEF old
    <2>2. DOMAIN old = 1 .. Len(old) /\ Len(new) = Len(old)
      BY <1>2, <1>3, <1>4, LiveSlotsType
    <2>3. ASSUME NEW i \in 1 .. Len(new), i \notin moved'
          PROVE  index.nodes[i].at = Place[new[i].vec]
      <3>1. index.nodes[i].at = Place[old[i].vec]
        BY <1>1, <2>1, <2>2, <2>3 DEF InPlace
      <3>2. CASE i = at
        BY <1>1, <1>4, <2>2, <2>3, <3>1, <3>2
      <3>3. CASE i # at
        BY <1>4, <2>2, <3>1, <3>3
      <3>4. QED
        BY <3>2, <3>3
    <2>4. InPlace(index, new, moved')
      BY <1>4, <1>5, <2>1, <2>2, <2>3 DEF InPlace
    <2>5. QED
      BY <1>1, <1>6, <1>8, <2>4, NextDescribes DEF old, new
  <1>9. QED
    BY <1>7, <1>8

LEMMA RemoveDescribes ==
    ASSUME IInv, IInv', IndexDescribesStore, NEW id \in Ids, RemoveVector(id)
    PROVE  IndexDescribesStore' /\ LiveIds(store'.slots) = LiveIds(store.slots) \ {id}
  <1> DEFINE at  == store.idToLocal[id]
             old == store.slots
             new == store'.slots
  <1>1. /\ Working /\ dir' = dir /\ index' = IndexRemove /\ moved' = moved
        /\ store' = StoreRemove(store, id)
        /\ store \in Store /\ StoreConsistent(store) /\ Contains(store, id)
        /\ index \in Index
    BY DEF RemoveVector, Working, IInv, MemoryOK
  <1>2. /\ old \in Seq(Slot) /\ at \in DOMAIN old /\ at \in LiveSlots(old)
        /\ new = [old EXCEPT ![at].live = FALSE]
    BY <1>1 DEF Store, StoreConsistent, LiveSlots, StoreRemove
  <1>3. new \in Seq(Slot)
    BY <1>1, RemoveConsistent DEF Store
  <1>4. /\ DOMAIN new = DOMAIN old
        /\ \A i \in DOMAIN old : new[i].id = old[i].id /\ new[i].vec = old[i].vec
        /\ \A i \in DOMAIN old : i # at => new[i] = old[i]
        /\ ~new[at].live
    <2>1. old[at] \in Slot
      BY <1>2
    <2>2. /\ DOMAIN new = DOMAIN old
          /\ \A i \in DOMAIN old : i # at => new[i] = old[i]
          /\ new[at] = [old[at] EXCEPT !.live = FALSE]
      BY <1>2
    <2>3. new[at].id = old[at].id /\ new[at].vec = old[at].vec /\ ~new[at].live
      BY <2>1, <2>2, SlotExcept DEF Slot
    <2>4. QED
      BY <2>2, <2>3
  <1> HIDE DEF at, old, new
  <1>5. LiveSlots(new) = LiveSlots(old) \ {at}
    BY <1>2, <1>4 DEF LiveSlots
  <1>6. LiveIds(new) = LiveIds(old) \ {id}
    <2>1. DOMAIN Contents(new) = DOMAIN Contents(old) \ {id}
      <3>1. Contents(new) = [k \in DOMAIN Contents(old) \ {id} |-> Contents(old)[k]]
        BY <1>1, RemoveContents DEF old, new
      <3>2. QED
        BY <3>1
    <2>2. UniqueLiveIds(old) /\ UniqueLiveIds(new)
      BY <1>1, RemoveConsistent, ConsistentImpliesUnique DEF old, new
    <2>3. QED
      BY <1>2, <1>3, <2>1, <2>2, ContentsAt
  <1>7. /\ Cardinality(LiveSlots(old)) \in Nat /\ Cardinality(LiveSlots(old)) > 0
        /\ Cardinality(LiveSlots(new)) = Cardinality(LiveSlots(old)) - 1
    <2>1. IsFiniteSet(LiveSlots(old)) /\ Cardinality(LiveSlots(old)) \in Nat
      BY <1>2, LiveSlotsFinite
    <2>2. Cardinality(LiveSlots(old)) # 0
      BY <1>2, <2>1, FS_EmptySet
    <2>3. Cardinality(LiveSlots(old) \ {at}) = Cardinality(LiveSlots(old)) - 1
      BY <1>2, <2>1, FS_RemoveElement
    <2>4. QED
      BY <1>5, <2>1, <2>2, <2>3
  <1>8. CASE dir # "hnsw"
    <2>1. IndexRemove = EmptyIndex
      BY <1>1, <1>8, NowDescribes DEF IndexRemove, EmptyIndex
    <2>2. QED
      BY <1>1, <1>6, <1>8, <2>1, NextDescribes DEF old, new
  <1>9. CASE dir = "hnsw"
    <2>1. InPlace(index, old, moved)
      BY <1>1, <1>9, NowDescribes DEF old
    <2>2. DOMAIN old = 1 .. Len(old) /\ Len(new) = Len(old)
      BY <1>2, <1>3, <1>4, LiveSlotsType
    <2>3. IndexRemove.nodes = index.nodes /\ IndexRemove.live = index.live - 1
      BY <1>1, <1>7, <2>1 DEF IndexRemove, Index, InPlace
    <2>4. InPlace(IndexRemove, new, moved)
      BY <1>4, <1>7, <2>1, <2>2, <2>3 DEF InPlace
    <2>5. QED
      BY <1>1, <1>6, <1>9, <2>4, NextDescribes DEF old, new
  <1>10. QED
    BY <1>8, <1>9

-----------------------------------------------------------------------------
\* The view as a map.
Entries == View(Slots)

LEMMA EntriesAt ==
    ASSUME IInv
    PROVE  /\ Entries = [id \in LiveIds(Slots) |->
                            [vec |-> Contents(Slots)[id], meta |-> rows[id]]]
           /\ DOMAIN Entries = LiveIds(Slots)
           /\ DOMAIN Contents(Slots) = LiveIds(Slots)
           /\ LiveIds(Slots) \subseteq Ids
  <1>1. Slots \in Seq(Slot) /\ UniqueLiveIds(Slots)
    BY SlotsOK
  <1>2. LiveIds(Slots) \subseteq Ids
    BY <1>1, LiveSlotsType DEF LiveIds
  <1>3. QED
    BY <1>1, <1>2, ContentsAt, ViewAt DEF Entries

\* The same after a step.
LEMMA EntriesAfter ==
    ASSUME IInv'
    PROVE  /\ Entries' = [id \in LiveIds(Slots') |->
                             [vec |-> Contents(Slots')[id], meta |-> rows'[id]]]
           /\ DOMAIN Contents(Slots') = LiveIds(Slots')
  <1>1. Slots' \in Seq(Slot) /\ UniqueLiveIds(Slots')
    <2>1. /\ store'.slots \in Seq(Slot) /\ UniqueLiveIds(store'.slots)
          /\ vfile'.slots \in Seq(Slot) /\ UniqueLiveIds(vfile'.slots)
      BY ConsistentImpliesUnique DEF IInv, MemoryOK, DiskOK, Store
    <2>2. QED
      BY <2>1 DEF Slots
  <1>2. /\ DOMAIN Contents(Slots') = LiveIds(Slots')
    BY <1>1, ContentsAt
  <1>3. Entries' = [id \in DOMAIN Contents(Slots') |->
                      [vec |-> Contents(Slots')[id], meta |-> rows'[id]]]
    BY DEF Entries, View
  <1>4. QED
    BY <1>2, <1>3

\* A vector and its metadata, written together.
LEMMA EntriesPut ==
    ASSUME IInv, IInv', NEW id \in Ids, NEW v \in Vecs, NEW m \in Metadata,
           Contents(Slots') = [k \in DOMAIN Contents(Slots) \cup {id} |->
                                  IF k = id THEN v ELSE Contents(Slots)[k]],
           rows'[id] = m, \A k \in Ids : k # id => rows'[k] = rows[k]
    PROVE  Entries' = [k \in DOMAIN Entries \cup {id} |->
                          IF k = id THEN [vec |-> v, meta |-> m] ELSE Entries[k]]
  <1>1. /\ Entries' = [k \in LiveIds(Slots') |->
                         [vec |-> Contents(Slots')[k], meta |-> rows'[k]]]
        /\ DOMAIN Contents(Slots') = LiveIds(Slots')
    BY EntriesAfter
  <1>2. LiveIds(Slots') = DOMAIN Entries \cup {id} /\ DOMAIN Entries \subseteq Ids
    BY <1>1, EntriesAt
  <1>3. ASSUME NEW k \in DOMAIN Entries \cup {id}
        PROVE  [vec |-> Contents(Slots')[k], meta |-> rows'[k]]
                   = IF k = id THEN [vec |-> v, meta |-> m] ELSE Entries[k]
    <2>1. CASE k = id
      BY <1>1, <1>2, <2>1
    <2>2. CASE k # id
      <3>1. k \in LiveIds(Slots) /\ k \in Ids
        BY <1>3, <2>2, EntriesAt
      <3>2. Contents(Slots')[k] = Contents(Slots)[k] /\ rows'[k] = rows[k]
        BY <2>2, <3>1, EntriesAt
      <3>3. QED
        BY <2>2, <3>1, <3>2, EntriesAt
    <2>3. QED
      BY <2>1, <2>2
  <1>4. QED
    BY <1>1, <1>2, <1>3

LEMMA InsertMirrors ==
    ASSUME IInv, IInv', NoOrphanRows,
           NEW id \in Ids, NEW v \in Vecs, NEW m \in Metadata, Insert(id, v, m)
    PROVE  NoOrphanRows' /\ Mirrors /\ rows'[id] = m
  <1>1. /\ InsertVector(id, v) /\ Working /\ Working'
        /\ store' = StoreInsert(store, id, v) /\ ~Contains(store, id)
        /\ rows' = IF m = NoMeta THEN rows ELSE [rows EXCEPT ![id] = m]
        /\ nextId' = NextAfter(id)
        /\ store \in Store /\ StoreConsistent(store)
        /\ rows \in [Ids -> Metadata]
        /\ nextId \in 0 .. MaxId /\ id \in 0 .. MaxId /\ MaxId \in Nat
    BY StoreAssumption
    DEF Insert, InsertVector, CanInsert, Working, IInv, MemoryOK, DiskOK, Ids
  <1>2. Slots = store.slots /\ Slots' = StoreInsert(store, id, v).slots
    BY <1>1 DEF Slots
  <1>3. /\ id \notin DOMAIN Contents(Slots)
        /\ Contents(Slots') = [k \in DOMAIN Contents(Slots) \cup {id} |->
                                  IF k = id THEN v ELSE Contents(Slots)[k]]
    BY <1>1, <1>2, InsertContents
  <1>4. id \notin LiveIds(Slots) /\ LiveIds(Slots') = LiveIds(Slots) \cup {id}
    <2>1. DOMAIN Contents(Slots') = DOMAIN Contents(Slots) \cup {id}
      BY <1>3
    <2>2. DOMAIN Contents(Slots') = LiveIds(Slots')
      BY EntriesAfter
    <2>3. QED
      BY <1>3, <2>1, <2>2, EntriesAt
  <1>5. rows[id] = NoMeta
    BY <1>4 DEF NoOrphanRows, Slots
  <1>6. rows'[id] = m /\ \A k \in Ids : k # id => rows'[k] = rows[k]
    BY <1>1, <1>5
  <1>7. NoOrphanRows'
    <2>1. \A k \in Ids : rows'[k] # NoMeta => k \in LiveIds(Slots')
      BY <1>4, <1>6 DEF NoOrphanRows, Slots
    <2>2. QED
      BY <2>1 DEF NoOrphanRows, Slots
  <1>8. NextOf = nextId
        /\ NextOf' = IF id < nextId THEN nextId ELSE IF id = MaxId THEN 0 ELSE id + 1
    <2>1. id = MaxId => (id + 1) % (MaxId + 1) = 0
      BY <1>1
    <2>2. id # MaxId => (id + 1) % (MaxId + 1) = id + 1
      BY <1>1
    <2>3. QED
      BY <1>1, <2>1, <2>2 DEF NextOf, NextAfter
  <1>9. /\ id \notin DOMAIN Entries
        /\ Entries' = [k \in DOMAIN Entries \cup {id} |->
                          IF k = id THEN [vec |-> v, meta |-> m] ELSE Entries[k]]
    <2>1. id \notin DOMAIN Entries
      BY <1>4, EntriesAt
    <2>2. Contents(Slots') = [k \in DOMAIN Contents(Slots) \cup {id} |->
                                IF k = id THEN v ELSE Contents(Slots)[k]]
      BY <1>3
    <2>3. Entries' = [k \in DOMAIN Entries \cup {id} |->
                        IF k = id THEN [vec |-> v, meta |-> m] ELSE Entries[k]]
      <3>1. rows'[id] = m
        BY <1>6
      <3>2. \A k \in Ids : k # id => rows'[k] = rows[k]
        BY <1>6
      <3>3. QED
        BY <2>2, <3>1, <3>2, EntriesPut
    <2>4. QED
      BY <2>1, <2>3
  <1>10. Durable!Add(id, v, m)
    BY <1>8, <1>9 DEF Durable!Add, Durable!Store, Entries, Slots, NextOf
  <1>11. QED
    BY <1>6, <1>7, <1>10 DEF Mirrors, Durable!Next, Durable!Ids, Ids

\* upsert of an id that is there, and set_metadata.
LEMMA ReplaceMirrors ==
    ASSUME IInv, IInv', NoOrphanRows,
           NEW id \in Ids, NEW v \in Vecs, NEW m \in Metadata,
           id \in LiveIds(Slots), rows' = [rows EXCEPT ![id] = m], NextOf' = NextOf,
           Contents(Slots') = [k \in DOMAIN Contents(Slots) \cup {id} |->
                                  IF k = id THEN v ELSE Contents(Slots)[k]]
    PROVE  NoOrphanRows' /\ Mirrors
  <1>1. rows \in [Ids -> Metadata]
    BY DEF IInv, DiskOK
  <1>2. rows'[id] = m /\ \A k \in Ids : k # id => rows'[k] = rows[k]
    BY <1>1
  <1>3. LiveIds(Slots') = LiveIds(Slots)
    <2>1. DOMAIN Contents(Slots') = DOMAIN Contents(Slots) \cup {id}
      OBVIOUS
    <2>2. DOMAIN Contents(Slots') = LiveIds(Slots')
      BY EntriesAfter
    <2>3. QED
      BY <2>1, <2>2, EntriesAt
  <1>4. NoOrphanRows'
    <2>1. \A k \in Ids : rows'[k] # NoMeta => k \in LiveIds(Slots')
      BY <1>2, <1>3 DEF NoOrphanRows, Slots
    <2>2. QED
      BY <2>1 DEF NoOrphanRows, Slots
  <1>5. /\ id \in DOMAIN Entries
        /\ Entries' = [k \in DOMAIN Entries \cup {id} |->
                          IF k = id THEN [vec |-> v, meta |-> m] ELSE Entries[k]]
    <2>1. id \in DOMAIN Entries
      BY EntriesAt
    <2>2. QED
      BY <1>2, <2>1, EntriesPut
  <1>6. Durable!Replace(id, v, m)
    BY <1>5 DEF Durable!Replace, Durable!Store, Entries, Slots, NextOf
  <1>7. QED
    BY <1>4, <1>6 DEF Mirrors, Durable!Next, Durable!Ids, Ids

LEMMA RemoveMirrors ==
    ASSUME IInv, IInv', NoOrphanRows, NEW id \in Ids, Remove(id)
    PROVE  NoOrphanRows' /\ Mirrors
  <1>1. /\ RemoveVector(id) /\ Working /\ Working'
        /\ store' = StoreRemove(store, id) /\ Contains(store, id)
        /\ rows' = [rows EXCEPT ![id] = NoMeta]
        /\ nextId' = nextId
        /\ store \in Store /\ StoreConsistent(store)
        /\ rows \in [Ids -> Metadata]
    BY DEF Remove, RemoveVector, Working, IInv, MemoryOK, DiskOK
  <1>2. /\ Slots = store.slots /\ Slots' = StoreRemove(store, id).slots
        /\ NextOf' = NextOf
    BY <1>1 DEF Slots, NextOf
  <1>3. /\ id \in DOMAIN Contents(Slots)
        /\ Contents(Slots') = [k \in DOMAIN Contents(Slots) \ {id} |-> Contents(Slots)[k]]
    BY <1>1, <1>2, RemoveContents
  <1>4. /\ id \in LiveIds(Slots) /\ LiveIds(Slots') = LiveIds(Slots) \ {id}
        /\ \A k \in LiveIds(Slots') : Contents(Slots')[k] = Contents(Slots)[k]
    <2>1. DOMAIN Contents(Slots') = DOMAIN Contents(Slots) \ {id}
      BY <1>3
    <2>2. DOMAIN Contents(Slots') = LiveIds(Slots')
      BY EntriesAfter
    <2>3. QED
      BY <1>3, <2>1, <2>2, EntriesAt
  <1>5. rows'[id] = NoMeta /\ \A k \in Ids : k # id => rows'[k] = rows[k]
    BY <1>1, DatabaseAssumption
  <1>6. NoOrphanRows'
    <2>1. \A k \in Ids : rows'[k] # NoMeta => k \in LiveIds(Slots')
      BY <1>4, <1>5 DEF NoOrphanRows, Slots
    <2>2. QED
      BY <2>1 DEF NoOrphanRows, Slots
  <1>7. /\ id \in DOMAIN Entries
        /\ Entries' = [k \in DOMAIN Entries \ {id} |-> Entries[k]]
    <2>1. /\ Entries' = [k \in LiveIds(Slots') |->
                           [vec |-> Contents(Slots')[k], meta |-> rows'[k]]]
          /\ DOMAIN Entries = LiveIds(Slots)
      BY EntriesAt, EntriesAfter
    <2>2. ASSUME NEW k \in LiveIds(Slots')
          PROVE  [vec |-> Contents(Slots')[k], meta |-> rows'[k]] = Entries[k]
      BY <1>4, <1>5, EntriesAt
    <2>3. QED
      BY <1>4, <2>1, <2>2
  <1>8. Durable!Delete(id)
    BY <1>2, <1>7 DEF Durable!Delete, Entries, Slots, NextOf
  <1>9. QED
    BY <1>6, <1>8 DEF Mirrors, Durable!Next, Durable!Ids, Ids

-----------------------------------------------------------------------------
\* Steps that end with a configured database open.
LEMMA OpenStep ==
    ASSUME phase' # "closed", dir' \in IndexTypes PROVE WhenClosed'
  BY DEF WhenClosed

\* Steps of an open database that leave the vectors, the index and the
\* counter alone: the files may change.
LEMMA MemorySame ==
    ASSUME IInv, IInv', NoOrphanRows, IndexDescribesStore, Working, Working',
           UNCHANGED <<store, index, nextId, dir, rows, moved, halfDone>>
    PROVE  LifeStep
  <1>1. Slots' = Slots /\ NextOf' = NextOf
    BY DEF Slots, NextOf
  <1>2. NoOrphanRows' /\ Mirrors
    BY <1>1, SameSlots
  <1>3. IndexDescribesStore'
    BY KeptDescribes
  <1>4. WhenClosed'
    <2>1. phase' # "closed"
      BY DEF Working, Flushing
    <2>2. dir' \in IndexTypes
      BY DEF IInv, Idle
    <2>3. QED
      BY <2>1, <2>2, OpenStep
  <1>5. QED
    BY <1>2, <1>3, <1>4 DEF LifeStep

\* An object is given up that has nothing more to write: the files hold what
\* the memory held.
LEMMA ForgetLives ==
    ASSUME LifeInv, IInv', Forget, Working, UNCHANGED <<dir, vfile, ifile, rows>>,
           vfile = Image, savedNext' = nextId, dir = "hnsw" => ifile = {index}
    PROVE  LifeStep
  <1>1. IInv /\ IndexDescribesStore /\ NoOrphanRows /\ dir \in IndexTypes
    BY DEF LifeInv, DurableInv, IInv, Idle
  <1>2. ~Working' /\ phase' = "closed"
    BY DEF Forget, Working, Flushing
  <1>3. vfile.slots = store.slots
    BY DEF Image
  <1>4. Slots' = Slots /\ NextOf' = NextOf
    BY <1>2, <1>3 DEF Slots, NextOf
  <1>5. NoOrphanRows' /\ Mirrors
    BY <1>1, <1>4, SameSlots
  <1>6. WhenClosed'
    <2>1. dir = "hnsw" => InPlace(index, store.slots, moved)
      BY <1>1, NowDescribes
    <2>2. moved' = moved
      BY DEF Forget
    <2>3. QED
      BY <1>1, <1>3, <2>1, <2>2 DEF WhenClosed
  <1>7. QED
    BY <1>2, <1>5, <1>6 DEF LifeStep, IndexDescribesStore

LEMMA CreateLives ==
    ASSUME LifeInv, IInv', Create PROVE LifeStep
  <1>1. IInv /\ WhenClosed /\ NoOrphanRows /\ dir = "absent" /\ dir \notin IndexTypes
    BY EmptyParts DEF LifeInv, DurableInv, Create
  <1>2. /\ ~Working /\ ~Working' /\ phase' # "closed"
        /\ Slots' = Slots /\ NextOf' = NextOf /\ rows' = rows
    BY DEF Create, Working, Flushing, Slots, NextOf
  <1>3. NoOrphanRows' /\ Mirrors
    BY <1>1, <1>2, SameSlots
  <1>4. WhenClosed'
    BY <1>1, <1>2 DEF WhenClosed, Create, memory
  <1>5. QED
    BY <1>2, <1>3, <1>4 DEF LifeStep, IndexDescribesStore

LEMMA PersistConfigLives ==
    ASSUME LifeInv, IInv', NEW type \in IndexTypes, PersistConfig(type)
    PROVE  LifeStep
  <1>1. /\ IInv /\ Bare /\ WhenClosed /\ NoOrphanRows
        /\ ~Working /\ Working' /\ phase' # "closed" /\ dir' \in IndexTypes
        /\ phase = "config"
    BY DEF LifeInv, DurableInv, PersistConfig, Working, Flushing
  <1>2. /\ dir \notin IndexTypes /\ nextId = 0 /\ savedNext = 0
        /\ store = EmptyStore /\ index = EmptyIndex /\ vfile.slots = <<>>
    BY <1>1, EmptyParts DEF IInv, Idle, Bare, WhenClosed
  <1>3. store' = store /\ index' = index /\ nextId' = nextId /\ rows' = rows
    BY DEF PersistConfig
  <1>4. Slots' = Slots /\ NextOf' = NextOf
    BY <1>1, <1>2, <1>3, EmptyParts DEF Slots, NextOf
  <1>5. NoOrphanRows' /\ Mirrors
    BY <1>1, <1>3, <1>4, SameSlots
  <1>6. IndexDescribesStore'
    <2>1. LiveSlots(<<>>) = {} /\ Cardinality({}) = 0
      BY FS_EmptySet DEF LiveSlots
    <2>2. InPlace(EmptyIndex, <<>>, moved')
      BY <2>1 DEF InPlace, EmptyIndex
    <2>3. QED
      BY <1>2, <1>3, <2>2, EmptyParts, NextDescribes
  <1>7. QED
    BY <1>1, <1>5, <1>6, OpenStep DEF LifeStep

LEMMA OpenLives ==
    ASSUME LifeInv, IInv', OpenLoadingIndex \/ OpenRebuildingIndex
    PROVE  LifeStep
  <1>1. IInv /\ WhenClosed /\ NoOrphanRows
    BY DEF LifeInv, DurableInv
  <1>2. /\ phase = "closed" /\ dir \in IndexTypes
        /\ ~Working /\ Working' /\ phase' # "closed" /\ dir' = dir
        /\ store' = StoreOf(vfile.slots) /\ nextId' = savedNext /\ rows' = rows
    BY DEF OpenLoadingIndex, OpenRebuildingIndex, OpenStore, disk, Working, Flushing
  <1>3. store'.slots = vfile.slots
    BY <1>2 DEF StoreOf
  <1>4. Slots' = Slots /\ NextOf' = NextOf
    BY <1>2, <1>3 DEF Slots, NextOf
  <1>5. NoOrphanRows' /\ Mirrors
    BY <1>1, <1>2, <1>4, SameSlots
  <1>6. IndexDescribesStore'
    <2>1. CASE OpenLoadingIndex
      BY <1>1, <1>2, <1>3, <2>1, NextDescribes DEF OpenLoadingIndex, Loadable, WhenClosed
    <2>2. CASE OpenRebuildingIndex
      <3>1. vfile.slots \in Seq(Slot) /\ index' = BuildIndex(vfile.slots)
        BY <1>1, <2>2 DEF IInv, DiskOK, OpenRebuildingIndex
      <3>2. QED
        BY <1>2, <1>3, <3>1, BuiltDescribes
    <2>3. QED
      BY <2>1, <2>2
  <1>7. QED
    BY <1>2, <1>5, <1>6, OpenStep DEF LifeStep

\* What Close and the last step of a flush leave behind.
LEMMA CloseLives ==
    ASSUME LifeInv, IInv', Close PROVE LifeStep
  <1>1. /\ IInv /\ NoOrphanRows /\ IndexDescribesStore /\ CleanIsDurable
        /\ phase = "open" /\ Working /\ ~halfDone
    BY DEF LifeInv, DurableInv, Close, Working
  <1>2. CASE dirty
    <2>1. Working' /\ UNCHANGED <<store, index, nextId, dir, rows, moved, halfDone>>
      BY <1>2 DEF Close, StartFlush, memory, disk, history, Working, Flushing
    <2>2. QED
      BY <1>1, <2>1, MemorySame
  <1>3. CASE ~dirty
    <2>1. Forget /\ UNCHANGED <<dir, vfile, ifile, rows, savedNext>>
      BY <1>3 DEF Close, disk
    <2>2. vfile = Image /\ savedNext = nextId /\ (dir = "hnsw" => ifile = {index})
      BY <1>1, <1>3 DEF CleanIsDurable, Image
    <2>3. QED
      BY <1>1, <2>1, <2>2, ForgetLives
  <1>4. QED
    BY <1>2, <1>3

LEMMA FlushLives ==
    ASSUME LifeInv, IInv', Flush \/ WriteVectors \/ WriteIndex \/ SaveNextId
    PROVE  LifeStep
  <1>1. /\ IInv /\ NoOrphanRows /\ IndexDescribesStore /\ FlushProgress
    BY DEF LifeInv, DurableInv
  <1>2. CASE Flush \/ WriteVectors \/ WriteIndex
    <2>1. Working /\ Working' /\ UNCHANGED <<store, index, nextId, dir, rows, moved, halfDone>>
      BY <1>2 DEF Flush, StartFlush, WriteVectors, WriteIndex, memory, disk, history,
                  Working, Flushing
    <2>2. QED
      BY <1>1, <2>1, MemorySame
  <1>3. CASE SaveNextId /\ caller # "close"
    <2>1. Working /\ Working' /\ UNCHANGED <<store, index, nextId, dir, rows, moved, halfDone>>
      BY <1>3 DEF SaveNextId, EndFlush, history, Working, Flushing
    <2>2. QED
      BY <1>1, <2>1, MemorySame
  <1>4. CASE SaveNextId /\ caller = "close"
    <2>1. /\ Forget /\ Working /\ UNCHANGED <<dir, vfile, ifile, rows>>
          /\ phase = "nextid" /\ savedNext' = nextId
      BY <1>4 DEF SaveNextId, EndFlush, Working, Flushing
    <2>2. vfile = Image /\ (dir = "hnsw" => ifile = {index})
      BY <1>1, <2>1 DEF FlushProgress
    <2>3. QED
      BY <2>1, <2>2, ForgetLives
  <1>5. QED
    BY <1>2, <1>3, <1>4

-----------------------------------------------------------------------------
LEMMA InsertLives ==
    ASSUME LifeInv, IInv',
           NEW id \in Ids, NEW v \in Vecs, NEW m \in Metadata, Insert(id, v, m)
    PROVE  LifeStep
  <1>1. IInv /\ NoOrphanRows /\ IndexDescribesStore
    BY DEF LifeInv, DurableInv
  <1>2. InsertVector(id, v) /\ Working /\ phase' # "closed" /\ dir' = dir
    BY DEF Insert, InsertVector, Working
  <1>3. dir' \in IndexTypes
    BY <1>1, <1>2 DEF IInv, Idle
  <1>4. NoOrphanRows' /\ Mirrors
    BY <1>1, InsertMirrors
  <1>5. IndexDescribesStore'
    BY <1>1, <1>2, AddDescribes
  <1>6. QED
    BY <1>2, <1>3, <1>4, <1>5, OpenStep DEF LifeStep

LEMMA UpsertLives ==
    ASSUME LifeInv, IInv',
           NEW id \in Ids, NEW v \in Vecs, NEW m \in Metadata, Upsert(id, v, m)
    PROVE  LifeStep
  <1>1. IInv /\ NoOrphanRows /\ IndexDescribesStore
    BY DEF LifeInv, DurableInv
  <1>2. CASE Insert(id, v, m)
    BY <1>2, InsertLives
  <1>3. CASE UpsertVector(id, v) /\ rows' = [rows EXCEPT ![id] = m]
    <2>1. /\ Working /\ Working' /\ phase' # "closed" /\ dir' = dir
          /\ nextId' = nextId /\ Contains(store, id)
          /\ store' = StoreUpsert(store, id, v)
          /\ store \in Store /\ StoreConsistent(store)
      BY <1>1, <1>3 DEF UpsertVector, Working, IInv, MemoryOK
    <2>2. dir' \in IndexTypes
      BY <1>1, <2>1 DEF IInv, Idle
    <2>3. /\ Slots = store.slots /\ Slots' = StoreUpsert(store, id, v).slots
          /\ NextOf' = NextOf
      BY <2>1 DEF Slots, NextOf
    <2>4. /\ id \in DOMAIN Contents(Slots)
          /\ Contents(Slots') = [k \in DOMAIN Contents(Slots) \cup {id} |->
                                    IF k = id THEN v ELSE Contents(Slots)[k]]
      BY <2>1, <2>3, UpsertContents
    <2>5. id \in LiveIds(Slots)
      BY <1>1, <2>4, EntriesAt
    <2>6. Contents(Slots') = [k \in DOMAIN Contents(Slots) \cup {id} |->
                                IF k = id THEN v ELSE Contents(Slots)[k]]
      BY <2>4
    <2>7. NoOrphanRows' /\ Mirrors
      BY <1>1, <1>3, <2>3, <2>5, <2>6, ReplaceMirrors
    <2>8. IndexDescribesStore'
      BY <1>1, <1>3, UpsertDescribes
    <2>9. QED
      BY <2>1, <2>2, <2>7, <2>8, OpenStep DEF LifeStep
  <1>4. QED
    BY <1>2, <1>3 DEF Upsert

LEMMA RemoveLives ==
    ASSUME LifeInv, IInv', NEW id \in Ids, Remove(id) PROVE LifeStep
  <1>1. IInv /\ NoOrphanRows /\ IndexDescribesStore
    BY DEF LifeInv, DurableInv
  <1>2. RemoveVector(id) /\ Working /\ phase' # "closed" /\ dir' = dir
    BY DEF Remove, RemoveVector, Working
  <1>3. dir' \in IndexTypes
    BY <1>1, <1>2 DEF IInv, Idle
  <1>4. NoOrphanRows' /\ Mirrors
    BY <1>1, RemoveMirrors
  <1>5. IndexDescribesStore'
    BY <1>1, <1>2, RemoveDescribes
  <1>6. QED
    BY <1>2, <1>3, <1>4, <1>5, OpenStep DEF LifeStep

\* set_metadata: the vector is written again, to what it was.
LEMMA SetMetadataLives ==
    ASSUME LifeInv, IInv', NEW id \in Ids, NEW m \in Metadata, SetMetadata(id, m)
    PROVE  LifeStep
  <1>1. IInv /\ NoOrphanRows /\ IndexDescribesStore
    BY DEF LifeInv, DurableInv
  <1>2. /\ Working /\ Working' /\ phase' # "closed" /\ dir' = dir
        /\ store' = store /\ index' = index /\ nextId' = nextId
        /\ rows' = [rows EXCEPT ![id] = m] /\ Contains(store, id)
        /\ store \in Store /\ StoreConsistent(store)
    BY <1>1 DEF SetMetadata, Working, IInv, MemoryOK
  <1>3. dir' \in IndexTypes
    BY <1>1, <1>2 DEF IInv, Idle
  <1>4. Slots = store.slots /\ Slots' = Slots /\ NextOf' = NextOf
    BY <1>2 DEF Slots, NextOf
  <1> DEFINE at == store.idToLocal[id]
  <1>5. /\ at \in LiveSlots(Slots) /\ Slots[at].id = id
        /\ Slots \in Seq(Slot) /\ at \in DOMAIN Slots
    BY <1>1, <1>2, <1>4, SlotsOK DEF StoreConsistent, LiveSlots
  <1>6. id \in LiveIds(Slots) /\ Contents(Slots)[id] = Slots[at].vec
    BY <1>1, <1>5, SlotsOK, ContentsAt
  <1>7. PICK v \in Vecs : v = Contents(Slots)[id]
    <2>1. Slots[at] \in Slot
      BY <1>5
    <2>2. Slots[at].vec \in Vecs
      BY <2>1 DEF Slot
    <2>3. QED
      BY <1>6, <2>2
  <1>8. Contents(Slots') = [k \in DOMAIN Contents(Slots) \cup {id} |->
                              IF k = id THEN v ELSE Contents(Slots)[k]]
    <2>1. /\ DOMAIN Contents(Slots) \cup {id} = DOMAIN Contents(Slots)
          /\ Contents(Slots) = [k \in DOMAIN Contents(Slots) |-> Contents(Slots)[k]]
      BY <1>1, <1>6, SlotsOK, ContentsAt
    <2>2. QED
      BY <1>4, <1>7, <2>1
  <1>9. NoOrphanRows' /\ Mirrors
    <2>1. /\ IInv /\ NoOrphanRows /\ id \in LiveIds(Slots) /\ NextOf' = NextOf
          /\ rows' = [rows EXCEPT ![id] = m]
      BY <1>1, <1>2, <1>4, <1>6
    <2>2. QED
      BY <1>8, <2>1, ReplaceMirrors
  <1>10. IndexDescribesStore'
    BY <1>1, <1>2, KeptDescribes DEF SetMetadata, history
  <1>11. QED
    BY <1>2, <1>3, <1>9, <1>10, OpenStep DEF LifeStep

\* rebuild_index and compact: the contents stay, the index is made again.
LEMMA MaintenanceLives ==
    ASSUME LifeInv, IInv', RebuildIndex \/ Compact PROVE LifeStep
  <1>1. IInv /\ NoOrphanRows
    BY DEF LifeInv, DurableInv
  <1>2. /\ Working /\ Working' /\ phase' # "closed"
        /\ UNCHANGED <<nextId, dir, rows>>
    BY DEF RebuildIndex, Compact, StartFlush, disk, Working, Flushing
  <1>3. dir' \in IndexTypes
    BY <1>1, <1>2 DEF IInv, Idle
  <1>4. Slots = store.slots /\ Slots' = store'.slots /\ NextOf' = NextOf
    BY <1>2 DEF Slots, NextOf
  <1>5. index' = BuildIndex(store'.slots)
    BY DEF RebuildIndex, Compact, StoreOf
  <1>6. Contents(Slots') = Contents(Slots)
    <2>1. CASE RebuildIndex
      BY <1>4, <2>1 DEF RebuildIndex
    <2>2. CASE Compact
      <3>1. PICK slots \in Compactions(store.slots) : store' = StoreOf(slots)
        BY <2>2 DEF Compact
      <3>2. store'.slots = slots
        BY <3>1 DEF StoreOf
      <3>3. QED
        BY <1>1, <1>4, <3>1, <3>2, SlotsOK, CompactionContents
    <2>3. QED
      BY <2>1, <2>2
  <1>7. Mirrors
    BY <1>1, <1>2, <1>4, <1>6, ViewSame
  <1>8. NoOrphanRows'
    <2>1. LiveIds(Slots') = LiveIds(Slots)
      BY <1>1, <1>6, EntriesAt, EntriesAfter
    <2>2. \A id \in Ids : rows'[id] # NoMeta => id \in LiveIds(Slots')
      BY <1>1, <1>2, <2>1 DEF NoOrphanRows, Slots
    <2>3. QED
      BY <2>2 DEF NoOrphanRows, Slots
  <1>9. IndexDescribesStore'
    <2>1. store'.slots \in Seq(Slot)
      BY DEF IInv, MemoryOK, Store
    <2>2. QED
      BY <1>2, <1>5, <2>1, BuiltDescribes
  <1>10. QED
    BY <1>2, <1>3, <1>7, <1>8, <1>9, OpenStep DEF LifeStep

\* No operation is left half-done.
LEMMA HalfNever ==
    ASSUME Faults = {}, ~halfDone, [Next]_vars PROVE ~halfDone'
  <1>1. CASE Lifecycle
    BY <1>1 DEF Lifecycle, Create, PersistConfig, PersistConfigFails, OpenLoadingIndex,
                OpenRebuildingIndex, OpenStore, Close, Crash, Forget, history
  <1>2. CASE Writing \/ AutoWriting \/ Removing
    BY <1>2 DEF Writing, AutoWriting, Removing, Insert, InsertAuto, Upsert, Remove,
                SetMetadata, InsertMetadataFails, UpsertMetadataFails,
                RemoveMetadataFails, history
  <1>3. CASE Maintenance
    BY <1>3 DEF Maintenance, Flush, RebuildIndex, Compact, WriteVectors, WriteIndex,
                SaveNextId, EndFlush, FlushFails, Forget, history
  <1>4. QED
    BY <1>1, <1>2, <1>3 DEF Next, vars, history

\* When nothing goes wrong, every step keeps LifeInv and mirrors a step of
\* the map.
LEMMA LifeNext ==
    ASSUME Faults = {}, LifeInv, [Next]_vars
    PROVE  LifeInv' /\ Mirrors
  <1>1. DurableInv' /\ Bare' /\ IInv /\ IInv'
    BY DurableStep, SnapshotStep DEF LifeInv, DurableInv, SnapshotInv
  <1> SUFFICES LifeStep
    BY <1>1, HalfNever DEF LifeInv, LifeStep
  <1>2. CASE Lifecycle
    BY <1>1, <1>2, CreateLives, PersistConfigLives, OpenLives, CloseLives
    DEF Lifecycle, PersistConfigFails, Crash
  <1>3. CASE Writing
    BY <1>1, <1>3, InsertLives, UpsertLives
    DEF Writing, InsertMetadataFails, UpsertMetadataFails
  <1>4. CASE AutoWriting
    BY <1>1, <1>4, InsertLives DEF AutoWriting, InsertAuto, IInv, MemoryOK
  <1>5. CASE Removing
    BY <1>1, <1>5, RemoveLives, SetMetadataLives DEF Removing, RemoveMetadataFails
  <1>6. CASE Maintenance
    BY <1>1, <1>6, FlushLives, MaintenanceLives DEF Maintenance, FlushFails
  <1>7. CASE UNCHANGED vars
    <2>1. Slots' = Slots /\ NextOf' = NextOf /\ rows' = rows
      BY <1>7 DEF vars, memory, disk, Slots, NextOf, Working, Flushing
    <2>2. NoOrphanRows' /\ Mirrors
      BY <1>1, <2>1, SameSlots DEF LifeInv
    <2>3. WhenClosed'
      BY <1>7 DEF vars, memory, disk, history, LifeInv, WhenClosed
    <2>4. IndexDescribesStore'
      <3>1. CASE Working
        BY <1>1, <1>7, <3>1, KeptDescribes DEF vars, memory, disk, history, LifeInv
      <3>2. CASE ~Working
        BY <1>7, <3>2 DEF vars, IndexDescribesStore, Working, Flushing
      <3>3. QED
        BY <3>1, <3>2
    <2>5. QED
      BY <2>2, <2>3, <2>4 DEF LifeStep
  <1>8. QED
    BY <1>2, <1>3, <1>4, <1>5, <1>6, <1>7 DEF Next

LEMMA LifeInit == Init => LifeInv /\ Durable!Init
  <1> SUFFICES ASSUME Init PROVE LifeInv /\ Durable!Init
    OBVIOUS
  <1>1. DurableInv
    BY InitIInv DEF Init, DurableInv, FlushProgress, CleanIsDurable, Flushing
  <1>2. /\ ~Working /\ vfile.slots = <<>> /\ Slots = <<>> /\ NextOf = 0
    BY DEF Init, Working, Flushing, Slots, NextOf
  <1>3. Bare /\ WhenClosed /\ IndexDescribesStore
    BY <1>2 DEF Init, Bare, WhenClosed, IndexDescribesStore
  <1>4. NoOrphanRows
    BY DEF Init, NoOrphanRows
  <1>5. Durable!Init
    <2>1. View(<<>>) = [id \in {} |-> {}]
      BY EmptyContents DEF View
    <2>2. QED
      BY <1>2, <2>1 DEF Durable!Init, Durable!Nothing, Slots, NextOf
  <1>6. ~halfDone
    BY DEF Init
  <1>7. QED
    BY <1>1, <1>3, <1>4, <1>5, <1>6 DEF LifeInv

\* When nothing goes wrong, every node of the graph belongs to the id of its
\* slot and is in the place of its slot's vector, unless an upsert has replaced
\* the vector since the graph was last built, and the counter counts the live
\* slots: open need not compare more of it than its node count.
THEOREM IndexHolds ==
    ASSUME Faults = {}
    PROVE  Spec => []IndexDescribesStore
  <1>1. LifeInv /\ [Next]_vars => LifeInv'
    BY LifeNext
  <1>2. LifeInv => IndexDescribesStore
    BY DEF LifeInv
  <1>3. QED
    BY <1>1, <1>2, LifeInit, PTL DEF Spec

\* Every metadata row belongs to a vector, when nothing goes wrong.
THEOREM NoOrphans ==
    ASSUME Faults = {}
    PROVE  Spec => []NoOrphanRows
  <1>1. LifeInv /\ [Next]_vars => LifeInv'
    BY LifeNext
  <1>2. LifeInv => NoOrphanRows
    BY DEF LifeInv
  <1>3. QED
    BY <1>1, <1>2, LifeInit, PTL DEF Spec

\* A vector has the metadata it was inserted with: insert writes no row for
\* empty metadata, and no row of an earlier vector is left to take its place.
THEOREM InsertsAsGiven ==
    ASSUME Faults = {}
    PROVE  Spec => InsertedAsGiven
  <1> DEFINE Given == \A id \in Ids, v \in Vecs, m \in Metadata :
                          Insert(id, v, m) => rows'[id] = m
  <1>1. LifeInv /\ [Next]_vars => LifeInv'
    BY LifeNext
  <1>2. LifeInv /\ [Next]_vars => [Given]_vars
    <2> SUFFICES ASSUME LifeInv, [Next]_vars,
                        NEW id \in Ids, NEW v \in Vecs, NEW m \in Metadata,
                        Insert(id, v, m)
                 PROVE  rows'[id] = m
      OBVIOUS
    <2>1. IInv /\ IInv' /\ NoOrphanRows
      BY LifeNext DEF LifeInv, DurableInv
    <2>2. QED
      BY <2>1, InsertMirrors
  <1>3. QED
    BY <1>1, <1>2, LifeInit, PTL DEF Spec, InsertedAsGiven

\* When nothing goes wrong the database is a DurableMap: through any number of
\* closings, openings, compactions and rebuilds, what was written is there,
\* the vector, its metadata and the next id, until it is overwritten.
THEOREM DurableMapHolds ==
    ASSUME Faults = {}
    PROVE  Spec => ImplementsDurableMap
  <1>1. LifeInv /\ [Next]_vars => LifeInv' /\ [Durable!Next]_(Durable!vars)
    BY LifeNext DEF Mirrors
  <1>2. QED
    BY <1>1, LifeInit, PTL DEF Spec, ImplementsDurableMap, Durable!Spec
=============================================================================
