--------------------------- MODULE DatabaseProofs ----------------------------
(***************************************************************************)
(* For any number of ids, slots, vectors and metadata values, and whatever *)
(* combination of crashes, failed writes and failed metadata steps the     *)
(* constant Faults allows: the types, the agreement of the store's parts,  *)
(* the node-per-slot rule of the index and the safety of the metadata hint *)
(* are invariants of the database.                                         *)
(***************************************************************************)
EXTENDS Database, VectorStoreProofs

\* What the process holds, and what the directory holds.
MemoryOK ==
    /\ store \in Store
    /\ StoreConsistent(store)
    /\ index \in Index
    /\ nextId \in Ids
    /\ dirty \in BOOLEAN
    /\ hasMeta \in BOOLEAN

DiskOK ==
    /\ dir \in {"absent", "bare"} \cup IndexTypes
    /\ vfile \in [slots : Seq(Slot), liveCount : Nat]
    /\ vfile.liveCount = Cardinality(LiveSlots(vfile.slots))
    /\ UniqueLiveIds(vfile.slots)
    /\ ifile \in SUBSET Index
    /\ rows \in [Ids -> Metadata]
    /\ savedNext \in Ids

HistoryOK ==
    /\ used \in SUBSET Ids
    /\ moved \in SUBSET Nat
    /\ halfDone \in BOOLEAN

PhaseOK ==
    /\ phase \in Flushing \cup {"closed", "config", "open"}
    /\ caller \in {"none", "create", "flush", "close"}
    /\ HistoryOK

\* Memory is in use only while a configured directory is open, and metadata
\* rows exist only in a configured directory.
Idle ==
    /\ ~Working => store = EmptyStore /\ index = EmptyIndex
    /\ Working => dir \in IndexTypes
    /\ phase = "config" => dir = "bare"
    /\ dir \notin IndexTypes => \A id \in Ids : rows[id] = NoMeta

IInv ==
    /\ MemoryOK
    /\ DiskOK
    /\ PhaseOK
    /\ Idle
    /\ IndexCoversStore
    /\ HintIsSafe

-----------------------------------------------------------------------------
\* The memory of a process that has no database open.
LEMMA EmptyParts ==
    /\ 0 \in Ids
    /\ EmptyIndex \in Index
    /\ EmptyIndex.nodes = <<>>
    /\ EmptyStore.slots = <<>>
    /\ {"absent", "bare"} \cap IndexTypes = {}
  BY StoreAssumption, DatabaseAssumption DEF Ids, EmptyIndex, Index, EmptyStore

\* The node of a slot.
LEMMA NodeForType ==
    ASSUME NEW id \in Ids, NEW v \in Vecs
    PROVE  NodeFor(id, v) \in Node
  BY DatabaseAssumption DEF NodeFor, Node

\* A rebuilt index has a node for every slot, or for none if it is brute force.
LEMMA BuildIndexCovers ==
    ASSUME NEW slots \in Seq(Slot)
    PROVE  /\ BuildIndex(slots) \in Index
           /\ Len(BuildIndex(slots).nodes) = IF dir = "hnsw" THEN Len(slots) ELSE 0
  <1>1. CASE dir = "hnsw"
    <2> DEFINE nodes == [i \in DOMAIN slots |-> NodeFor(slots[i].id, slots[i].vec)]
               live  == Cardinality(LiveSlots(slots))
    <2>1. DOMAIN slots = 1 .. Len(slots) /\ Len(slots) \in Nat
      BY LiveSlotsType
    <2>2. \A i \in DOMAIN slots : NodeFor(slots[i].id, slots[i].vec) \in Node
      <3>1. \A i \in DOMAIN slots : slots[i] \in Slot
        BY <2>1
      <3>2. QED
        BY <3>1, NodeForType DEF Slot
    <2>3. nodes \in Seq(Node) /\ Len(nodes) = Len(slots)
      BY <2>1, <2>2
    <2>4. live \in Nat
      BY LiveSlotsFinite
    <2> HIDE DEF nodes, live
    <2>5. [nodes |-> nodes, live |-> live] \in Index
      BY <2>3, <2>4 DEF Index
    <2>6. BuildIndex(slots) = [nodes |-> nodes, live |-> live]
      BY <1>1 DEF BuildIndex, nodes, live
    <2>7. QED
      BY <1>1, <2>3, <2>5, <2>6
  <1>2. CASE dir # "hnsw"
    BY <1>2, EmptyParts DEF BuildIndex
  <1>3. QED
    BY <1>1, <1>2

\* add gives the graph the node for the slot just appended.
LEMMA IndexAddCovers ==
    ASSUME index \in Index, NEW id \in Ids, NEW v \in Vecs
    PROVE  /\ IndexAdd(id, v) \in Index
           /\ dir = "hnsw" => Len(IndexAdd(id, v).nodes) = Len(index.nodes) + 1
           /\ dir # "hnsw" => IndexAdd(id, v) = index
  BY NodeForType DEF IndexAdd, Index

\* remove leaves the nodes where they are.
LEMMA IndexRemoveCovers ==
    ASSUME index \in Index
    PROVE  /\ IndexRemove \in Index
           /\ IndexRemove.nodes = index.nodes
  BY DEF IndexRemove, Index

\* id + 1 wraps within the width of a VectorId.
LEMMA NextAfterType ==
    ASSUME nextId \in Ids, NEW id \in Ids
    PROVE  NextAfter(id) \in Ids
  BY StoreAssumption DEF NextAfter, Ids

\* An object that is forgotten leaves the invariant of an idle process.
LEMMA ForgetKeeps ==
    ASSUME IInv, Forget, DiskOK',
           dir' \notin IndexTypes => \A id \in Ids : rows'[id] = NoMeta
    PROVE  IInv'
  <1>1. MemoryOK'
    BY EmptyParts, EmptyStoreConsistent DEF Forget, MemoryOK
  <1>2. PhaseOK' /\ ~Working' /\ Idle'
    BY DEF IInv, Forget, PhaseOK, HistoryOK, Working, Flushing, Idle
  <1>3. QED
    BY <1>1, <1>2 DEF IInv, IndexCoversStore, HintIsSafe

\* An absent directory and no object.
LEMMA InitIInv == Init => IInv
  <1> SUFFICES ASSUME Init PROVE IInv
    OBVIOUS
  <1>1. MemoryOK
    BY EmptyParts, EmptyStoreConsistent DEF Init, MemoryOK
  <1>2. LiveSlots(vfile.slots) = {}
    BY DEF Init, LiveSlots
  <1>3. DiskOK
    <2>1. Cardinality(LiveSlots(vfile.slots)) = 0
      BY <1>2, FS_EmptySet
    <2>2. vfile \in [slots : Seq(Slot), liveCount : Nat]
      BY DEF Init
    <2>3. rows \in [Ids -> Metadata]
      BY DEF Init, Metadata
    <2>4. QED
      BY <1>2, <2>1, <2>2, <2>3, EmptyParts DEF Init, DiskOK, UniqueLiveIds
  <1>4. PhaseOK /\ Idle /\ ~Working
    BY DEF Init, PhaseOK, HistoryOK, Idle, Working, Flushing
  <1>5. QED
    BY <1>1, <1>3, <1>4 DEF IInv, IndexCoversStore, HintIsSafe

-----------------------------------------------------------------------------
(***************************************************************************)
(* One lemma per action, or per group of actions that change the same part *)
(***************************************************************************)
LEMMA CreateKeeps == ASSUME IInv, Create PROVE IInv'
  <1>1. MemoryOK'
    BY DEF IInv, MemoryOK, Create, memory
  <1>2. DiskOK'
    BY DEF IInv, DiskOK, Create
  <1>3. PhaseOK' /\ Idle' /\ ~Working'
    BY EmptyParts DEF IInv, PhaseOK, HistoryOK, history, Idle, Create, Working,
                      Flushing, memory
  <1>4. QED
    BY <1>1, <1>2, <1>3 DEF IInv, IndexCoversStore, HintIsSafe

\* The configuration is written, or is not.
LEMMA PersistConfigKeeps ==
    ASSUME IInv, NEW type \in IndexTypes, PersistConfig(type) PROVE IInv'
  <1>1. MemoryOK'
    BY DEF IInv, MemoryOK, PersistConfig
  <1>2. DiskOK'
    BY DEF IInv, MemoryOK, DiskOK, PersistConfig
  <1>3. /\ store = EmptyStore
        /\ index = EmptyIndex
        /\ \A id \in Ids : rows[id] = NoMeta
    BY EmptyParts DEF IInv, Idle, PersistConfig, Working, Flushing
  <1>4. PhaseOK' /\ Working' /\ Idle'
    BY <1>3, EmptyParts DEF IInv, PhaseOK, HistoryOK, history, Idle, PersistConfig,
                            Working, Flushing
  <1>5. IndexCoversStore' /\ HintIsSafe'
    BY <1>3, EmptyParts DEF PersistConfig, IndexCoversStore, HintIsSafe
  <1>6. QED
    BY <1>1, <1>2, <1>4, <1>5 DEF IInv

\* open reads a consistent store and an index that fits it, or builds one.
LEMMA OpenKeeps ==
    ASSUME IInv, OpenLoadingIndex \/ OpenRebuildingIndex PROVE IInv'
  <1>1. OpenStore
    BY DEF OpenLoadingIndex, OpenRebuildingIndex
  <1>2. vfile.slots \in Seq(Slot) /\ UniqueLiveIds(vfile.slots)
    BY DEF IInv, DiskOK
  <1>3. store' \in Store /\ StoreConsistent(store') /\ store'.slots = vfile.slots
    BY <1>1, <1>2, StoreOfConsistent DEF OpenStore
  <1>4. /\ index' \in Index
        /\ Len(index'.nodes) = IF dir = "hnsw" THEN Len(vfile.slots) ELSE 0
        /\ dirty' \in BOOLEAN
    <2>1. CASE OpenLoadingIndex
      BY <2>1 DEF IInv, DiskOK, OpenLoadingIndex, Loadable
    <2>2. CASE OpenRebuildingIndex
      BY <1>2, <2>2, BuildIndexCovers DEF OpenRebuildingIndex
    <2>3. QED
      BY <2>1, <2>2
  <1>5. MemoryOK'
    BY <1>1, <1>3, <1>4 DEF IInv, DiskOK, MemoryOK, OpenStore
  <1>6. DiskOK'
    BY <1>1 DEF IInv, DiskOK, OpenStore, disk
  <1>7. PhaseOK' /\ Idle' /\ Working'
    <2>1. moved' \in SUBSET Nat
      BY DEF IInv, PhaseOK, HistoryOK, OpenLoadingIndex, OpenRebuildingIndex
    <2>2. QED
      BY <1>1, <2>1 DEF IInv, PhaseOK, HistoryOK, Idle, OpenStore, Working, Flushing, disk
  <1>8. IndexCoversStore' /\ HintIsSafe'
    BY <1>1, <1>3, <1>4 DEF OpenStore, IndexCoversStore, HintIsSafe, disk
  <1>9. QED
    BY <1>5, <1>6, <1>7, <1>8 DEF IInv

\* The steps in which a vector is added, whatever becomes of its metadata.
LEMMA InsertVectorKeeps ==
    ASSUME IInv, NEW id \in Ids, NEW v \in Vecs, InsertVector(id, v)
    PROVE  /\ store' \in Store
           /\ StoreConsistent(store')
           /\ index' \in Index
           /\ IndexCoversStore'
           /\ used' \in SUBSET Ids /\ moved' \in SUBSET Nat
  <1>1. store' \in Store /\ StoreConsistent(store')
    BY InsertConsistent DEF IInv, MemoryOK, InsertVector, CanInsert
  <1>2. /\ index' \in Index
        /\ dir = "hnsw" => Len(index'.nodes) = Len(index.nodes) + 1
        /\ dir # "hnsw" => index' = index
    BY IndexAddCovers DEF IInv, MemoryOK, InsertVector
  <1>3. Len(store'.slots) = Len(store.slots) + 1
    <2>1. store.slots \in Seq(Slot)
      BY DEF IInv, MemoryOK, Store
    <2>2. store'.slots = Append(store.slots, [id |-> id, vec |-> v, live |-> TRUE])
      BY DEF InsertVector, StoreInsert
    <2>3. QED
      BY <2>1, <2>2
  <1>4. Working /\ Working'
    BY DEF InsertVector, Working
  <1>5. used' \in SUBSET Ids /\ moved' \in SUBSET Nat
    BY DEF InsertVector, IInv, PhaseOK, HistoryOK
  <1>6. QED
    BY <1>1, <1>2, <1>3, <1>4, <1>5 DEF IInv, IndexCoversStore, InsertVector

\* What the API calls on an open database have in common: the directory,
\* the two files and the phase stay, and a row is written only while the
\* hint says that there are rows.
LEMMA OpenCallKeeps ==
    ASSUME IInv, phase = "open",
           UNCHANGED <<phase, caller, dir, vfile, ifile, savedNext>>,
           store' \in Store, StoreConsistent(store'), index' \in Index,
           IndexCoversStore', nextId' \in Ids, dirty' \in BOOLEAN,
           hasMeta' \in BOOLEAN, rows' \in [Ids -> Metadata],
           HistoryOK',
           ~hasMeta' => \A id \in Ids : rows'[id] = NoMeta
    PROVE  IInv'
  <1>1. MemoryOK'
    BY DEF IInv, MemoryOK
  <1>2. DiskOK'
    BY DEF IInv, DiskOK
  <1>3. Working /\ Working' /\ phase' # "config"
    BY DEF Working
  <1>4. PhaseOK' /\ Idle'
    BY <1>3 DEF IInv, PhaseOK, Idle
  <1>5. HintIsSafe'
    BY DEF HintIsSafe
  <1>6. QED
    BY <1>1, <1>2, <1>4, <1>5 DEF IInv

\* Writing one row and setting the hint keeps the hint safe.
LEMMA RowWriteKeepsHint ==
    ASSUME IInv, Working, NEW id \in Ids, NEW m \in Metadata,
           rows' = [rows EXCEPT ![id] = m],
           hasMeta' = (hasMeta \/ m # NoMeta)
    PROVE  /\ rows' \in [Ids -> Metadata]
           /\ hasMeta' \in BOOLEAN
           /\ ~hasMeta' => \A k \in Ids : rows'[k] = NoMeta
  <1>1. rows \in [Ids -> Metadata] /\ hasMeta \in BOOLEAN
    BY DEF IInv, DiskOK, MemoryOK
  <1>2. ~hasMeta => \A k \in Ids : rows[k] = NoMeta
    BY DEF IInv, HintIsSafe
  <1>3. QED
    BY <1>1, <1>2

\* insert to its end.
LEMMA InsertKeeps ==
    ASSUME IInv, NEW id \in Ids, NEW v \in Vecs, NEW m \in Metadata,
           Insert(id, v, m)
    PROVE  IInv'
  <1>1. InsertVector(id, v)
    BY DEF Insert
  <1>2. /\ store' \in Store /\ StoreConsistent(store')
        /\ index' \in Index /\ IndexCoversStore'
        /\ used' \in SUBSET Ids /\ moved' \in SUBSET Nat
    BY <1>1, InsertVectorKeeps
  <1>3. phase = "open" /\ Working
    BY <1>1 DEF InsertVector, Working
  <1>4. rows' = IF m = NoMeta THEN rows ELSE [rows EXCEPT ![id] = m]
    BY DEF Insert
  <1>5. /\ rows' \in [Ids -> Metadata]
        /\ hasMeta' \in BOOLEAN
        /\ ~hasMeta' => \A k \in Ids : rows'[k] = NoMeta
    <2>1. CASE m = NoMeta
      BY <1>3, <2>1 DEF IInv, DiskOK, MemoryOK, HintIsSafe, Insert
    <2>2. CASE m # NoMeta
      <3>1. rows' = [rows EXCEPT ![id] = m] /\ hasMeta' = (hasMeta \/ m # NoMeta)
        BY <2>2 DEF Insert
      <3>2. QED
        BY <1>3, <3>1, RowWriteKeepsHint
    <2>3. QED
      BY <2>1, <2>2
  <1>6. nextId' \in Ids
    BY NextAfterType DEF Insert, IInv, MemoryOK
  <1>7. dirty' \in BOOLEAN /\ HistoryOK'
    BY <1>2 DEF Insert, HistoryOK
  <1>8. UNCHANGED <<phase, caller, dir, vfile, ifile, savedNext>>
    BY <1>1 DEF InsertVector
  <1>9. QED
    BY <1>2, <1>3, <1>5, <1>6, <1>7, <1>8, OpenCallKeeps

\* insert up to the metadata step.
LEMMA InsertMetadataFailsKeeps ==
    ASSUME IInv, NEW id \in Ids, NEW v \in Vecs, InsertMetadataFails(id, v)
    PROVE  IInv'
  <1>1. InsertVector(id, v)
    BY DEF InsertMetadataFails
  <1>2. /\ store' \in Store /\ StoreConsistent(store')
        /\ index' \in Index /\ IndexCoversStore'
        /\ used' \in SUBSET Ids /\ moved' \in SUBSET Nat
    BY <1>1, InsertVectorKeeps
  <1>3. /\ phase = "open" /\ Working
        /\ UNCHANGED <<phase, caller, dir, vfile, ifile, savedNext>>
    BY <1>1 DEF InsertVector, Working
  <1>4. /\ nextId' \in Ids /\ dirty' \in BOOLEAN /\ hasMeta' \in BOOLEAN
        /\ rows' \in [Ids -> Metadata] /\ HistoryOK'
        /\ ~hasMeta' => \A k \in Ids : rows'[k] = NoMeta
    BY <1>2, <1>3 DEF InsertMetadataFails, IInv, MemoryOK, DiskOK, HistoryOK, HintIsSafe
  <1>5. QED
    BY <1>2, <1>3, <1>4, OpenCallKeeps

\* The steps in which a vector is replaced.
LEMMA UpsertVectorKeeps ==
    ASSUME IInv, NEW id \in Ids, NEW v \in Vecs, UpsertVector(id, v)
    PROVE  /\ store' \in Store
           /\ StoreConsistent(store')
           /\ index' \in Index
           /\ IndexCoversStore'
           /\ phase = "open" /\ Working
           /\ UNCHANGED <<phase, caller, dir, vfile, ifile, savedNext>>
           /\ nextId' \in Ids /\ used' \in SUBSET Ids /\ moved' \in SUBSET Nat
  <1>1. store' \in Store /\ StoreConsistent(store')
    BY UpsertConsistent DEF IInv, MemoryOK, UpsertVector
  <1>2. Len(store'.slots) = Len(store.slots)
    <2>1. store.slots \in Seq(Slot)
      BY DEF IInv, MemoryOK, Store
    <2>2. store'.slots = [store.slots EXCEPT ![store.idToLocal[id]].vec = v]
      BY DEF UpsertVector, StoreUpsert, IInv, MemoryOK, Store
    <2>3. store'.slots \in Seq(Slot) /\ DOMAIN store'.slots = DOMAIN store.slots
      BY <1>1, <2>2 DEF Store
    <2>4. QED
      BY <2>1, <2>3
  <1>3. phase = "open" /\ Working /\ Working'
    BY DEF UpsertVector, Working
  <1>4. index' = index /\ dir' = dir
    BY DEF UpsertVector
  <1>5. IndexCoversStore'
    BY <1>2, <1>3, <1>4 DEF IInv, IndexCoversStore
  <1>6. moved' \in SUBSET Nat
    <2>1. store.idToLocal[id] \in Nat
      BY DEF IInv, MemoryOK, Store
    <2>2. QED
      BY <2>1 DEF UpsertVector, IInv, PhaseOK, HistoryOK
  <1>7. QED
    BY <1>1, <1>3, <1>4, <1>5, <1>6 DEF UpsertVector, IInv, MemoryOK, PhaseOK, HistoryOK

\* upsert to its end, for an id in the store or not.
LEMMA UpsertKeeps ==
    ASSUME IInv, NEW id \in Ids, NEW v \in Vecs, NEW m \in Metadata,
           Upsert(id, v, m)
    PROVE  IInv'
  <1>1. CASE Insert(id, v, m)
    BY <1>1, InsertKeeps
  <1>2. ASSUME UpsertVector(id, v),
               rows' = [rows EXCEPT ![id] = m],
               hasMeta' = (hasMeta \/ m # NoMeta),
               dirty' = TRUE, halfDone' = FALSE
        PROVE  IInv'
    <2>1. HistoryOK'
      BY <1>2, UpsertVectorKeeps DEF HistoryOK
    <2>2. QED
      BY <1>2, <2>1, UpsertVectorKeeps, RowWriteKeepsHint, OpenCallKeeps
  <1>3. QED
    BY <1>1, <1>2 DEF Upsert

\* upsert up to the metadata step.
LEMMA UpsertMetadataFailsKeeps ==
    ASSUME IInv, NEW id \in Ids, NEW v \in Vecs, UpsertMetadataFails(id, v)
    PROVE  IInv'
  <1>1. /\ UpsertVector(id, v) /\ UNCHANGED <<rows, hasMeta, dirty>>
        /\ halfDone' \in BOOLEAN
    BY DEF UpsertMetadataFails
  <1>2. Working
    BY <1>1 DEF UpsertVector, Working
  <1>3. /\ dirty' \in BOOLEAN /\ hasMeta' \in BOOLEAN
        /\ rows' \in [Ids -> Metadata]
        /\ ~hasMeta' => \A k \in Ids : rows'[k] = NoMeta
        /\ HistoryOK'
    BY <1>1, <1>2, UpsertVectorKeeps DEF IInv, MemoryOK, DiskOK, HistoryOK, HintIsSafe
  <1>4. QED
    BY <1>1, <1>3, UpsertVectorKeeps, OpenCallKeeps

\* The steps in which a vector is tombstoned.
LEMMA RemoveVectorKeeps ==
    ASSUME IInv, NEW id \in Ids, RemoveVector(id)
    PROVE  /\ store' \in Store
           /\ StoreConsistent(store')
           /\ index' \in Index
           /\ IndexCoversStore'
           /\ phase = "open" /\ Working
           /\ UNCHANGED <<phase, caller, dir, vfile, ifile, savedNext>>
           /\ nextId' \in Ids /\ hasMeta' \in BOOLEAN
           /\ used' \in SUBSET Ids /\ moved' \in SUBSET Nat
  <1>1. store' \in Store /\ StoreConsistent(store')
    BY RemoveConsistent DEF IInv, MemoryOK, RemoveVector
  <1>2. Len(store'.slots) = Len(store.slots)
    <2>1. store.slots \in Seq(Slot)
      BY DEF IInv, MemoryOK, Store
    <2>2. store'.slots = [store.slots EXCEPT ![store.idToLocal[id]].live = FALSE]
      BY DEF RemoveVector, StoreRemove
    <2>3. store'.slots \in Seq(Slot) /\ DOMAIN store'.slots = DOMAIN store.slots
      BY <1>1, <2>2 DEF Store
    <2>4. QED
      BY <2>1, <2>3
  <1>3. phase = "open" /\ Working /\ Working'
    BY DEF RemoveVector, Working
  <1>4. index' \in Index /\ index'.nodes = index.nodes /\ dir' = dir
    BY IndexRemoveCovers DEF RemoveVector, IInv, MemoryOK
  <1>5. IndexCoversStore'
    BY <1>2, <1>3, <1>4 DEF IInv, IndexCoversStore
  <1>6. QED
    BY <1>1, <1>3, <1>4, <1>5 DEF RemoveVector, IInv, MemoryOK, PhaseOK, HistoryOK

\* remove to its end.
LEMMA RemoveKeeps ==
    ASSUME IInv, NEW id \in Ids, Remove(id) PROVE IInv'
  <1>1. /\ RemoveVector(id) /\ rows' = [rows EXCEPT ![id] = NoMeta] /\ dirty' = TRUE
        /\ halfDone' = FALSE
    BY DEF Remove
  <1>2. Working /\ hasMeta' = hasMeta
    BY <1>1 DEF RemoveVector, Working
  <1>3. /\ rows' \in [Ids -> Metadata]
        /\ ~hasMeta' => \A k \in Ids : rows'[k] = NoMeta
        /\ HistoryOK'
    BY <1>1, <1>2, RemoveVectorKeeps DEF IInv, DiskOK, HistoryOK, HintIsSafe, Metadata
  <1>4. QED
    BY <1>1, <1>3, RemoveVectorKeeps, OpenCallKeeps

\* remove up to the metadata step.
LEMMA RemoveMetadataFailsKeeps ==
    ASSUME IInv, NEW id \in Ids, RemoveMetadataFails(id) PROVE IInv'
  <1>1. /\ RemoveVector(id) /\ UNCHANGED <<rows, dirty>>
        /\ halfDone' \in BOOLEAN
    BY DEF RemoveMetadataFails
  <1>2. Working /\ hasMeta' = hasMeta
    BY <1>1 DEF RemoveVector, Working
  <1>3. /\ rows' \in [Ids -> Metadata] /\ dirty' \in BOOLEAN
        /\ ~hasMeta' => \A k \in Ids : rows'[k] = NoMeta
        /\ HistoryOK'
    BY <1>1, <1>2, RemoveVectorKeeps DEF IInv, DiskOK, MemoryOK, HistoryOK, HintIsSafe
  <1>4. QED
    BY <1>1, <1>3, RemoveVectorKeeps, OpenCallKeeps

\* set_metadata touches a row and the hint.
LEMMA SetMetadataKeeps ==
    ASSUME IInv, NEW id \in Ids, NEW m \in Metadata, SetMetadata(id, m)
    PROVE  IInv'
  <1>1. /\ phase = "open" /\ Working
        /\ rows' = [rows EXCEPT ![id] = m]
        /\ hasMeta' = (hasMeta \/ m # NoMeta)
        /\ UNCHANGED <<phase, caller, store, index, nextId, dirty,
                       dir, vfile, ifile, savedNext, history>>
    BY DEF SetMetadata, Working
  <1>2. /\ rows' \in [Ids -> Metadata]
        /\ hasMeta' \in BOOLEAN
        /\ ~hasMeta' => \A k \in Ids : rows'[k] = NoMeta
    BY <1>1, RowWriteKeepsHint
  <1>3. IndexCoversStore'
    BY <1>1 DEF IInv, IndexCoversStore, Working
  <1>4. /\ store' \in Store /\ StoreConsistent(store') /\ index' \in Index
        /\ nextId' \in Ids /\ dirty' \in BOOLEAN /\ HistoryOK'
    BY <1>1 DEF IInv, MemoryOK, PhaseOK, HistoryOK, history
  <1>5. QED
    BY <1>1, <1>2, <1>3, <1>4, OpenCallKeeps

\* The steps that begin a flush from an open database.
LEMMA StartFlushKeeps ==
    ASSUME IInv, NEW who \in {"flush", "close"}, phase = "open", StartFlush(who),
           UNCHANGED <<disk, nextId, hasMeta>>, HistoryOK',
           store' \in Store, StoreConsistent(store'), index' \in Index,
           Len(index'.nodes) = IF dir = "hnsw" THEN Len(store'.slots) ELSE 0,
           dirty' \in BOOLEAN
    PROVE  IInv'
  <1>1. Working /\ Working' /\ phase' # "config"
    BY DEF Working, StartFlush, Flushing
  <1>2. MemoryOK'
    BY DEF IInv, MemoryOK
  <1>3. DiskOK'
    BY DEF IInv, DiskOK, disk
  <1>4. PhaseOK' /\ Idle'
    BY <1>1 DEF IInv, PhaseOK, Idle, StartFlush, Flushing, disk
  <1>5. IndexCoversStore' /\ HintIsSafe'
    BY <1>1 DEF IInv, IndexCoversStore, HintIsSafe, disk
  <1>6. QED
    BY <1>2, <1>3, <1>4, <1>5 DEF IInv

\* flush begins with what is in memory.
LEMMA FlushKeeps == ASSUME IInv, Flush PROVE IInv'
  <1>1. Working
    BY DEF Flush, Working
  <1>2. Len(index'.nodes) = IF dir = "hnsw" THEN Len(store'.slots) ELSE 0
    BY <1>1 DEF Flush, memory, IInv, IndexCoversStore
  <1>3. QED
    BY <1>2, StartFlushKeeps DEF Flush, memory, history, IInv, MemoryOK, PhaseOK, HistoryOK

\* rebuild_index replaces the graph by one of the same size.
LEMMA RebuildIndexKeeps == ASSUME IInv, RebuildIndex PROVE IInv'
  <1>1. store.slots \in Seq(Slot)
    BY DEF IInv, MemoryOK, Store
  <1>2. /\ index' \in Index
        /\ Len(index'.nodes) = IF dir = "hnsw" THEN Len(store'.slots) ELSE 0
    BY <1>1, BuildIndexCovers DEF RebuildIndex
  <1>3. HistoryOK'
    BY DEF RebuildIndex, IInv, PhaseOK, HistoryOK
  <1>4. QED
    BY <1>2, <1>3, StartFlushKeeps DEF RebuildIndex, IInv, MemoryOK

\* compact replaces store and graph together.
LEMMA CompactKeeps == ASSUME IInv, Compact PROVE IInv'
  <1>1. store.slots \in Seq(Slot) /\ UniqueLiveIds(store.slots)
    BY ConsistentImpliesUnique DEF IInv, MemoryOK, Store
  <1>2. PICK slots \in Compactions(store.slots) :
            store' = StoreOf(slots) /\ index' = BuildIndex(slots)
    BY DEF Compact
  <1>3. slots \in Seq(Slot) /\ UniqueLiveIds(slots)
    BY <1>1, <1>2, CompactionUnique
  <1>4. store' \in Store /\ StoreConsistent(store') /\ store'.slots = slots
    BY <1>2, <1>3, StoreOfConsistent
  <1>5. /\ index' \in Index
        /\ Len(index'.nodes) = IF dir = "hnsw" THEN Len(store'.slots) ELSE 0
    BY <1>2, <1>3, <1>4, BuildIndexCovers
  <1>6. HistoryOK'
    BY DEF Compact, IInv, PhaseOK, HistoryOK
  <1>7. QED
    BY <1>4, <1>5, <1>6, StartFlushKeeps DEF Compact

\* Giving the object up without touching the disk.
LEMMA LeaveKeeps ==
    ASSUME IInv, Forget, UNCHANGED disk PROVE IInv'
  <1>1. DiskOK'
    BY DEF IInv, DiskOK, disk
  <1>2. dir' \notin IndexTypes => \A id \in Ids : rows'[id] = NoMeta
    BY DEF IInv, Idle, disk
  <1>3. QED
    BY <1>1, <1>2, ForgetKeeps

\* The destructor flushes, or forgets at once.
LEMMA CloseKeeps == ASSUME IInv, Close PROVE IInv'
  <1>1. CASE dirty
    <2>1. Working /\ StartFlush("close") /\ UNCHANGED <<memory, disk, history>>
      BY <1>1 DEF Close, Working
    <2>2. Len(index'.nodes) = IF dir = "hnsw" THEN Len(store'.slots) ELSE 0
      BY <2>1 DEF memory, IInv, IndexCoversStore
    <2>3. QED
      BY <2>1, <2>2, StartFlushKeeps
      DEF Close, memory, history, IInv, MemoryOK, PhaseOK, HistoryOK
  <1>2. CASE ~dirty
    BY <1>2, LeaveKeeps DEF Close
  <1>3. QED
    BY <1>1, <1>2

\* The image a flush writes: consistent, so a later open accepts it.
LEMMA ImageOK ==
    ASSUME IInv
    PROVE  LET image == [slots |-> store.slots, liveCount |-> store.liveCount]
           IN  /\ image \in [slots : Seq(Slot), liveCount : Nat]
               /\ image.liveCount = Cardinality(LiveSlots(image.slots))
               /\ UniqueLiveIds(image.slots)
  <1>1. store \in Store /\ StoreConsistent(store)
    BY DEF IInv, MemoryOK
  <1>2. store.slots \in Seq(Slot) /\ store.liveCount \in Nat
    BY <1>1 DEF Store
  <1>3. UniqueLiveIds(store.slots)
    BY <1>1, ConsistentImpliesUnique
  <1>4. QED
    BY <1>1, <1>2, <1>3 DEF StoreConsistent

\* What a step of a flush, or its failure, may do to the files.
FilesWritten ==
    /\ \/ UNCHANGED vfile
       \/ vfile' = [slots |-> store.slots, liveCount |-> store.liveCount]
    /\ \/ UNCHANGED ifile
       \/ ifile' = {index}
    /\ savedNext' \in {savedNext, nextId}
    /\ UNCHANGED <<dir, rows>>

\* Replacing files by images of the memory keeps the disk in order.
LEMMA FilesWrittenKeepsDisk ==
    ASSUME IInv, FilesWritten PROVE DiskOK'
  <1>1. /\ vfile' \in [slots : Seq(Slot), liveCount : Nat]
        /\ vfile'.liveCount = Cardinality(LiveSlots(vfile'.slots))
        /\ UniqueLiveIds(vfile'.slots)
    <2>1. CASE UNCHANGED vfile
      BY <2>1 DEF IInv, DiskOK
    <2>2. CASE vfile' = [slots |-> store.slots, liveCount |-> store.liveCount]
      BY <2>2, ImageOK
    <2>3. QED
      BY <2>1, <2>2 DEF FilesWritten
  <1>2. ifile' \in SUBSET Index
    BY DEF FilesWritten, IInv, DiskOK, MemoryOK
  <1>3. savedNext' \in Ids
    BY DEF FilesWritten, IInv, DiskOK, MemoryOK
  <1>4. QED
    BY <1>1, <1>2, <1>3 DEF FilesWritten, IInv, DiskOK

\* A flush under way goes on, returns to its caller, or gives the object up.
LEMMA FlushStepKeeps ==
    ASSUME IInv, phase \in Flushing, FilesWritten,
           \/ /\ phase' \in Flushing \cup {"open"}
              /\ caller' \in {"none", "create", "flush", "close"}
              /\ UNCHANGED <<store, index, nextId, hasMeta, history>>
              /\ dirty' \in BOOLEAN
           \/ Forget
    PROVE  IInv'
  <1>1. DiskOK'
    BY FilesWrittenKeepsDisk
  <1>2. Working /\ dir \in IndexTypes
    BY DEF Working, IInv, Idle
  <1>3. CASE /\ phase' \in Flushing \cup {"open"}
             /\ caller' \in {"none", "create", "flush", "close"}
             /\ UNCHANGED <<store, index, nextId, hasMeta, history>>
             /\ dirty' \in BOOLEAN
    <2>1. MemoryOK'
      BY <1>3 DEF IInv, MemoryOK
    <2>2. Working' /\ phase' # "config"
      BY <1>3 DEF Working, Flushing
    <2>3. PhaseOK' /\ Idle'
      BY <1>2, <1>3, <2>2 DEF IInv, PhaseOK, HistoryOK, history, Idle, FilesWritten
    <2>4. IndexCoversStore' /\ HintIsSafe'
      BY <1>2, <1>3 DEF IInv, IndexCoversStore, HintIsSafe, FilesWritten
    <2>5. QED
      BY <1>1, <2>1, <2>3, <2>4 DEF IInv
  <1>4. CASE Forget
    BY <1>1, <1>2, <1>4, ForgetKeeps DEF FilesWritten, IInv, PhaseOK
  <1>5. QED
    BY <1>3, <1>4

\* The steps of a flush, and a step of it that throws.
LEMMA FlushActionsKeep ==
    ASSUME IInv, WriteVectors \/ WriteIndex \/ SaveNextId \/ FlushFails
    PROVE  IInv'
  <1>1. dirty \in BOOLEAN /\ caller \in {"none", "create", "flush", "close"}
    BY DEF IInv, MemoryOK, PhaseOK
  <1>2. CASE WriteVectors
    <2>1. phase \in Flushing /\ FilesWritten
      BY <1>2 DEF WriteVectors, Flushing, FilesWritten
    <2>2. QED
      BY <1>1, <1>2, <2>1, FlushStepKeeps DEF WriteVectors, memory, Flushing
  <1>3. CASE WriteIndex
    <2>1. phase \in Flushing /\ FilesWritten
      BY <1>3 DEF WriteIndex, Flushing, FilesWritten
    <2>2. QED
      BY <1>1, <1>3, <2>1, FlushStepKeeps DEF WriteIndex, memory, Flushing
  <1>4. CASE SaveNextId
    <2>1. phase \in Flushing /\ FilesWritten
      BY <1>4 DEF SaveNextId, Flushing, FilesWritten
    <2>2. QED
      BY <1>1, <1>4, <2>1, FlushStepKeeps DEF SaveNextId, EndFlush
  <1>5. CASE FlushFails
    <2>1. phase \in Flushing /\ FilesWritten
      BY <1>5 DEF FlushFails, FilesWritten
    <2>2. QED
      BY <1>1, <1>5, <2>1, FlushStepKeeps
      DEF FlushFails, StartFlush, memory, Flushing
  <1>6. QED
    BY <1>2, <1>3, <1>4, <1>5

-----------------------------------------------------------------------------
\* Every step keeps the inductive invariant.
LEMMA NextKeeps == ASSUME IInv, [Next]_vars PROVE IInv'
  <1>1. CASE Lifecycle
    BY <1>1, CreateKeeps, PersistConfigKeeps, OpenKeeps, CloseKeeps, LeaveKeeps
    DEF Lifecycle, PersistConfigFails, Crash
  <1>2. CASE Writing
    BY <1>2, InsertKeeps, UpsertKeeps, InsertMetadataFailsKeeps,
       UpsertMetadataFailsKeeps DEF Writing
  <1>3. CASE AutoWriting
    BY <1>3, InsertKeeps DEF AutoWriting, InsertAuto, IInv, MemoryOK
  <1>4. CASE Removing
    BY <1>4, RemoveKeeps, RemoveMetadataFailsKeeps, SetMetadataKeeps DEF Removing
  <1>5. CASE Maintenance
    BY <1>5, FlushKeeps, RebuildIndexKeeps, CompactKeeps, FlushActionsKeep
    DEF Maintenance
  <1>6. CASE UNCHANGED vars
    BY <1>6 DEF vars, memory, disk, history, IInv, MemoryOK, DiskOK, PhaseOK, HistoryOK,
                Idle, Working, Flushing, IndexCoversStore, HintIsSafe
  <1>7. QED
    BY <1>1, <1>2, <1>3, <1>4, <1>5, <1>6 DEF Next

\* The inductive invariant.
THEOREM Invariance == Spec => []IInv
  BY InitIInv, NextKeeps, PTL DEF Spec

\* What the inductive invariant is for.
LEMMA IInvImplies ==
    ASSUME IInv
    PROVE  TypeOK /\ StoreAgrees /\ LiveIdsUnique /\ IndexCoversStore /\ HintIsSafe
  <1>1. TypeOK
    BY DEF IInv, MemoryOK, DiskOK, PhaseOK, HistoryOK, TypeOK
  <1>2. StoreAgrees
    BY DEF IInv, MemoryOK, DiskOK, StoreAgrees
  <1>3. UniqueLiveIds(store.slots) /\ UniqueLiveIds(vfile.slots)
    BY ConsistentImpliesUnique DEF IInv, MemoryOK, DiskOK
  <1>4. LiveIdsUnique
    BY <1>3 DEF LiveIdsUnique, UniqueLiveIds
  <1>5. QED
    BY <1>1, <1>2, <1>4 DEF IInv

\* Types: every value the database computes stays in its range, the next
\* automatic id included (it wraps from 2^64 - 1 to 0).
THEOREM TypeCorrectness == Spec => []TypeOK
  BY Invariance, IInvImplies, PTL

\* The id map, the liveness bytes and the live counter agree after every
\* operation and in every vector file, so read_vector_file accepts the file.
THEOREM StoreAgreement == Spec => []StoreAgrees
  BY Invariance, IInvImplies, PTL

\* No id is held by two live slots, in memory or on disk.
THEOREM UniqueIds == Spec => []LiveIdsUnique
  BY Invariance, IInvImplies, PTL

\* The index has a node for every slot, whatever index file an open trusted,
\* so HnswIndex::add never finds a slot out of turn.
THEOREM IndexCoverage == Spec => []IndexCoversStore
  BY Invariance, IInvImplies, PTL

\* has_metadata_ is never false while a row exists.
THEOREM HintSafety == Spec => []HintIsSafe
  BY Invariance, IInvImplies, PTL
=============================================================================
