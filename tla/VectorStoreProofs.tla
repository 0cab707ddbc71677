-------------------------- MODULE VectorStoreProofs --------------------------
(***************************************************************************)
(* Every operation of the vector store keeps the map, the liveness bytes   *)
(* and the live counter in agreement, for any number of ids and slots.     *)
(***************************************************************************)
EXTENDS VectorStore, FiniteSetTheorems, TLAPS

\* No two live slots hold one id.
UniqueLiveIds(slots) ==
    \A i, j \in LiveSlots(slots) : slots[i].id = slots[j].id => i = j

\* The live slots of a list are positions of it.
LEMMA LiveSlotsType ==
    ASSUME NEW slots \in Seq(Slot)
    PROVE  /\ DOMAIN slots = 1 .. Len(slots)
           /\ Len(slots) \in Nat
           /\ \A i \in DOMAIN slots : slots[i] \in Slot /\ slots[i].id \in Ids
           /\ \A i \in LiveSlots(slots) : /\ i \in 1 .. Len(slots)
                                        /\ i \in Nat \ {0}
                                        /\ slots[i] \in Slot
                                        /\ slots[i].id \in Ids
  <1>1. DOMAIN slots = 1 .. Len(slots) /\ Len(slots) \in Nat
    OBVIOUS
  <1>2. \A i \in 1 .. Len(slots) : slots[i] \in Slot
    OBVIOUS
  <1>3. \A i \in LiveSlots(slots) : i \in 1 .. Len(slots)
    BY <1>1 DEF LiveSlots
  <1>4. \A x \in Slot : x.id \in Ids
    BY DEF Slot
  <1>5. QED
    BY <1>1, <1>2, <1>3, <1>4

\* There are finitely many live slots, so live_count_ can count them.
LEMMA LiveSlotsFinite ==
    ASSUME NEW slots \in Seq(Slot)
    PROVE  /\ LiveSlots(slots) \subseteq 1 .. Len(slots)
           /\ IsFiniteSet(LiveSlots(slots))
           /\ Cardinality(LiveSlots(slots)) \in Nat
  <1>1. LiveSlots(slots) \subseteq 1 .. Len(slots)
    BY DEF LiveSlots
  <1>2. IsFiniteSet(1 .. Len(slots))
    BY FS_Interval
  <1>3. QED
    BY <1>1, <1>2, FS_Subset, FS_CardinalityType

\* Changing one field of one slot, as upsert and remove do, leaves a list
\* of slots.
LEMMA SlotExcept ==
    ASSUME NEW slot \in Slot
    PROVE  /\ \A v \in Vecs : /\ [slot EXCEPT !.vec = v] \in Slot
                             /\ [slot EXCEPT !.vec = v].id = slot.id
                             /\ [slot EXCEPT !.vec = v].live = slot.live
           /\ [slot EXCEPT !.live = FALSE] \in Slot
           /\ [slot EXCEPT !.live = FALSE].id = slot.id
           /\ ~[slot EXCEPT !.live = FALSE].live
  BY DEF Slot

\* The agreement of the map with the slots makes the live ids unique.
LEMMA ConsistentImpliesUnique ==
    ASSUME NEW store \in Store, StoreConsistent(store)
    PROVE  UniqueLiveIds(store.slots)
  BY DEF StoreConsistent, UniqueLiveIds

\* A new VectorStore is consistent.
LEMMA EmptyStoreConsistent ==
    /\ EmptyStore \in Store
    /\ StoreConsistent(EmptyStore)
  <1>1. EmptyStore \in Store
    BY DEF EmptyStore, Store
  <1>2. LiveSlots(EmptyStore.slots) = {}
    BY DEF EmptyStore, LiveSlots
  <1>3. QED
    BY <1>1, <1>2, FS_EmptySet DEF EmptyStore, StoreConsistent, Contains

\* VectorStore::insert keeps map, liveness bytes and counter in agreement.
LEMMA InsertConsistent ==
    ASSUME NEW store \in Store, StoreConsistent(store),
           NEW id \in Ids, NEW v \in Vecs, ~Contains(store, id)
    PROVE  /\ StoreInsert(store, id, v) \in Store
           /\ StoreConsistent(StoreInsert(store, id, v))
  <1> DEFINE slot == [id |-> id, vec |-> v, live |-> TRUE]
             old  == store.slots
             new  == Append(old, slot)
             last == Len(old) + 1
             s    == StoreInsert(store, id, v)
  <1>1. old \in Seq(Slot) /\ slot \in Slot /\ new \in Seq(Slot)
    BY DEF Store, Slot
  <1>2. /\ s \in Store
        /\ s.slots = new
        /\ s.idToLocal = [store.idToLocal EXCEPT ![id] = last]
        /\ s.liveCount = store.liveCount + 1
        /\ store.idToLocal \in [Ids -> Nat]
    BY <1>1 DEF Store, StoreInsert
  <1>3. /\ Len(new) = last
        /\ new[last] = slot
        /\ \A i \in 1 .. Len(old) : new[i] = old[i]
        /\ slot.id = id /\ slot.live
        /\ old = store.slots /\ last = Len(old) + 1
        /\ StoreInsert(store, id, v) = s
    BY <1>1
  <1> HIDE DEF slot, old, new, last, s
  <1>4. LiveSlots(new) = LiveSlots(old) \cup {last}
    BY <1>1, <1>3 DEF LiveSlots
  <1>5. last \notin LiveSlots(old)
    BY <1>1, <1>3, LiveSlotsType
  <1>6. Cardinality(LiveSlots(new)) = Cardinality(LiveSlots(old)) + 1
    BY <1>1, <1>4, <1>5, LiveSlotsFinite, FS_AddElement
  <1>7. ASSUME NEW k \in Ids, Contains(s, k)
        PROVE  /\ s.idToLocal[k] \in LiveSlots(new)
               /\ new[s.idToLocal[k]].id = k
    <2>1. CASE k = id
      <3>1. s.idToLocal[k] = last
        BY <1>2, <2>1
      <3>2. QED
        BY <1>3, <1>4, <2>1, <3>1
    <2>2. CASE k # id
      <3>1. s.idToLocal[k] = store.idToLocal[k] /\ Contains(store, k)
        BY <1>2, <1>7, <2>2 DEF Contains
      <3>2. store.idToLocal[k] \in LiveSlots(old) /\ old[store.idToLocal[k]].id = k
        BY <1>3, <3>1 DEF StoreConsistent
      <3>3. QED
        BY <1>1, <1>3, <1>4, <3>1, <3>2 DEF LiveSlots
    <2>3. QED
      BY <2>1, <2>2
  <1>8. ASSUME NEW i \in LiveSlots(new)
        PROVE  s.idToLocal[new[i].id] = i
    <2>1. CASE i = last
      BY <1>2, <1>3, <2>1
    <2>2. CASE i # last
      <3>1. i \in LiveSlots(old) /\ LiveSlots(old) \subseteq 1 .. Len(old)
        BY <1>1, <1>4, <2>2, LiveSlotsFinite
      <3>2. i \in LiveSlots(old) /\ new[i] = old[i] /\ i # 0
        BY <1>1, <1>3, <3>1
      <3>3. store.idToLocal[old[i].id] = i /\ old[i].id \in Ids
        BY <1>1, <1>3, <3>2, LiveSlotsType DEF StoreConsistent
      <3>4. old[i].id # id
        BY <3>2, <3>3 DEF Contains
      <3>5. QED
        BY <1>2, <3>2, <3>3, <3>4
    <2>3. QED
      BY <2>1, <2>2
  <1>9. s.liveCount = Cardinality(LiveSlots(new))
    BY <1>2, <1>3, <1>6 DEF StoreConsistent
  <1>10. StoreConsistent(s)
    BY <1>2, <1>7, <1>8, <1>9 DEF StoreConsistent
  <1>11. QED
    BY <1>2, <1>3, <1>10

\* So does the replacement of a vector in its slot.
LEMMA UpsertConsistent ==
    ASSUME NEW store \in Store, StoreConsistent(store),
           NEW id \in Ids, NEW v \in Vecs, Contains(store, id)
    PROVE  /\ StoreUpsert(store, id, v) \in Store
           /\ StoreConsistent(StoreUpsert(store, id, v))
  <1> DEFINE at  == store.idToLocal[id]
             old == store.slots
             new == [old EXCEPT ![at].vec = v]
             s   == StoreUpsert(store, id, v)
  <1>1. old \in Seq(Slot) /\ at \in 1 .. Len(old)
    BY LiveSlotsFinite DEF Store, StoreConsistent
  <1>2. /\ new \in Seq(Slot)
        /\ DOMAIN new = DOMAIN old
        /\ \A i \in DOMAIN old : new[i].id = old[i].id /\ new[i].live = old[i].live
    <2>slot. old[at] \in Slot
      BY <1>1
    <2>1. [old[at] EXCEPT !.vec = v] \in Slot
      BY <2>slot, SlotExcept
    <2>2. new \in Seq(Slot) /\ DOMAIN new = DOMAIN old
      BY <1>1, <2>1
    <2>3. /\ \A i \in DOMAIN old : i # at => new[i] = old[i]
          /\ new[at] = [old[at] EXCEPT !.vec = v]
      BY <1>1
    <2>5. new[at].id = old[at].id /\ new[at].live = old[at].live
      BY <2>slot, <2>3, SlotExcept
    <2>6. QED
      BY <2>2, <2>3, <2>5
  <1>3. /\ s.slots = new
        /\ s.idToLocal = store.idToLocal
        /\ s.liveCount = store.liveCount
        /\ s \in Store
        /\ StoreUpsert(store, id, v) = s
        /\ old = store.slots
    BY <1>2 DEF StoreUpsert, Store
  <1> HIDE DEF at, old, new, s
  <1>4. LiveSlots(new) = LiveSlots(old)
    BY <1>2 DEF LiveSlots
  <1>5. \A i \in LiveSlots(old) : i \in DOMAIN old
    BY DEF LiveSlots
  <1>6. QED
    BY <1>2, <1>3, <1>4, <1>5 DEF StoreConsistent, Contains

\* So does VectorStore::remove, which forgets the id and leaves a tombstone.
LEMMA RemoveConsistent ==
    ASSUME NEW store \in Store, StoreConsistent(store),
           NEW id \in Ids, Contains(store, id)
    PROVE  /\ StoreRemove(store, id) \in Store
           /\ StoreConsistent(StoreRemove(store, id))
  <1> DEFINE at  == store.idToLocal[id]
             old == store.slots
             new == [old EXCEPT ![at].live = FALSE]
             s   == StoreRemove(store, id)
  <1>1. /\ old \in Seq(Slot)
        /\ at \in LiveSlots(old)
        /\ at \in 1 .. Len(old)
        /\ old[at].id = id
    BY LiveSlotsFinite DEF Store, StoreConsistent
  <1>2. /\ new \in Seq(Slot)
        /\ DOMAIN new = DOMAIN old
        /\ \A i \in DOMAIN old : i # at => new[i] = old[i]
        /\ ~new[at].live
    <2>slot. old[at] \in Slot
      BY <1>1
    <2>1. [old[at] EXCEPT !.live = FALSE] \in Slot
      BY <2>slot, SlotExcept
    <2>2. new \in Seq(Slot) /\ DOMAIN new = DOMAIN old
      BY <1>1, <2>1
    <2>3. /\ \A i \in DOMAIN old : i # at => new[i] = old[i]
          /\ new[at] = [old[at] EXCEPT !.live = FALSE]
      BY <1>1
    <2>4. QED
      BY <2>slot, <2>2, <2>3, SlotExcept
  <1>3. /\ s.slots = new
        /\ s.idToLocal = [store.idToLocal EXCEPT ![id] = 0]
        /\ s.liveCount = store.liveCount - 1
        /\ s = [slots |-> new, idToLocal |-> s.idToLocal, liveCount |-> s.liveCount]
        /\ StoreRemove(store, id) = s
        /\ old = store.slots
        /\ store.idToLocal \in [Ids -> Nat]
        /\ store.idToLocal[id] = at
    BY DEF StoreRemove, Store
  <1> HIDE DEF at, old, new, s
  <1>4. LiveSlots(new) = LiveSlots(old) \ {at}
    BY <1>2 DEF LiveSlots
  <1>5. /\ Cardinality(LiveSlots(new)) = store.liveCount - 1
        /\ Cardinality(LiveSlots(new)) \in Nat
    <2>1. store.liveCount = Cardinality(LiveSlots(old))
      BY <1>3 DEF StoreConsistent
    <2>2. IsFiniteSet(LiveSlots(old))
      BY <1>1, LiveSlotsFinite
    <2>3. Cardinality(LiveSlots(old) \ {at}) = Cardinality(LiveSlots(old)) - 1
      BY <1>1, <2>2, FS_RemoveElement
    <2>4. Cardinality(LiveSlots(new)) \in Nat
      BY <1>2, LiveSlotsFinite
    <2>5. QED
      BY <1>4, <2>1, <2>3, <2>4
  <1>6. s \in Store
    <2>1. s.idToLocal \in [Ids -> Nat] /\ s.liveCount \in Nat
      BY <1>3, <1>5
    <2>2. QED
      BY <1>2, <1>3, <2>1 DEF Store
  <1>7. ASSUME NEW k \in Ids, Contains(s, k)
        PROVE  /\ s.idToLocal[k] \in LiveSlots(new)
               /\ new[s.idToLocal[k]].id = k
    <2>1. k # id /\ s.idToLocal[k] = store.idToLocal[k] /\ Contains(store, k)
      BY <1>3, <1>7 DEF Contains
    <2>2. /\ store.idToLocal[k] \in LiveSlots(old)
          /\ old[store.idToLocal[k]].id = k
      BY <1>3, <2>1 DEF StoreConsistent
    <2>3. store.idToLocal[k] # at
      BY <1>1, <2>1, <2>2
    <2>4. QED
      BY <1>2, <1>4, <2>1, <2>2, <2>3 DEF LiveSlots
  <1>8. ASSUME NEW i \in LiveSlots(new)
        PROVE  s.idToLocal[new[i].id] = i
    <2>1. i \in LiveSlots(old) /\ i # at /\ new[i] = old[i]
      BY <1>2, <1>4 DEF LiveSlots
    <2>2. store.idToLocal[old[i].id] = i /\ old[i].id \in Ids
      BY <1>1, <1>3, <2>1, LiveSlotsType DEF StoreConsistent
    <2>3. old[i].id # id
      BY <1>3, <2>1, <2>2
    <2>4. QED
      BY <1>3, <2>1, <2>2, <2>3
  <1>9. QED
    BY <1>3, <1>5, <1>6, <1>7, <1>8 DEF StoreConsistent

\* A store loaded from a file whose live ids are unique is consistent.
LEMMA StoreOfConsistent ==
    ASSUME NEW slots \in Seq(Slot), UniqueLiveIds(slots)
    PROVE  /\ StoreOf(slots) \in Store
           /\ StoreConsistent(StoreOf(slots))
           /\ StoreOf(slots).slots = slots
  <1> DEFINE s == StoreOf(slots)
             Holder(id) == CHOOSE i \in LiveSlots(slots) :
                               /\ slots[i].id = id
                               /\ \A j \in LiveSlots(slots) :
                                      slots[j].id = id => i <= j
  <1>1. /\ LiveSlots(slots) \subseteq 1 .. Len(slots)
        /\ Cardinality(LiveSlots(slots)) \in Nat
        /\ \A i \in LiveSlots(slots) : slots[i].id \in Ids
    BY LiveSlotsFinite, LiveSlotsType
  <1>2. ASSUME NEW i \in LiveSlots(slots)
        PROVE  Holder(slots[i].id) = i
    <2>1. \A j \in LiveSlots(slots) : slots[j].id = slots[i].id => i = j /\ i <= j
      BY <1>1 DEF UniqueLiveIds
    <2>2. QED
      BY <2>1
  <1>3. /\ s.slots = slots
        /\ s.idToLocal = [id \in Ids |-> IF id \in LiveIds(slots) THEN Holder(id) ELSE 0]
        /\ s.liveCount = Cardinality(LiveSlots(slots))
    BY DEF StoreOf
  <1>4. StoreOf(slots) = s
    OBVIOUS
  <1> HIDE DEF s, Holder
  <1>5. \A i \in LiveSlots(slots) : s.idToLocal[slots[i].id] = i
    <2>1. \A i \in LiveSlots(slots) : slots[i].id \in LiveIds(slots)
      BY DEF LiveIds
    <2>2. QED
      BY <1>1, <1>2, <1>3, <2>1
  <1>6. ASSUME NEW id \in Ids, Contains(s, id)
        PROVE  s.idToLocal[id] \in LiveSlots(slots) /\ slots[s.idToLocal[id]].id = id
    <2>1. id \in LiveIds(slots)
      BY <1>3, <1>6 DEF Contains
    <2>2. PICK i \in LiveSlots(slots) : slots[i].id = id
      BY <2>1 DEF LiveIds
    <2>3. QED
      BY <1>5, <2>2
  <1>7. s.idToLocal \in [Ids -> Nat]
    <2>1. ASSUME NEW id \in Ids PROVE s.idToLocal[id] \in Nat
      <3>1. s.idToLocal[id] = 0 \/ s.idToLocal[id] \in LiveSlots(slots)
        BY <1>6 DEF Contains
      <3>2. QED
        BY <1>1, <3>1
    <2>2. QED
      BY <1>3, <2>1
  <1>8. s \in Store
    <2>1. s = [slots |-> slots, idToLocal |-> s.idToLocal, liveCount |-> s.liveCount]
      BY <1>4 DEF StoreOf
    <2>2. QED
      BY <1>1, <1>3, <1>7, <2>1 DEF Store
  <1>9. QED
    BY <1>3, <1>4, <1>5, <1>6, <1>8 DEF StoreConsistent

\* A compaction is a list of slots whose live ids are again unique.
LEMMA CompactionUnique ==
    ASSUME NEW slots \in Seq(Slot), UniqueLiveIds(slots),
           NEW compacted \in Compactions(slots)
    PROVE  /\ compacted \in Seq(Slot)
           /\ UniqueLiveIds(compacted)
  <1> DEFINE n == Cardinality(LiveSlots(slots))
  <1>1. n \in Nat /\ LiveSlots(slots) \subseteq 1 .. Len(slots)
    BY LiveSlotsFinite
  <1>2. PICK order \in [1 .. n -> LiveSlots(slots)] :
            /\ \A i, j \in DOMAIN order : i < j => order[i] < order[j]
            /\ compacted = [i \in DOMAIN order |-> slots[order[i]]]
    BY DEF Compactions
  <1>3. compacted = [i \in 1 .. n |-> slots[order[i]]]
    BY <1>2
  <1> HIDE DEF n
  <1>4. \A i \in 1 .. n : order[i] \in LiveSlots(slots) /\ slots[order[i]] \in Slot
    BY <1>1, <1>2
  <1>5. compacted \in Seq(Slot)
    BY <1>1, <1>3, <1>4
  <1>6. ASSUME NEW i \in 1 .. n, NEW j \in 1 .. n, compacted[i].id = compacted[j].id
        PROVE  i = j
    <2>1. order[i] = order[j]
      BY <1>3, <1>4, <1>6 DEF UniqueLiveIds
    <2>2. /\ i < j => order[i] < order[j]
          /\ j < i => order[j] < order[i]
          /\ order[i] \in Int /\ order[j] \in Int
      BY <1>1, <1>2, <1>4
    <2>3. QED
      BY <1>1, <2>1, <2>2
  <1>7. LiveSlots(compacted) \subseteq 1 .. n
    BY <1>3 DEF LiveSlots
  <1>8. QED
    BY <1>5, <1>6, <1>7 DEF UniqueLiveIds

-----------------------------------------------------------------------------
(***************************************************************************)
(* What a reader sees.  A lookup by id finds one slot, so the operations   *)
(* on slots are operations on the map from ids to vectors.                 *)
(***************************************************************************)
LEMMA ContentsAt ==
    ASSUME NEW slots \in Seq(Slot), UniqueLiveIds(slots)
    PROVE  /\ Contents(slots) = [id \in LiveIds(slots) |-> Contents(slots)[id]]
           /\ DOMAIN Contents(slots) = LiveIds(slots)
           /\ \A i \in LiveSlots(slots) :
                  /\ slots[i].id \in LiveIds(slots)
                  /\ Contents(slots)[slots[i].id] = slots[i].vec
           /\ \A id \in LiveIds(slots) : \E i \in LiveSlots(slots) : slots[i].id = id
  <1> DEFINE Holder(id) == CHOOSE i \in LiveSlots(slots) : slots[i].id = id
  <1>1. \A i \in LiveSlots(slots) : Holder(slots[i].id) = i
    BY DEF UniqueLiveIds
  <1>2. Contents(slots) = [id \in LiveIds(slots) |-> slots[Holder(id)].vec]
    BY DEF Contents
  <1> HIDE DEF Holder
  <1>3. \A i \in LiveSlots(slots) : slots[i].id \in LiveIds(slots)
    BY DEF LiveIds
  <1>4. \A id \in LiveIds(slots) : \E i \in LiveSlots(slots) : slots[i].id = id
    BY DEF LiveIds
  <1>5. QED
    BY <1>1, <1>2, <1>3, <1>4

\* An insert adds its id.
LEMMA InsertContents ==
    ASSUME NEW store \in Store, StoreConsistent(store),
           NEW id \in Ids, NEW v \in Vecs, ~Contains(store, id)
    PROVE  LET old == Contents(store.slots)
               new == Contents(StoreInsert(store, id, v).slots)
           IN  /\ id \notin DOMAIN old
               /\ new = [k \in DOMAIN old \cup {id} |-> IF k = id THEN v ELSE old[k]]
  <1> DEFINE slot == [id |-> id, vec |-> v, live |-> TRUE]
             old  == store.slots
             new  == Append(old, slot)
             last == Len(old) + 1
  <1>1. old \in Seq(Slot) /\ slot \in Slot /\ new \in Seq(Slot)
    BY DEF Store, Slot
  <1>2. /\ UniqueLiveIds(old)
        /\ StoreInsert(store, id, v).slots = new
        /\ UniqueLiveIds(new)
    <2>1. StoreInsert(store, id, v).slots = new
      BY DEF StoreInsert
    <2>2. QED
      BY <2>1, InsertConsistent, ConsistentImpliesUnique
  <1>3. /\ Len(new) = last
        /\ new[last] = slot
        /\ \A i \in 1 .. Len(old) : new[i] = old[i]
        /\ slot.id = id /\ slot.live /\ slot.vec = v
        /\ DOMAIN old = 1 .. Len(old) /\ DOMAIN new = 1 .. last
        /\ Len(old) \in Nat
    BY <1>1
  <1>4. \A i \in LiveSlots(old) : old[i].id # id
    BY <1>1, LiveSlotsType DEF StoreConsistent, Contains
  <1> HIDE DEF slot, new, last
  <1>5. LiveSlots(new) = LiveSlots(old) \cup {last}
    BY <1>1, <1>3 DEF LiveSlots, last
  <1>6. \A i \in LiveSlots(old) : new[i] = old[i]
    BY <1>1, <1>3, LiveSlotsFinite
  <1>7. LiveIds(new) = LiveIds(old) \cup {id} /\ id \notin LiveIds(old)
    BY <1>3, <1>4, <1>5, <1>6 DEF LiveIds
  <1> DEFINE F(k) == IF k = id THEN v ELSE Contents(old)[k]
  <1>8. \A i \in LiveSlots(new) : F(new[i].id) = new[i].vec
    BY <1>1, <1>2, <1>3, <1>4, <1>5, <1>6, ContentsAt
  <1>9. Contents(new) = [k \in LiveIds(old) \cup {id} |-> F(k)]
    <2> HIDE DEF F
    <2>1. \A k \in LiveIds(new) : Contents(new)[k] = F(k)
      BY <1>1, <1>2, <1>8, ContentsAt
    <2>2. QED
      BY <1>1, <1>2, <1>7, <2>1, ContentsAt
  <1>10. QED
    BY <1>1, <1>2, <1>7, <1>9, ContentsAt

\* An upsert of an id that is there replaces its vector.
LEMMA UpsertContents ==
    ASSUME NEW store \in Store, StoreConsistent(store),
           NEW id \in Ids, NEW v \in Vecs, Contains(store, id)
    PROVE  LET old == Contents(store.slots)
               new == Contents(StoreUpsert(store, id, v).slots)
           IN  /\ id \in DOMAIN old
               /\ new = [k \in DOMAIN old \cup {id} |-> IF k = id THEN v ELSE old[k]]
  <1> DEFINE at  == store.idToLocal[id]
             old == store.slots
             new == [old EXCEPT ![at].vec = v]
  <1>1. /\ old \in Seq(Slot)
        /\ at \in LiveSlots(old)
        /\ at \in DOMAIN old
        /\ old[at].id = id
    BY DEF Store, StoreConsistent, LiveSlots
  <1>2. /\ StoreUpsert(store, id, v).slots = new
        /\ UniqueLiveIds(old) /\ new \in Seq(Slot) /\ UniqueLiveIds(new)
    <2>1. StoreUpsert(store, id, v).slots = new
      BY DEF StoreUpsert, Store
    <2> DEFINE s == StoreUpsert(store, id, v)
    <2>2. s \in Store /\ StoreConsistent(s)
      BY UpsertConsistent
    <2> HIDE DEF s
    <2>3. s.slots \in Seq(Slot) /\ UniqueLiveIds(s.slots)
      BY <2>2, ConsistentImpliesUnique DEF Store
    <2>4. QED
      BY <1>1, <2>1, <2>3, ConsistentImpliesUnique DEF s
  <1>3. /\ DOMAIN new = DOMAIN old
        /\ \A i \in DOMAIN old : i # at => new[i] = old[i]
        /\ new[at].id = id /\ new[at].vec = v /\ new[at].live = old[at].live
    <2>1. old[at] \in Slot
      BY <1>1
    <2>2. /\ DOMAIN new = DOMAIN old
          /\ \A i \in DOMAIN old : i # at => new[i] = old[i]
          /\ new[at] = [old[at] EXCEPT !.vec = v]
      BY <1>1
    <2>3. [old[at] EXCEPT !.vec = v].vec = v
      BY <2>1 DEF Slot
    <2>4. QED
      BY <1>1, <2>1, <2>2, <2>3, SlotExcept
  <1> HIDE DEF at, new
  <1>4. LiveSlots(new) = LiveSlots(old)
    BY <1>3 DEF LiveSlots
  <1>5. \A i \in LiveSlots(old) : i \in DOMAIN old /\ (i # at => old[i].id # id)
    BY <1>1, <1>2 DEF UniqueLiveIds, LiveSlots
  <1>6. LiveIds(new) = LiveIds(old) /\ id \in LiveIds(old)
    <2>1. \A i \in LiveSlots(old) : new[i].id = old[i].id
      BY <1>1, <1>3, <1>5
    <2>2. QED
      BY <1>1, <1>4, <2>1 DEF LiveIds
  <1> DEFINE F(k) == IF k = id THEN v ELSE Contents(old)[k]
  <1>7. ASSUME NEW i \in LiveSlots(new) PROVE F(new[i].id) = new[i].vec
    <2>1. CASE i = at
      BY <1>3, <2>1
    <2>2. CASE i # at
      <3>1. new[i] = old[i] /\ old[i].id # id /\ i \in LiveSlots(old)
        BY <1>3, <1>4, <1>5, <2>2
      <3>2. Contents(old)[old[i].id] = old[i].vec
        BY <1>1, <1>2, <3>1, ContentsAt
      <3>3. QED
        BY <3>1, <3>2
    <2>3. QED
      BY <2>1, <2>2
  <1>8. Contents(new) = [k \in LiveIds(old) \cup {id} |-> F(k)]
    <2> HIDE DEF F
    <2>1. \A k \in LiveIds(new) : Contents(new)[k] = F(k)
      BY <1>1, <1>2, <1>7, ContentsAt
    <2>2. LiveIds(new) = LiveIds(old) \cup {id}
      BY <1>6
    <2>3. QED
      BY <1>1, <1>2, <2>1, <2>2, ContentsAt
  <1>9. QED
    BY <1>1, <1>2, <1>6, <1>8, ContentsAt

\* A removal takes its id away.
LEMMA RemoveContents ==
    ASSUME NEW store \in Store, StoreConsistent(store),
           NEW id \in Ids, Contains(store, id)
    PROVE  LET old == Contents(store.slots)
               new == Contents(StoreRemove(store, id).slots)
           IN  /\ id \in DOMAIN old
               /\ new = [k \in DOMAIN old \ {id} |-> old[k]]
  <1> DEFINE at  == store.idToLocal[id]
             old == store.slots
             new == [old EXCEPT ![at].live = FALSE]
  <1>1. /\ old \in Seq(Slot)
        /\ at \in LiveSlots(old)
        /\ at \in DOMAIN old
        /\ old[at].id = id
    BY DEF Store, StoreConsistent, LiveSlots
  <1>2. /\ StoreRemove(store, id).slots = new
        /\ UniqueLiveIds(old) /\ new \in Seq(Slot) /\ UniqueLiveIds(new)
    <2>1. StoreRemove(store, id).slots = new
      BY DEF StoreRemove
    <2>2. QED
      BY <2>1, RemoveConsistent, ConsistentImpliesUnique DEF Store
  <1>3. /\ DOMAIN new = DOMAIN old
        /\ \A i \in DOMAIN old : i # at => new[i] = old[i]
        /\ ~new[at].live
    <2>1. old[at] \in Slot
      BY <1>1
    <2>2. QED
      BY <1>1, <2>1, SlotExcept
  <1> HIDE DEF at, new
  <1>4. LiveSlots(new) = LiveSlots(old) \ {at}
    BY <1>1, <1>3 DEF LiveSlots
  <1>5. \A i \in LiveSlots(old) : i \in DOMAIN old /\ (i # at => old[i].id # id)
    BY <1>1, <1>2 DEF UniqueLiveIds, LiveSlots
  <1>6. LiveIds(new) = LiveIds(old) \ {id} /\ id \in LiveIds(old)
    <2>1. \A i \in LiveSlots(new) : i \in LiveSlots(old) /\ i # at /\ new[i] = old[i]
      BY <1>3, <1>4, <1>5
    <2>2. ASSUME NEW k \in LiveIds(old), k # id PROVE k \in LiveIds(new)
      <3>1. PICK i \in LiveSlots(old) : old[i].id = k
        BY <1>1, <1>2, ContentsAt
      <3>2. i # at /\ i \in LiveSlots(new)
        BY <1>1, <1>4, <2>2, <3>1
      <3>3. QED
        BY <2>1, <3>1, <3>2 DEF LiveIds
    <2>3. ASSUME NEW k \in LiveIds(new) PROVE k \in LiveIds(old) /\ k # id
      <3>1. PICK i \in LiveSlots(new) : new[i].id = k
        BY <1>2, ContentsAt
      <3>2. QED
        BY <1>5, <2>1, <3>1 DEF LiveIds
    <2>4. id \in LiveIds(old)
      BY <1>1 DEF LiveIds
    <2>5. QED
      BY <2>2, <2>3, <2>4
  <1>7. \A i \in LiveSlots(new) : Contents(old)[new[i].id] = new[i].vec
    BY <1>1, <1>2, <1>3, <1>4, <1>5, ContentsAt
  <1>8. Contents(new) = [k \in LiveIds(old) \ {id} |-> Contents(old)[k]]
    <2>1. \A k \in LiveIds(new) : Contents(new)[k] = Contents(old)[k]
      BY <1>1, <1>2, <1>7, ContentsAt
    <2>2. QED
      BY <1>1, <1>2, <1>6, <2>1, ContentsAt
  <1>9. QED
    BY <1>1, <1>2, <1>6, <1>8, ContentsAt

\* A compaction changes nothing a reader sees.
LEMMA CompactionContents ==
    ASSUME NEW slots \in Seq(Slot), UniqueLiveIds(slots),
           NEW compacted \in Compactions(slots)
    PROVE  Contents(compacted) = Contents(slots)
  <1> DEFINE n == Cardinality(LiveSlots(slots))
  <1>1. /\ n \in Nat
        /\ compacted \in Seq(Slot) /\ UniqueLiveIds(compacted)
    BY LiveSlotsFinite, CompactionUnique
  <1>2. PICK order \in [1 .. n -> LiveSlots(slots)] :
            /\ \A s \in LiveSlots(slots) : \E i \in DOMAIN order : order[i] = s
            /\ compacted = [i \in DOMAIN order |-> slots[order[i]]]
    BY DEF Compactions
  <1> HIDE DEF n
  <1>3. \A i \in LiveSlots(compacted) :
            order[i] \in LiveSlots(slots) /\ compacted[i] = slots[order[i]]
    BY <1>2 DEF LiveSlots
  <1>4. \A s \in LiveSlots(slots) : \E i \in LiveSlots(compacted) : order[i] = s
    BY <1>2 DEF LiveSlots
  <1>5. LiveIds(compacted) = LiveIds(slots)
    BY <1>3, <1>4 DEF LiveIds
  <1>6. \A i \in LiveSlots(compacted) : Contents(slots)[compacted[i].id] = compacted[i].vec
    BY <1>3, ContentsAt
  <1>7. \A k \in LiveIds(slots) : Contents(compacted)[k] = Contents(slots)[k]
    BY <1>1, <1>5, <1>6, ContentsAt
  <1>8. QED
    BY <1>1, <1>5, <1>7, ContentsAt

\* A store without slots has nothing to show.
LEMMA EmptyContents == Contents(<<>>) = [id \in {} |-> {}]
  <1>1. LiveIds(<<>>) = {}
    BY DEF LiveIds, LiveSlots
  <1>2. QED
    BY <1>1 DEF Contents
=============================================================================
