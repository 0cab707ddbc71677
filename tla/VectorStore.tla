----------------------------- MODULE VectorStore -----------------------------
(***************************************************************************)
(* The in-memory vector store: parallel per-slot arrays, a hash map from   *)
(* the caller's id to the slot that holds it, and a live counter kept      *)
(* beside both.  A slot is named by its position, counted from 1 (the code *)
(* counts LocalIds from 0).  Deleting a vector leaves a tombstone, so a    *)
(* slot never moves until a compaction.                                    *)
(*                                                                         *)
(* A store is a value here, and an operation maps a store to a store; the  *)
(* modules that own a store turn the operations into actions.              *)
(***************************************************************************)
EXTENDS Naturals, Sequences, FiniteSets

CONSTANTS
    MaxId,      \* the largest VectorId, 2^64 - 1 in the code
    Vecs,       \* the vectors that pass validate_vector
    MaxSlots    \* kMaxVectorCount

ASSUME StoreAssumption ==
    /\ MaxId \in Nat
    /\ MaxSlots \in Nat
    /\ Vecs # {}

Ids == 0 .. MaxId

Slot == [id : Ids, vec : Vecs, live : BOOLEAN]

\* idToLocal sends an id that no slot holds to 0.
Store == [slots     : Seq(Slot),
          idToLocal : [Ids -> Nat],
          liveCount : Nat]

LiveSlots(slots) == {i \in DOMAIN slots : slots[i].live}

LiveIds(slots) == {slots[i].id : i \in LiveSlots(slots)}

EmptyStore == [slots |-> <<>>, idToLocal |-> [id \in Ids |-> 0], liveCount |-> 0]

Contains(store, id) == store.idToLocal[id] # 0

TombstoneCount(store) == Len(store.slots) - store.liveCount

\* Mutant: the id is not looked up.
CanInsertUnchecked(store, id) == Len(store.slots) < MaxSlots

\* An insert is refused for an id in use and for a full slot space; the
\* vectors a validation refuses are left out of Vecs.
CanInsert(store, id) ==
    /\ ~Contains(store, id)
    /\ Len(store.slots) < MaxSlots

StoreInsert(store, id, v) ==
    [slots     |-> Append(store.slots, [id |-> id, vec |-> v, live |-> TRUE]),
     idToLocal |-> [store.idToLocal EXCEPT ![id] = Len(store.slots) + 1],
     liveCount |-> store.liveCount + 1]

StoreUpsert(store, id, v) ==
    [store EXCEPT !.slots = [@ EXCEPT ![store.idToLocal[id]].vec = v]]

\* Mutant: the live counter is forgotten.
StoreRemoveKeepsCount(store, id) ==
    [slots     |-> [store.slots EXCEPT ![store.idToLocal[id]].live = FALSE],
     idToLocal |-> [store.idToLocal EXCEPT ![id] = 0],
     liveCount |-> store.liveCount]

StoreRemove(store, id) ==
    [slots     |-> [store.slots EXCEPT ![store.idToLocal[id]].live = FALSE],
     idToLocal |-> [store.idToLocal EXCEPT ![id] = 0],
     liveCount |-> store.liveCount - 1]

\* The store that append_trusted builds from a list of slots.  Of two live
\* slots with one id the map keeps the first (emplace does not overwrite).
StoreOf(slots) ==
    [slots     |-> slots,
     idToLocal |-> [id \in Ids |->
                        IF id \in LiveIds(slots)
                        THEN CHOOSE i \in LiveSlots(slots) :
                                 /\ slots[i].id = id
                                 /\ \A j \in LiveSlots(slots) :
                                        slots[j].id = id => i <= j
                        ELSE 0],
     liveCount |-> Cardinality(LiveSlots(slots))]

\* What compaction makes of a list of slots: the live ones, in slot order
\* (a set with one member; a set because no order need be computed).
Compactions(slots) ==
    {[i \in DOMAIN order |-> slots[order[i]]] :
        order \in {o \in [1 .. Cardinality(LiveSlots(slots)) -> LiveSlots(slots)] :
                      /\ \A i, j \in DOMAIN o : i < j => o[i] < o[j]
                      /\ \A s \in LiveSlots(slots) : \E i \in DOMAIN o : o[i] = s}}

\* What a reader of the store sees: the vector of every live id.
Contents(slots) ==
    [id \in LiveIds(slots) |->
        slots[CHOOSE i \in LiveSlots(slots) : slots[i].id = id].vec]

\* The three redundant parts agree: the map sends the ids of the live slots,
\* and no others, to their slots, and the counter counts the live slots.
StoreConsistent(store) ==
    /\ \A id \in Ids :
           Contains(store, id) =>
               /\ store.idToLocal[id] \in LiveSlots(store.slots)
               /\ store.slots[store.idToLocal[id]].id = id
    /\ \A i \in LiveSlots(store.slots) :
           store.idToLocal[store.slots[i].id] = i
    /\ store.liveCount = Cardinality(LiveSlots(store.slots))
=============================================================================
