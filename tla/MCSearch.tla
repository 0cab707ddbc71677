------------------------------ MODULE MCSearch -------------------------------
EXTENDS ConcurrentDatabase, Kernels

Tag(n) == {[key |-> "k", value |-> [type |-> "int", n |-> n]]}

Tagged == {[key |-> "k", op |-> "==", value |-> [type |-> "real", n |-> 1]]}

Query(vec, k, filter, exact) ==
    [kind |-> "search", vec |-> vec, k |-> k, filter |-> filter, exact |-> exact,
     include |-> TRUE]

Insert(id, vec, meta) == [op |-> "insert", id |-> id, vec |-> vec, meta |-> meta]

Remove(id) == [op |-> "remove", id |-> id, meta |-> {}]

Auto(vec) == [Insert(0, vec, {}) EXCEPT !.op = "auto"]

Body(ops) == [kind |-> "write", body |-> ops]

Replace ==
    Body(<<Remove(0), Insert(0, 1, Tag(1)), [op |-> "compact", meta |-> {}],
           Auto(0), [op |-> "flush", meta |-> {}]>>)

Add == Body(<<Insert(2, 1, Tag(1))>>)

\* Two writes beside a batch of exact searches, or beside a get, a search of
\* the graph and one whose oversampled k does not fit a size_t.
Work ==
    {{Add, Replace, Query(0, 2, {}, TRUE), Query(0, 1, Tagged, TRUE)},
     {Add, Replace, [kind |-> "get", id |-> 0],
      Query(1, 1, Tagged, FALSE), Query(1, 2, Tagged, FALSE)}}

\* A new database, and one with ties and a tombstone.
Stores ==
    {<<>>,
     <<[id |-> 0, vec |-> 0, live |-> TRUE], [id |-> 1, vec |-> 1, live |-> FALSE],
       [id |-> 1, vec |-> 0, live |-> TRUE]>>}

\* Of every kernel and every dimension up to MaxCount.
ASSUME KernelsAreSound == ActiveKernelIsSound
=============================================================================
