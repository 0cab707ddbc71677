------------------------------- MODULE Search --------------------------------
(***************************************************************************)
(* What a search computes: the bounded collector of the k best candidates, *)
(* the merge of several such lists, metadata filters, and the selection of *)
(* results from candidates.  A rank key is an integer, smaller is better.  *)
(***************************************************************************)
EXTENDS Integers, Sequences, FiniteSets

CONSTANTS
    Metric,     \* "l2", "cosine" or "ip"
    SizeMax,    \* the largest size_t
    Oversample, \* kDefaultFilterOversample
    NaN         \* the number of a metadata value that is not a number

(***************************************************************************)
(* Rank keys and scores, of vectors with one integer component: the kernel *)
(* sums over the components, which module Kernels is about.                *)
(***************************************************************************)
Abs(n) == IF n < 0 THEN -n ELSE n

\* A zero vector has no direction and a similarity of 0.
CosineRankKey(dot, norms) == IF norms <= 0 THEN 1 ELSE 1 - dot \div norms

RankKey(q, v) ==
    CASE Metric = "l2"     -> (q - v) * (q - v)
      [] Metric = "ip"     -> -(q * v)
      [] Metric = "cosine" -> CosineRankKey(q * v, Abs(q) * Abs(v))

Score(key) ==
    CASE Metric = "l2"     -> key
      [] Metric = "ip"     -> -key
      [] Metric = "cosine" -> 1 - key

(***************************************************************************)
(* The collector of the k best candidates, and the merge of several lists  *)
(***************************************************************************)
\* Candidates: a slot and its rank key.  Ties go to the lower slot.
Better(a, b) == a.key < b.key \/ (a.key = b.key /\ a.slot < b.slot)

\* The heap, as the set of candidates kept; its root is the worst of them.
Worst(kept) == CHOOSE c \in kept : \A o \in kept \ {c} : Better(o, c)

\* Mutant: ties are refused.
WouldAcceptStrictly(k, kept, key) ==
    Cardinality(kept) < k \/ key < Worst(kept).key

WouldAccept(k, kept, key) ==
    Cardinality(kept) < k \/ key <= Worst(kept).key

\* Mutant: the worst is not taken out.
OfferGrows(k, kept, c) ==
    IF Cardinality(kept) < k \/ Better(c, Worst(kept)) THEN kept \cup {c} ELSE kept

Offer(k, kept, c) ==
    CASE Cardinality(kept) < k    -> kept \cup {c}
      [] Cardinality(kept) >= k   ->
             IF Better(c, Worst(kept)) THEN (kept \ {Worst(kept)}) \cup {c} ELSE kept

\* take_sorted: best first.
TakeSorted(kept) ==
    [i \in 1 .. Cardinality(kept) |->
        CHOOSE c \in kept : Cardinality({o \in kept : Better(o, c)}) = i - 1]

\* search_range, over slots that have candidates and others up to the last one.
SearchRange(k, cands, last) ==
    LET after[n \in 0 .. last] ==
            IF n = 0 THEN {}
            ELSE IF n \in DOMAIN cands THEN Offer(k, after[n - 1], cands[n])
                 ELSE after[n - 1]
    IN  after[last]

\* A list offered from its front, and left at the first candidate that would
\* not be accepted.
OfferSorted(k, kept, list) ==
    LET after[n \in 0 .. Len(list)] ==
            IF n = 0 THEN [kept |-> kept, left |-> FALSE]
            ELSE IF after[n - 1].left \/ ~WouldAccept(k, after[n - 1].kept, list[n].key)
                 THEN [after[n - 1] EXCEPT !.left = TRUE]
                 ELSE [after[n - 1] EXCEPT !.kept = Offer(k, @, list[n])]
    IN  after[Len(list)].kept

MergeTopK(k, first, second) ==
    LET total == Len(first) + Len(second)
        bound == IF k < total THEN k ELSE total
    IN  IF total = 0 THEN <<>>
        ELSE TakeSorted(OfferSorted(bound, OfferSorted(bound, {}, first), second))

(***************************************************************************)
(* Metadata values, conditions and filters                                 *)
(***************************************************************************)
Numeric(v) == v.type \in {"int", "real"}

\* -1, 0 or 1, or none for values that cannot be compared.  A NaN is neither
\* smaller nor greater, and so compares equal.
CompareValues(stored, wanted) ==
    CASE Numeric(stored) /\ Numeric(wanted) ->
             IF NaN \in {stored.n, wanted.n} \/ stored.n = wanted.n THEN {0}
             ELSE IF stored.n < wanted.n THEN {-1} ELSE {1}
      [] stored.type = "text" /\ wanted.type = "text" ->
             IF stored.n = wanted.n THEN {0} ELSE IF stored.n < wanted.n THEN {-1} ELSE {1}
      [] stored.type = "null" /\ wanted.type = "null" -> {0}
      [] OTHER -> {}

Orders(op) ==
    CASE op = "==" -> {0}      [] op = "!=" -> {-1, 1}
      [] op = "<"  -> {-1}     [] op = "<=" -> {-1, 0}
      [] op = ">"  -> {1}      [] op = ">=" -> {0, 1}

\* A metadata is a set of entries, a filter a set of conditions; a missing
\* key and an incomparable value never match.
ConditionMatches(c, meta) ==
    \E e \in meta : /\ e.key = c.key
                    /\ CompareValues(e.value, c.value) \cap Orders(c.op) # {}

FilterMatches(filter, meta) == \A c \in filter : ConditionMatches(c, meta)

(***************************************************************************)
(* Database::search                                                        *)
(***************************************************************************)
\* How many candidates are asked for: of an exact scan and of the graph.
ExactFetch(query, slotCount) == IF query.filter = {} THEN query.k ELSE slotCount

GraphFetch(query) ==
    IF query.filter = {} THEN query.k ELSE (query.k * Oversample) % (SizeMax + 1)

FirstOf(k, list) == SubSeq(list, 1, IF k < Len(list) THEN k ELSE Len(list))

\* Candidates become results: in order, those the filter accepts, up to k.
\* Without metadata in the database a filter accepts nothing.  id and meta
\* are the lookups in the store and in the metadata store.
Results(query, kept, id, meta, hasMeta) ==
    LET given == hasMeta /\ (query.filter # {} \/ query.include)
        hit(c) == [id    |-> id[c.slot],
                   score |-> Score(c.key),
                   meta  |-> IF given THEN meta[id[c.slot]] ELSE {}]
        passes(c) == query.filter = {} \/
                         (given /\ FilterMatches(query.filter, meta[id[c.slot]]))
        chosen == FirstOf(query.k, TakeSorted({c \in kept : passes(c)}))
    IN  [i \in DOMAIN chosen |-> hit(chosen[i])]
=============================================================================
