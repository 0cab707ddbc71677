------------------------- MODULE ConcurrentDatabase --------------------------
(***************************************************************************)
(* A database behind a reader-writer lock: any number of searches and gets *)
(* at once, one write at a time.  A call takes the lock, works in several  *)
(* steps on the slots, the metadata rows and the has_metadata_ hint, and   *)
(* lets the lock go on every way out.  The queries of a batch are calls of *)
(* their own: the pool's workers take the lock once for each.              *)
(*                                                                         *)
(* A workload is a set of calls, each made once, by any thread at any      *)
(* time.  A write is a body of operations: one for insert, remove, flush   *)
(* and compact, several for with_exclusive_access.                         *)
(***************************************************************************)
EXTENDS VectorStore, Search

CONSTANTS
    Threads,    \* application threads and the workers of the pool
    Workloads,  \* sets of calls, one of which is made
    IndexType,  \* "hnsw" or "brute"
    FirstSlots, \* the slots of the store at the start: a set of sequences
    MetaFails   \* whether a write to the metadata store may throw

Writes == {c \in UNION Workloads : c.kind = "write"}

Operations == UNION {{c.body[i] : i \in DOMAIN c.body} : c \in Writes}

\* What the calls of a workload are made of, and the stores at the start.
ASSUME DatabaseAssumption ==
    /\ Vecs \subseteq Int
    /\ Metric \in {"l2", "cosine", "ip"}
    /\ SizeMax \in Nat
    /\ Oversample \in Nat \ {0}
    /\ IndexType \in {"hnsw", "brute"}
    /\ MetaFails \in BOOLEAN
    /\ \A slots \in FirstSlots :
           /\ slots \in Seq(Slot)
           /\ Len(slots) <= MaxId
           /\ \A i, j \in LiveSlots(slots) : slots[i].id = slots[j].id => i = j
    /\ \A c \in UNION Workloads :
           \/ c.kind = "search" /\ c.vec \in Vecs /\ c.k \in Nat
           \/ c.kind = "get" /\ c.id \in Ids
           \/ c.kind = "write" /\ c.body \in Seq(Operations)
    /\ \A op \in Operations :
           \/ /\ op.op \in {"insert", "auto"}
              /\ op = [op |-> op.op, id |-> op.id, vec |-> op.vec, meta |-> op.meta]
              /\ op.id \in Ids /\ op.vec \in Vecs
           \/ op.op = "remove" /\ op.id \in Ids
           \/ op.op \in {"compact", "flush"}

VARIABLES
    store, rows, hasMeta, nextId,   \* the database
    readers, writers,               \* the holders of the shared_mutex
    todo, pc, call, work,           \* the threads
    answers,                        \* what the reads returned
    log                             \* history: what each unlock left behind

database == <<store, rows, hasMeta, nextId>>
lock     == <<readers, writers>>
vars     == <<database, lock, todo, pc, call, work, answers, log>>

\* The contents, in the order of the slots: the live entries with their rows.
Version(s, r) ==
    {[slot |-> i, id |-> s.slots[i].id, vec |-> s.slots[i].vec, meta |-> r[s.slots[i].id]] :
        i \in LiveSlots(s.slots)}

NoWork == [at |-> 0, last |-> 0, bound |-> 0, kept |-> {}, from |-> 0]

Init ==
    /\ \E slots \in FirstSlots : store = StoreOf(slots)
    /\ rows = [id \in Ids |-> {}]
    /\ hasMeta = FALSE
    /\ nextId = Len(store.slots)
    /\ readers = {}
    /\ writers = {}
    /\ todo \in Workloads
    /\ pc = [t \in Threads |-> "idle"]
    /\ call = [t \in Threads |-> {}]
    /\ work = [t \in Threads |-> NoWork]
    /\ answers = {}
    /\ log = <<Version(store, rows)>>

Goto(t, place) == pc' = [pc EXCEPT ![t] = place]

Start(t) ==
    /\ pc[t] = "idle"
    /\ \E c \in todo :
           /\ todo' = todo \ {c}
           /\ call' = [call EXCEPT ![t] = {c}]
    /\ work' = [work EXCEPT ![t] = [NoWork EXCEPT !.from = Len(log)]]
    /\ Goto(t, "lock")
    /\ UNCHANGED <<database, lock, answers, log>>

Call(t) == CHOOSE c \in call[t] : TRUE

(***************************************************************************)
(* Reads                                                                   *)
(***************************************************************************)
UseExact(query) == query.exact \/ IndexType = "brute"

\* What Database::search, the scan, or the graph search rejects with an
\* exception: a k of zero, the caller's or one that it computed.
Refuses(query) ==
    \/ query.k = 0
    \/ UseExact(query) /\ ExactFetch(query, Len(store.slots)) = 0
    \/ ~UseExact(query) /\ GraphFetch(query) = 0

\* Mutant: a reader does not wait for the writer.
ReadableAlways == TRUE

Readable == writers = {}

LockShared(t) ==
    /\ pc[t] = "lock"
    /\ Call(t).kind # "write"
    /\ Readable
    /\ readers' = readers \cup {t}
    /\ Goto(t, Call(t).kind)
    /\ work' = [work EXCEPT ![t].at    = 1,
                            ![t].last  = Len(store.slots),
                            ![t].bound = IF Call(t).kind = "search"
                                         THEN ExactFetch(Call(t), Len(store.slots)) ELSE 0]
    /\ UNCHANGED <<database, writers, todo, call, answers, log>>

\* The call returns or throws; the lock goes with its scope.
ReturnRead(t, how, result) ==
    /\ readers' = readers \ {t}
    /\ answers' = answers \cup {[call |-> Call(t), from |-> work[t].from, to |-> Len(log),
                                 how  |-> how,     result |-> result]}
    /\ call' = [call EXCEPT ![t] = {}]
    /\ work' = [work EXCEPT ![t] = NoWork]
    /\ Goto(t, "idle")
    /\ UNCHANGED <<database, writers, todo, log>>

\* Mutant: the lock is let go by hand, at the end.
RefuseLocked(t) ==
    /\ pc[t] = "search"
    /\ Refuses(Call(t))
    /\ call' = [call EXCEPT ![t] = {}]
    /\ work' = [work EXCEPT ![t] = NoWork]
    /\ Goto(t, "idle")
    /\ UNCHANGED <<database, lock, todo, answers, log>>

Refuse(t) ==
    /\ pc[t] = "search"
    /\ Refuses(Call(t))
    /\ ReturnRead(t, "throws", <<>>)

CandidateAt(t, slot) ==
    [slot |-> slot, key |-> RankKey(Call(t).vec, store.slots[slot].vec)]

\* One turn of search_range: a live slot is offered to the collector.
Scan(t) ==
    /\ pc[t] = "search"
    /\ ~Refuses(Call(t))
    /\ UseExact(Call(t))
    /\ work[t].at <= work[t].last
    /\ work' = [work EXCEPT ![t].at   = @ + 1,
                            ![t].kept = IF work[t].at \in LiveSlots(store.slots)
                                        THEN Offer(work[t].bound, @, CandidateAt(t, work[t].at))
                                        ELSE @]
    /\ UNCHANGED <<database, lock, todo, pc, call, answers, log>>

IdAt == [slot \in DOMAIN store.slots |-> store.slots[slot].id]

ReturnScanned(t) ==
    /\ pc[t] = "search"
    /\ ~Refuses(Call(t))
    /\ UseExact(Call(t))
    /\ work[t].at > work[t].last
    /\ ReturnRead(t, "returns", Results(Call(t), work[t].kept, IdAt, rows, hasMeta))

\* The graph finds live slots, up to the number asked for; module HnswGraph
\* says how, and which it may miss.
SearchGraph(t) ==
    /\ pc[t] = "search"
    /\ ~Refuses(Call(t))
    /\ ~UseExact(Call(t))
    /\ \E found \in SUBSET LiveSlots(store.slots) :
           /\ Cardinality(found) <= GraphFetch(Call(t))
           /\ ReturnRead(t, "returns", Results(Call(t), {CandidateAt(t, s) : s \in found},
                                               IdAt, rows, hasMeta))

\* get: the slot's vector, then the rows of the id.
Find(t) ==
    /\ pc[t] = "get"
    /\ IF Contains(store, Call(t).id)
       THEN /\ work' = [work EXCEPT ![t].kept = {store.slots[store.idToLocal[Call(t).id]].vec}]
            /\ Goto(t, "getmeta")
            /\ UNCHANGED <<database, lock, todo, call, answers, log>>
       ELSE ReturnRead(t, "returns", <<>>)

GetMetadata(t) ==
    /\ pc[t] = "getmeta"
    /\ \E v \in work[t].kept : 
            ReturnRead(t, "returns", <<[vec |-> v, meta |-> rows[Call(t).id]]>>)

(***************************************************************************)
(* Writes                                                                  *)
(***************************************************************************)
LockExclusive(t) ==
    /\ pc[t] = "lock"
    /\ Call(t).kind = "write"
    /\ readers = {}
    /\ writers = {}
    /\ writers' = {t}
    /\ Goto(t, "body")
    /\ work' = [work EXCEPT ![t].at = 1]
    /\ UNCHANGED <<database, readers, todo, call, answers, log>>

ReturnWrite(t) ==
    /\ writers' = {}
    /\ log' = Append(log, Version(store, rows))
    /\ call' = [call EXCEPT ![t] = {}]
    /\ work' = [work EXCEPT ![t] = NoWork]
    /\ Goto(t, "idle")
    /\ UNCHANGED <<readers, todo, answers>>

\* The operation under way; an automatic insert takes its id here.
Operation(t) ==
    LET op == Call(t).body[work[t].at]
    IN  IF op.op = "auto" THEN [op EXCEPT !.op = "insert", !.id = nextId] ELSE op

Continue(t, place, at) ==
    /\ Goto(t, place)
    /\ work' = [work EXCEPT ![t].at = at]
    /\ UNCHANGED <<lock, todo, call, answers, log>>

Rejected(op) == op.op = "insert" /\ ~CanInsert(store, op.id)

\* What an operation does to the store, and whether metadata comes next.
StoreAfter(op) ==
    CASE op.op = "insert" -> {StoreInsert(store, op.id, op.vec)}
      [] op.op = "remove" -> {IF Contains(store, op.id) THEN StoreRemove(store, op.id)
                              ELSE store}
      [] op.op = "compact" -> IF TombstoneCount(store) = 0 THEN {store}
                              ELSE {StoreOf(slots) : slots \in Compactions(store.slots)}
      [] op.op = "flush"   -> {store}

WritesRows(op) ==
    \/ op.op = "insert" /\ op.meta # {}
    \/ op.op = "remove" /\ Contains(store, op.id)

NextAfter(id) == IF id >= nextId THEN (id + 1) % (MaxId + 1) ELSE nextId

\* The last assignment of an insert.
Counted(op) ==
    nextId' = IF op.op = "insert" THEN NextAfter(op.id) ELSE nextId

Apply(t) ==
    /\ pc[t] = "body"
    /\ work[t].at <= Len(Call(t).body)
    /\ ~Rejected(Operation(t))
    /\ store' \in StoreAfter(Operation(t))
    /\ IF WritesRows(Operation(t))
       THEN Continue(t, "rows", work[t].at) /\ UNCHANGED nextId
       ELSE Continue(t, "body", work[t].at + 1) /\ Counted(Operation(t))
    /\ UNCHANGED <<rows, hasMeta>>

Raised(op) == hasMeta \/ (op.op # "remove" /\ op.meta # {})

WriteRows(t) ==
    /\ pc[t] = "rows"
    /\ LET op == Operation(t)
       IN  /\ rows' = [rows EXCEPT ![op.id] = IF op.op = "remove" THEN {} ELSE op.meta]
           /\ hasMeta' = Raised(op)
           /\ Counted(op)
    /\ Continue(t, "body", work[t].at + 1)
    /\ UNCHANGED store

\* A refused insert or a failing statement ends the body with an exception.
Throw(t) ==
    /\ \/ pc[t] = "body" /\ work[t].at <= Len(Call(t).body) /\ Rejected(Operation(t))
       \/ pc[t] = "rows" /\ MetaFails
    /\ ReturnWrite(t)
    /\ UNCHANGED database

EndBody(t) ==
    /\ pc[t] = "body"
    /\ work[t].at > Len(Call(t).body)
    /\ ReturnWrite(t)
    /\ UNCHANGED database

-----------------------------------------------------------------------------
Step(t) ==
    \/ Start(t)
    \/ LockShared(t)
    \/ Refuse(t)
    \/ Scan(t)
    \/ ReturnScanned(t)
    \/ SearchGraph(t)
    \/ Find(t)
    \/ GetMetadata(t)
    \/ LockExclusive(t)
    \/ Apply(t)
    \/ WriteRows(t)
    \/ Throw(t)
    \/ EndBody(t)

Next == \E t \in Threads : Step(t)

\* A thread that can go on does; the lock need not be fair, because the
\* workload is finite.
Fairness == \A t \in Threads : WF_vars(Step(t))

Spec == Init /\ [][Next]_vars /\ Fairness
-----------------------------------------------------------------------------
\* The type invariant; a collector holds no more than it was made for.
TypeOK ==
    /\ store \in Store
    /\ rows \in [Ids -> SUBSET UNION {op.meta : op \in Operations}]
    /\ hasMeta \in BOOLEAN
    /\ nextId \in Ids
    /\ readers \subseteq Threads
    /\ writers \subseteq Threads
    /\ todo \subseteq UNION Workloads
    /\ pc \in [Threads -> {"idle", "lock", "search", "get", "getmeta", "body", "rows"}]
    /\ \A t \in Threads :
           pc[t] = "search" => Cardinality(work[t].kept) <= work[t].bound

(***************************************************************************)
(* The reference: a search of a version                                    *)
(***************************************************************************)
Matching(query, v) ==
    {e \in v : query.filter = {} \/ FilterMatches(query.filter, e.meta)}

\* Nearer, or as near and in a lower slot.
Before(query, d, e) ==
    \/ RankKey(query.vec, d.vec) < RankKey(query.vec, e.vec)
    \/ RankKey(query.vec, d.vec) = RankKey(query.vec, e.vec) /\ d.slot < e.slot

Hit(query, e) ==
    [id    |-> e.id,
     score |-> Score(RankKey(query.vec, e.vec)),
     meta  |-> IF query.filter # {} \/ query.include THEN e.meta ELSE {}]

\* Beside a k of zero two queries are refused: a filter on an exact search of
\* an empty database, and one on a search of the graph when k times the
\* oversampling wraps to zero.
Refusable(query, v) ==
    \/ query.k = 0
    \/ query.filter # {} /\ UseExact(query) /\ v = {}
    \/ /\ query.filter # {}
       /\ ~UseExact(query)
       /\ (query.k * Oversample) % (SizeMax + 1) = 0

\* An answer fits a version.  The graph may miss a vector, but reports each
\* one as it is, in order, and no more than k; an exact search leaves out only
\* what comes after k others.
Fits(a, v) ==
    \/ /\ a.call.kind = "get"
       /\ \A e \in v : e.id = a.call.id => a.result = <<[vec |-> e.vec, meta |-> e.meta]>>
       /\ (\A e \in v : e.id # a.call.id) => a.result = <<>>
    \/ /\ a.call.kind = "search"
       /\ a.how = "throws"
       /\ Refusable(a.call, v)
    \/ /\ a.call.kind = "search"
       /\ a.how = "returns"
       /\ Len(a.result) <= a.call.k
       /\ \E e \in [DOMAIN a.result -> Matching(a.call, v)] :
              /\ \A i \in DOMAIN e : a.result[i] = Hit(a.call, e[i])
              /\ \A i, j \in DOMAIN e : i < j => Before(a.call, e[i], e[j])
              /\ UseExact(a.call) =>
                     \A m \in Matching(a.call, v) :
                         \/ \E i \in DOMAIN e : e[i] = m
                         \/ /\ Len(a.result) = a.call.k
                            /\ \A i \in DOMAIN e : Before(a.call, e[i], m)

\* Every read is atomic: it answers from the database as one write left it,
\* no older than when the call began and no newer than when it returned.  An
\* exact answer is the k best matches of that version, ties to the lower slot.
ReadsAreAtomic ==
    \A a \in answers : \E n \in a.from .. a.to : Fits(a, log[n])

\* Searches of parts of the store, each its own k best, merge to the k best
\* of all: merge_top_k may leave a list at the first candidate that would not
\* be accepted, and ties across lists go to the lower slot.  Of the stores
\* found between calls.
MergeIsExact ==
    (\A t \in Threads : pc[t] = "idle") =>
        \A vec \in Vecs, k \in 1 .. MaxSlots, part \in SUBSET LiveSlots(store.slots) :
            LET slots    == store.slots
                cands(s) == [i \in s |-> [slot |-> i, key |-> RankKey(vec, slots[i].vec)]]
                best(s)  == TakeSorted(SearchRange(k, cands(s), Len(slots)))
            IN  MergeTopK(k, best(part), best(LiveSlots(slots) \ part))
                    = FirstOf(k, TakeSorted({cands(LiveSlots(slots))[i] : i \in LiveSlots(slots)}))

\* Every call returns, the ones that throw included, and nobody is left
\* waiting for the lock.
CallsReturn == <>[](todo = {} /\ \A t \in Threads : pc[t] = "idle")
=============================================================================
