------------------------------ MODULE HnswGraph ------------------------------
(***************************************************************************)
(* The graph of the HNSW index: how add links a node, how search walks the *)
(* layers, and what the reader of the index file demands of the result.    *)
(*                                                                         *)
(* A node is the slot of its vector, counted from 1.  A call runs to its   *)
(* end before the next begins; inside it, one step is one pass of          *)
(* greedy_descend, one turn of a loop of search_layer, or the update of    *)
(* one neighbour list.  Lists are sets: the model does not know the order  *)
(* in which a node's neighbours are stored, and tries every order.         *)
(***************************************************************************)
EXTENDS Integers, Sequences, FiniteSets

CONSTANTS
    Points,         \* the vectors, as far as distances tell them apart
    Dist(_, _),     \* the rank key of two vectors; smaller is nearer
    M,              \* HnswConfig::m
    EfConstruction, \* HnswConfig::ef_construction
    EfSearch,       \* the widths of a search, max(k, ef_search)
    MaxLevel,       \* the highest level random_level draws, 254 in the code
    MaxNodes,       \* bound on the number of nodes
    MaxMoves        \* bound on the vectors replaced in place

ASSUME GraphAssumption ==
    /\ Points # {}
    /\ \A p, q \in Points : Dist(p, q) \in Int
    /\ M \in Nat /\ M >= 2
    /\ EfConstruction \in Nat /\ EfConstruction >= M
    /\ EfSearch \subseteq Nat \ {0}
    /\ MaxLevel \in Nat
    /\ MaxNodes \in Nat
    /\ MaxMoves \in Nat

VARIABLES
    points,                 \* the vectors of the store, by slot
    level, links,           \* node_level_, and the list of each node on each layer
    entry, maxLevel,        \* entry_point_, 0 for none, and max_level_
    step,       \* where the call stands, "idle" between two calls
    op,         \* "add" or "search"
    query, ef,
    layer, at,              \* the layer, and the node a descent has come to
    frontier, best, visited,    \* the scratch of search_layer
    todo,       \* what the inner loop has still to go through
    moves       \* bounds the replacements

graph   == <<level, links, entry, maxLevel>>
slots   == <<points, moves>>
request == <<op, query, ef>>
scratch == <<frontier, best, visited>>
vars    == <<slots, graph, step, request, layer, at, scratch, todo>>

Nodes == 1 .. Len(level)

Layers == 0 .. MaxLevel

\* The node an add is about.
New == Len(level)

NoNode == 0

Limit(l) == IF l = 0 THEN 2 * M ELSE M

Key(n) == Dist(query, points[n])

\* CandidateBetter, for distances from p.
Better(p, a, b) ==
    \/ Dist(p, points[a]) < Dist(p, points[b])
    \/ Dist(p, points[a]) = Dist(p, points[b]) /\ a < b

Nearest(S) == {n \in S : \A m \in S : m = n \/ Better(query, n, m)}

Worst(S) == CHOOSE n \in S : \A m \in S : m = n \/ Better(query, m, n)

(***************************************************************************)
(* select_neighbours, for candidates C of a node at p (a set with one      *)
(* member; a set because no order need be computed).                       *)
(***************************************************************************)
\* What the first loop accepts: in the order of distance, until the limit,
\* who is not nearer to somebody accepted before than to p.
Diverse(C, p, limit) ==
    {D \in SUBSET C :
        /\ Cardinality(D) <= limit
        /\ \A n \in C :
               n \in D <=>
                   LET before == {m \in D : Better(p, m, n)}
                   IN  /\ Cardinality(before) < limit
                       /\ \A m \in before : ~(Dist(points[n], points[m]) < Dist(p, points[n]))}

\* What the second fills up with: the best of the rejects.
Fill(C, D, p, limit) ==
    {F \in SUBSET (C \ D) :
        /\ Cardinality(F) = limit - Cardinality(D)
        /\ \A n \in F, m \in (C \ D) \ F : Better(p, n, m)}

Selections(C, p, limit) ==
    IF Cardinality(C) <= limit
    THEN {C}
    ELSE UNION {{D \cup F : F \in Fill(C, D, p, limit)} : D \in Diverse(C, p, limit)}

-----------------------------------------------------------------------------
Init ==
    /\ points = <<>>
    /\ level = <<>>
    /\ links = <<>>
    /\ entry = NoNode
    /\ maxLevel = 0
    /\ step = "idle"
    /\ op = "none"
    /\ query = CHOOSE p \in Points : TRUE
    /\ ef = 1
    /\ layer = 0
    /\ at = NoNode
    /\ frontier = {}
    /\ best = {}
    /\ visited = {}
    /\ todo = {}
    /\ moves = 0

\* The call returns; what it leaves in its scratch nobody reads.
Return ==
    /\ step' = "idle"
    /\ op' = "none"
    /\ query' = CHOOSE p \in Points : TRUE
    /\ ef' = 1
    /\ layer' = 0
    /\ at' = NoNode
    /\ frontier' = {}
    /\ best' = {}
    /\ visited' = {}
    /\ todo' = {}

Begin(what, p, width) ==
    /\ op' = what
    /\ query' = p
    /\ ef' = width
    /\ layer' = maxLevel
    /\ at' = entry
    /\ step' = "descend"
    /\ UNCHANGED <<scratch, todo>>

\* add, up to its first search.  The first node becomes the entry point.
Add(p, l) ==
    /\ step = "idle"
    /\ Len(level) < MaxNodes
    /\ points' = Append(points, p)
    /\ level' = Append(level, l)
    /\ links' = Append(links, [x \in Layers |-> {}])
    /\ \/ /\ entry = NoNode
          /\ entry' = 1
          /\ maxLevel' = l
          /\ UNCHANGED <<step, request, layer, at, scratch, todo>>
       \/ /\ entry # NoNode
          /\ Begin("add", p, EfConstruction)
          /\ UNCHANGED <<entry, maxLevel>>
    /\ UNCHANGED moves

\* Database::upsert of an id in use: the vector moves and its node does not.
\* (remove changes nothing here: a tombstone goes on routing.)
Move(n, p) ==
    /\ step = "idle"
    /\ moves < MaxMoves
    /\ points' = [points EXCEPT ![n] = p]
    /\ moves' = moves + 1
    /\ UNCHANGED <<graph, step, request, layer, at, scratch, todo>>

\* search; without an entry point it returns nothing at once.
Search(p, width) ==
    /\ step = "idle"
    /\ entry # NoNode
    /\ Begin("search", p, width)
    /\ UNCHANGED <<slots, graph>>

-----------------------------------------------------------------------------
\* The layer below which the descent ends.
Base == IF op = "add" THEN level[New] ELSE 0

\* Mutants: one layer too far; an equally near neighbour is an improvement.
DescendTooFar ==
    /\ step = "descend"
    /\ layer >= Base
    /\ LET nearer == {n \in links[at][layer] : Key(n) < Key(at)}
       IN  \/ /\ nearer = {}
              /\ layer' = layer - 1
              /\ UNCHANGED at
           \/ /\ at' \in {n \in nearer : \A m \in nearer : Key(n) <= Key(m)}
              /\ UNCHANGED layer
    /\ UNCHANGED <<slots, graph, step, request, scratch, todo>>

DescendOnTies ==
    /\ step = "descend"
    /\ layer > Base
    /\ LET nearer == {n \in links[at][layer] : Key(n) <= Key(at)}
       IN  \/ /\ nearer = {}
              /\ layer' = layer - 1
              /\ UNCHANGED at
           \/ /\ at' \in {n \in nearer : \A m \in nearer : Key(n) <= Key(m)}
              /\ UNCHANGED layer
    /\ UNCHANGED <<slots, graph, step, request, scratch, todo>>

\* One pass of greedy_descend over the neighbours of the node it is at.
Descend ==
    /\ step = "descend"
    /\ layer > Base
    /\ LET nearer == {n \in links[at][layer] : Key(n) < Key(at)}
       IN  \/ /\ nearer = {}
              /\ layer' = layer - 1
              /\ UNCHANGED at
           \/ /\ at' \in {n \in nearer : \A m \in nearer : Key(n) <= Key(m)}
              /\ UNCHANGED layer
    /\ UNCHANGED <<slots, graph, step, request, scratch, todo>>

\* search_layer begins.
Enter(entries) ==
    /\ frontier' = entries
    /\ best' = entries
    /\ visited' = entries
    /\ step' = "expand"

EnterFirst ==
    /\ step = "descend"
    /\ layer <= Base
    /\ Enter({at})
    /\ UNCHANGED <<slots, graph, request, layer, at, todo>>

\* Nothing left to explore can improve the result.
Exhausted ==
    \/ frontier = {}
    \/ Cardinality(best) >= ef /\ \A n \in Nearest(frontier) : Better(query, Worst(best), n)

\* The nearest node is taken from the frontier and its neighbours looked at;
\* marking them now is marking them one by one, since no list has a node twice.
Expand ==
    /\ step = "expand"
    /\ ~Exhausted
    /\ \E n \in Nearest(frontier) :
           /\ frontier' = frontier \ {n}
           /\ todo' = links[n][layer] \ visited
           /\ visited' = visited \cup links[n][layer]
    /\ step' = IF todo' = {} THEN "expand" ELSE "visit"
    /\ UNCHANGED <<slots, graph, request, layer, at, best>>

Keep(n) ==
    IF Cardinality(best \cup {n}) > ef
    THEN (best \cup {n}) \ {Worst(best \cup {n})}
    ELSE best \cup {n}

\* Mutant: a full result takes nobody.
VisitWhileRoom(n) ==
    /\ step = "visit"
    /\ n \in todo
    /\ IF Cardinality(best) < ef
       THEN frontier' = frontier \cup {n} /\ best' = Keep(n)
       ELSE UNCHANGED <<frontier, best>>
    /\ todo' = todo \ {n}
    /\ step' = IF todo' = {} THEN "expand" ELSE "visit"
    /\ UNCHANGED <<slots, graph, request, layer, at, visited>>

Visit(n) ==
    /\ step = "visit"
    /\ n \in todo
    /\ IF Cardinality(best) < ef \/ Key(n) < Key(Worst(best))
       THEN frontier' = frontier \cup {n} /\ best' = Keep(n)
       ELSE UNCHANGED <<frontier, best>>
    /\ todo' = todo \ {n}
    /\ step' = IF todo' = {} THEN "expand" ELSE "visit"
    /\ UNCHANGED <<slots, graph, request, layer, at, visited>>

\* The tombstones are filtered out of what was found, and the k best returned.
Answer ==
    /\ step = "expand"
    /\ op = "search"
    /\ Exhausted
    /\ Return
    /\ UNCHANGED <<slots, graph>>

\* The neighbours of the new node on this layer.
Connect ==
    /\ step = "expand"
    /\ op = "add"
    /\ Exhausted
    /\ \E chosen \in Selections(best, query, Limit(layer)) :
           /\ links' = [links EXCEPT ![New][layer] = chosen]
           /\ todo' = chosen
    /\ step' = "link"
    /\ UNCHANGED <<slots, level, entry, maxLevel, request, layer, at, scratch>>

\* Mutants: no edge back; a full list takes one more.
LinkNothing(n) == UNCHANGED links

LinkUnpruned(n) == links' = [links EXCEPT ![n][layer] = @ \cup {New}]

\* link, the edge back; a full list is selected anew.
Link(n) ==
    LET list == links[n][layer]
    IN  \E kept \in IF Cardinality(list) < Limit(layer)
                    THEN {list \cup {New}}
                    ELSE Selections(list \cup {New}, points[n], Limit(layer)) :
            links' = [links EXCEPT ![n][layer] = kept]

\* The order of the chosen does not matter: each has a list of its own.
LinkBack ==
    /\ step = "link"
    /\ \E n \in todo :
           /\ \A m \in todo : n <= m
           /\ Link(n)
           /\ todo' = todo \ {n}
    /\ UNCHANGED <<slots, level, entry, maxLevel, step, request, layer, at, scratch>>

\* What was found here is where the layer below is entered.
NextLayer ==
    /\ step = "link"
    /\ todo = {}
    /\ layer > 0
    /\ layer' = layer - 1
    /\ Enter(best)
    /\ UNCHANGED <<slots, graph, request, at, todo>>

Added ==
    /\ step = "link"
    /\ todo = {}
    /\ layer = 0
    /\ IF level[New] > maxLevel
       THEN maxLevel' = level[New] /\ entry' = New
       ELSE UNCHANGED <<maxLevel, entry>>
    /\ Return
    /\ UNCHANGED <<slots, level, links>>

-----------------------------------------------------------------------------
\* What a call does once it has begun.
Work ==
    \/ Descend
    \/ EnterFirst
    \/ Expand
    \/ \E n \in todo : Visit(n)
    \/ Answer
    \/ Connect
    \/ LinkBack
    \/ NextLayer
    \/ Added

Call ==
    \/ \E p \in Points, l \in Layers : Add(p, l)
    \/ \E p \in Points, width \in EfSearch : Search(p, width)
    \/ \E n \in Nodes, p \in Points : Move(n, p)

Next == Call \/ Work

Spec == Init /\ [][Next]_vars

\* A call that has begun goes on; nobody has to call.
FairSpec == Spec /\ WF_vars(Work)
-----------------------------------------------------------------------------
\* The type invariant.
TypeOK ==
    /\ points \in Seq(Points)
    /\ level \in Seq(Layers)
    /\ links \in Seq([Layers -> SUBSET Nodes])
    /\ Len(links) = Len(level)
    /\ Len(points) = Len(level)
    /\ entry \in {NoNode} \cup Nodes
    /\ maxLevel \in Layers
    /\ step \in {"idle", "descend", "expand", "visit", "link"}
    /\ op \in {"none", "add", "search"}
    /\ query \in Points
    /\ ef \in Nat
    /\ layer \in Layers
    /\ at \in {NoNode} \cup Nodes
    /\ frontier \subseteq Nodes
    /\ best \subseteq Nodes
    /\ visited \subseteq Nodes
    /\ todo \subseteq Nodes
    /\ moves \in 0 .. MaxMoves

\* A neighbour list as the reader of the index file wants it; a node has no
\* list above its level.
ValidList(n, l) ==
    /\ Cardinality(links[n][l]) <= Limit(l)
    /\ \A m \in links[n][l] : m # n /\ level[m] >= l
    /\ l > level[n] => links[n][l] = {}

\* read_hnsw_file accepts every graph that a sequence of calls leaves: no list
\* over its budget, no node linked to itself or on a layer the other does not
\* reach, no node above the entry point.
ReaderAccepts ==
    step = "idle" =>
        /\ \A n \in Nodes :
               /\ level[n] <= maxLevel
               /\ \A l \in Layers : ValidList(n, l)
        /\ entry = NoNode <=> Nodes = {}
        /\ Nodes # {} => level[entry] = maxLevel

\* "Every node must have at least one layer-0 edge, or it is unreachable."
\* (index_hnsw_test.cpp)
NobodyIsolated ==
    step = "idle" /\ Len(level) > 1 => \A n \in Nodes : links[n][0] # {}

\* When a search of a layer ends, no neighbour of what it keeps could improve
\* it: either the result was not full, and all of them are in it, or they are
\* no nearer than the worst it keeps.  And it never keeps more than asked for.
BeamIsClosed ==
    step = "expand" /\ Exhausted =>
        /\ Cardinality(best) <= ef
        /\ \A n \in best : \A m \in links[n][layer] \ best :
               Cardinality(best) = ef /\ ~(Key(m) < Key(Worst(best)))

\* Every call returns: greedy_descend does not run in circles.
CallsReturn == step # "idle" ~> step = "idle"
=============================================================================
