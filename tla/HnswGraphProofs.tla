-------------------------- MODULE HnswGraphProofs ----------------------------
(***************************************************************************)
(* For every distance, every M and every number of nodes, levels and       *)
(* replaced vectors: the graph that add builds is one that the reader of   *)
(* the index file accepts, no node in it is without neighbours, and what   *)
(* the search of a layer returns no neighbour of it could improve.         *)
(***************************************************************************)
EXTENDS HnswGraph, FiniteSetTheorems, WellFoundedInduction, TLAPS

\* The graph, also in the middle of an add.
GraphOK ==
    /\ \A n \in Nodes, l \in Layers : ValidList(n, l)
    /\ entry = NoNode <=> Nodes = {}
    /\ entry # NoNode => level[entry] = maxLevel
    /\ \A n \in Nodes : level[n] <= maxLevel \/ (op = "add" /\ n = New)

Searching == step \in {"expand", "visit", "link"}

\* An add does not meet the node it adds: nobody links to it yet on the layer
\* that is searched or below.
NewIsUnseen ==
    op = "add" =>
        /\ entry # New
        /\ at # New
        /\ New \notin visited
        /\ \A n \in Nodes, l \in Layers :
               New \in links[n][l] => l > layer \/ (l = layer /\ step = "link")

\* A walk stays on nodes that reach its layer.
CallOK ==
    /\ op = "none" <=> step = "idle"
    /\ op # "none" => entry # NoNode /\ layer <= maxLevel /\ ef >= 1
    /\ step = "descend" => at \in Nodes /\ level[at] >= layer
    /\ Searching =>
           /\ best # {}
           /\ best \cup frontier \subseteq visited
           /\ \A n \in visited : level[n] >= layer
           /\ op = "add" => layer <= level[New]
    /\ step = "visit" => todo \subseteq visited
    /\ step = "link" => op = "add" /\ todo \subseteq best

GInv == TypeOK /\ GraphOK /\ NewIsUnseen /\ CallOK

-----------------------------------------------------------------------------
\* select_neighbours returns candidates, no more than the limit, and at least
\* one if there is one.
LEMMA SelectionBounded ==
    ASSUME NEW C, IsFiniteSet(C), NEW p, NEW limit \in Nat \ {0},
           NEW S \in Selections(C, p, limit)
    PROVE  /\ S \subseteq C
           /\ Cardinality(S) <= limit
           /\ C # {} => S # {}
  <1>1. CASE Cardinality(C) <= limit
    BY <1>1 DEF Selections
  <1>2. CASE ~(Cardinality(C) <= limit)
    <2>1. PICK D \in Diverse(C, p, limit) : \E F \in Fill(C, D, p, limit) : S = D \cup F
      BY <1>2 DEF Selections
    <2>2. PICK F \in Fill(C, D, p, limit) : S = D \cup F
      BY <2>1
    <2>3. /\ D \subseteq C /\ Cardinality(D) <= limit
          /\ F \subseteq C \ D /\ Cardinality(F) = limit - Cardinality(D)
      BY <2>1, <2>2 DEF Diverse, Fill
    <2>4. IsFiniteSet(D) /\ IsFiniteSet(F)
      BY <2>3, FS_Subset
    <2>5. /\ Cardinality(D) \in Nat /\ Cardinality(F) \in Nat
          /\ Cardinality(D \cup F) = Cardinality(D) + Cardinality(F) - Cardinality(D \cap F)
      BY <2>4, FS_Union, FS_CardinalityType
    <2>6. D \cap F = {} /\ Cardinality({}) = 0
      BY <2>3, FS_EmptySet
    <2>meet. Cardinality(D \cap F) = 0
      BY <2>6, Zenon
    <2>7. Cardinality(S) = limit
      BY <2>2, <2>3, <2>5, <2>meet
    <2>8. S # {}
      BY <2>6, <2>7
    <2>9. QED
      BY <2>2, <2>3, <2>7, <2>8
  <1>3. QED
    BY <1>1, <1>2

\* Node sets are finite, and so are the lists.
LEMMA NodesFinite ==
    ASSUME TypeOK
    PROVE  /\ Len(level) \in Nat
           /\ IsFiniteSet(Nodes)
           /\ \A S \in SUBSET Nodes : IsFiniteSet(S) /\ Cardinality(S) \in Nat
  <1>1. Len(level) \in Nat
    BY DEF TypeOK
  <1>2. IsFiniteSet(Nodes)
    BY <1>1, FS_Interval DEF Nodes
  <1>3. QED
    BY <1>1, <1>2, FS_Subset, FS_CardinalityType

LEMMA LevelsAreLayers ==
    ASSUME TypeOK
    PROVE  maxLevel \in Layers /\ layer \in Layers /\ \A n \in Nodes : level[n] \in Layers
  BY DEF TypeOK, Nodes

LEMMA LimitPositive ==
    ASSUME NEW l \in Layers
    PROVE  Limit(l) \in Nat \ {0}
  BY GraphAssumption DEF Limit, Layers

\* One list replaced by another of nodes.
LEMMA OneList ==
    ASSUME TypeOK, NEW n \in Nodes, NEW l \in Layers, NEW S \in SUBSET Nodes,
           links' = [links EXCEPT ![n][l] = S]
    PROVE  /\ links' \in Seq([Layers -> SUBSET Nodes])
           /\ Len(links') = Len(links)
           /\ \A a \in Nodes, b \in Layers :
                  links'[a][b] = IF a = n /\ b = l THEN S ELSE links[a][b]
  <1>1. /\ links \in Seq([Layers -> SUBSET Nodes])
        /\ DOMAIN links = Nodes
    BY DEF TypeOK, Nodes
  <1>2. links[n] \in [Layers -> SUBSET Nodes]
    BY <1>1
  <1>3. [links[n] EXCEPT ![l] = S] \in [Layers -> SUBSET Nodes]
    BY <1>2
  <1>4. links' = [links EXCEPT ![n] = [links[n] EXCEPT ![l] = S]]
    OBVIOUS
  <1>5. links' \in Seq([Layers -> SUBSET Nodes]) /\ Len(links') = Len(links)
    BY <1>1, <1>3, <1>4
  <1>6. ASSUME NEW a \in Nodes, NEW b \in Layers
        PROVE  links'[a][b] = IF a = n /\ b = l THEN S ELSE links[a][b]
    BY <1>1, <1>2, <1>4
  <1>7. QED
    BY <1>5, <1>6

-----------------------------------------------------------------------------
\* An empty graph.
LEMMA InitGInv == Init => GInv
  <1> SUFFICES ASSUME Init PROVE GInv
    OBVIOUS
  <1>1. Len(level) = 0 /\ Nodes = {}
    BY DEF Init, Nodes
  <1>2. 0 \in Layers
    BY GraphAssumption DEF Layers
  <1>3. query \in Points
    BY GraphAssumption DEF Init
  <1>4. TypeOK
    BY <1>1, <1>2, <1>3, GraphAssumption DEF Init, TypeOK, NoNode
  <1>5. GraphOK /\ NewIsUnseen /\ CallOK
    BY <1>1 DEF Init, GraphOK, NewIsUnseen, CallOK, Searching
  <1>6. QED
    BY <1>4, <1>5 DEF GInv

\* A node with empty lists on every layer.
LEMMA AddKeeps ==
    ASSUME GInv, NEW p \in Points, NEW l \in Layers, Add(p, l)
    PROVE  GInv'
  <1>new. PICK new : new = Len(level) + 1
    OBVIOUS
  <1>1. /\ Len(level) \in Nat /\ level \in Seq(Layers)
        /\ links \in Seq([Layers -> SUBSET Nodes]) /\ Len(links) = Len(level)
        /\ points \in Seq(Points) /\ Len(points) = Len(level)
    BY DEF GInv, TypeOK
  <1>2. /\ step = "idle"
        /\ points' = Append(points, p) /\ level' = Append(level, l)
        /\ links' = Append(links, [x \in Layers |-> {}])
        /\ UNCHANGED <<scratch, todo, moves>>
    BY DEF Add, Begin
  <1>3. /\ Len(level') = new /\ level' \in Seq(Layers)
        /\ Len(points') = new /\ points' \in Seq(Points)
        /\ Nodes' = Nodes \cup {new} /\ New' = new
        /\ \A n \in Nodes : level'[n] = level[n] /\ level[n] \in Layers
        /\ level'[new] = l
    BY <1>new, <1>1, <1>2 DEF Nodes, New
  <1>4. /\ links' \in Seq([Layers -> SUBSET Nodes']) /\ Len(links') = new
        /\ \A n \in Nodes : links'[n] = links[n]
        /\ links'[new] = [x \in Layers |-> {}]
    <2>1. links \in Seq([Layers -> SUBSET Nodes'])
      <3>1. \A i \in 1 .. Len(links) : links[i] \in [Layers -> SUBSET Nodes']
        BY <1>1, <1>3
      <3>2. QED
        BY <1>1, <3>1
    <2>2. [x \in Layers |-> {}] \in [Layers -> SUBSET Nodes']
      OBVIOUS
    <2>3. QED
      BY <1>new, <1>1, <1>2, <2>1, <2>2 DEF Nodes
  <1>5. new \notin Nodes /\ \A n \in Nodes, x \in Layers : links[n][x] \subseteq Nodes
    BY <1>new, <1>1 DEF Nodes
  <1>6. \A n \in Nodes', x \in Layers : ValidList(n, x)'
    <2>1. ASSUME NEW n \in Nodes, NEW x \in Layers PROVE ValidList(n, x)'
      <3>1. ValidList(n, x)
        BY DEF GInv, GraphOK
      <3>2. /\ Cardinality(links'[n][x]) <= Limit(x)
            /\ \A m \in links'[n][x] : m # n /\ level'[m] >= x
            /\ x > level'[n] => links'[n][x] = {}
        BY <1>3, <1>4, <1>5, <3>1 DEF ValidList
      <3>3. QED
        BY <3>2 DEF ValidList, Limit
    <2>2. ASSUME NEW x \in Layers PROVE ValidList(new, x)'
      <3>1. links'[new][x] = {} /\ Cardinality({}) = 0
        BY <1>4, FS_EmptySet
      <3>2. Cardinality(links'[new][x]) = 0
        BY <3>1, Zenon
      <3>3. Limit(x) \in Nat
        BY LimitPositive
      <3>4. /\ Cardinality(links'[new][x]) <= Limit(x)
            /\ \A m \in links'[new][x] : m # new /\ level'[m] >= x
            /\ x > level'[new] => links'[new][x] = {}
        BY <3>1, <3>2, <3>3
      <3>5. QED
        BY <3>4 DEF ValidList, Limit
    <2>3. QED
      BY <1>3, <2>1, <2>2
  <1>7. \A n \in Nodes', x \in Layers : new \notin links'[n][x]
    BY <1>3, <1>4, <1>5
  <1>8. op = "none" /\ best \subseteq Nodes /\ frontier \subseteq Nodes /\ visited \subseteq Nodes
        /\ todo \subseteq Nodes /\ entry \in {NoNode} \cup Nodes /\ maxLevel \in Layers
        /\ moves \in 0 .. MaxMoves
    BY <1>2 DEF GInv, TypeOK, CallOK
  <1>9. CASE entry = NoNode
    <2>1. /\ entry' = 1 /\ maxLevel' = l
          /\ UNCHANGED <<step, request, layer, at, scratch, todo, moves>>
      BY <1>9, <1>2 DEF Add
    <2>2. Nodes = {} /\ new = 1
      BY <1>new, <1>1, <1>9 DEF GInv, GraphOK, Nodes
    <2>3. TypeOK'
      BY <1>3, <1>4, <1>8, <2>1, <2>2 DEF GInv, TypeOK, request, scratch
    <2>4. GraphOK'
      BY <1>3, <1>6, <2>1, <2>2 DEF GraphOK, NoNode, Layers
    <2>5. NewIsUnseen' /\ CallOK'
      BY <1>2, <1>8, <2>1 DEF GInv, NewIsUnseen, CallOK, request, Searching
    <2>6. QED
      BY <2>3, <2>4, <2>5 DEF GInv
  <1>10. CASE entry # NoNode
    <2>1. /\ op' = "add" /\ query' = p /\ ef' = EfConstruction
          /\ layer' = maxLevel /\ at' = entry /\ step' = "descend"
          /\ UNCHANGED <<scratch, todo, moves, entry, maxLevel>>
      BY <1>10, <1>2 DEF Add, Begin
    <2>2. entry \in Nodes /\ level[entry] = maxLevel
      BY <1>8, <1>10 DEF GInv, GraphOK
    <2>3. TypeOK'
      BY <1>3, <1>4, <1>8, <2>1, <2>2, GraphAssumption DEF TypeOK, scratch
    <2>4. GraphOK'
      BY <1>3, <1>6, <1>8, <2>1, <2>2 DEF GInv, GraphOK
    <2>5. NewIsUnseen'
      BY <1>3, <1>5, <1>7, <1>8, <2>1, <2>2 DEF NewIsUnseen, scratch
    <2>6. CallOK'
      <3>1. maxLevel \in Nat /\ level'[at'] = maxLevel /\ at' \in Nodes' /\ ef' >= 1
        BY <1>3, <1>8, <2>1, <2>2, GraphAssumption DEF Layers
      <3>2. QED
        BY <1>10, <2>1, <3>1 DEF CallOK, Searching
    <2>7. QED
      BY <2>3, <2>4, <2>5, <2>6 DEF GInv
  <1>11. QED
    BY <1>9, <1>10

\* What does not touch the graph keeps it.
LEMMA SameGraph ==
    ASSUME GInv, UNCHANGED graph, op = "add" => op' = "add"
    PROVE  GraphOK'
  <1>1. UNCHANGED <<level, links, entry, maxLevel>> /\ GraphOK
    BY DEF graph, GInv
  <1>2. Nodes' = Nodes /\ New' = New
    BY <1>1 DEF Nodes, New
  <1>3. \A n \in Nodes, l \in Layers : ValidList(n, l)'
    BY <1>1 DEF GraphOK, ValidList, Limit
  <1>4. QED
    BY <1>1, <1>2, <1>3 DEF GraphOK

\* A vector is replaced in place.
LEMMA MoveKeeps ==
    ASSUME GInv, NEW n \in Nodes, NEW p \in Points, Move(n, p)
    PROVE  GInv'
  <1>1. /\ UNCHANGED <<level, links, entry, maxLevel, step, op, query, ef, layer, at>>
        /\ UNCHANGED <<frontier, best, visited, todo, graph>>
    BY DEF Move, graph, request, scratch
  <1>2. points' \in Seq(Points) /\ Len(points') = Len(points) /\ moves' \in 0 .. MaxMoves
    BY GraphAssumption DEF Move, GInv, TypeOK, Nodes
  <1>3. Nodes' = Nodes /\ New' = New
    BY <1>1 DEF Nodes, New
  <1>4. TypeOK'
    BY <1>1, <1>2, <1>3 DEF GInv, TypeOK
  <1>5. GraphOK'
    BY <1>1, SameGraph
  <1>6. NewIsUnseen' /\ CallOK'
    BY <1>1, <1>3 DEF GInv, NewIsUnseen, CallOK, Searching
  <1>7. QED
    BY <1>4, <1>5, <1>6 DEF GInv

\* A walk begins at the entry point, on the top layer.
LEMMA SearchKeeps ==
    ASSUME GInv, NEW p \in Points, NEW width \in EfSearch, Search(p, width)
    PROVE  GInv'
  <1>1. /\ UNCHANGED <<level, links, entry, maxLevel, points, moves>>
        /\ UNCHANGED <<frontier, best, visited, todo, graph>>
        /\ op' = "search" /\ query' = p /\ ef' = width /\ layer' = maxLevel
        /\ at' = entry /\ step' = "descend" /\ step = "idle" /\ entry # NoNode
    BY DEF Search, Begin, graph, slots, scratch
  <1>2. width \in Nat \ {0}
    BY GraphAssumption
  <1>3. Nodes' = Nodes /\ New' = New /\ op = "none"
    BY <1>1 DEF Nodes, New, GInv, CallOK
  <1>4. entry \in Nodes /\ level[entry] = maxLevel /\ maxLevel \in Layers
    BY <1>1 DEF GInv, TypeOK, GraphOK
  <1>5. TypeOK'
    BY <1>1, <1>2, <1>3, <1>4 DEF GInv, TypeOK
  <1>6. GraphOK'
    BY <1>1, <1>3, SameGraph
  <1>7. NewIsUnseen' /\ CallOK'
    BY <1>1, <1>2, <1>3, <1>4 DEF NewIsUnseen, CallOK, Searching, Layers
  <1>8. QED
    BY <1>5, <1>6, <1>7 DEF GInv

\* The neighbours of a node, on the layer of a walk: known nodes that reach
\* the layer, and not the one that is being added.
LEMMA NeighboursKnown ==
    ASSUME GInv, step # "link", op # "none", NEW n \in Nodes
    PROVE  /\ links[n][layer] \subseteq Nodes
           /\ \A m \in links[n][layer] : level[m] >= layer
           /\ op = "add" => New \notin links[n][layer]
           /\ New \in Nodes /\ level[New] \in Layers /\ layer \in Layers
  <1>1. layer \in Layers /\ layer \in Int
    BY DEF GInv, TypeOK, Layers
  <1>2. links[n][layer] \subseteq Nodes
    BY <1>1 DEF GInv, TypeOK, Nodes
  <1>3. \A m \in links[n][layer] : level[m] >= layer
    BY <1>1 DEF GInv, GraphOK, ValidList
  <1>4. op = "add" => New \notin links[n][layer]
    BY <1>1 DEF GInv, NewIsUnseen
  <1>5. New \in Nodes /\ level[New] \in Layers
    BY DEF GInv, TypeOK, Nodes, New
  <1>6. QED
    BY <1>1, <1>2, <1>3, <1>4, <1>5

LEMMA DescendKeeps ==
    ASSUME GInv, Descend
    PROVE  GInv'
  <1>1. /\ UNCHANGED <<level, links, entry, maxLevel, points, moves, step, op, query, ef>>
        /\ UNCHANGED <<frontier, best, visited, todo, graph>>
        /\ step = "descend" /\ layer > Base
    BY DEF Descend, graph, slots, request, scratch
  <1>2. Nodes' = Nodes /\ New' = New
    BY <1>1 DEF Nodes, New
  <1>3. op # "none" /\ at \in Nodes /\ level[at] >= layer /\ layer <= maxLevel
    BY <1>1 DEF GInv, CallOK
  <1>4. /\ links[at][layer] \subseteq Nodes
        /\ \A m \in links[at][layer] : level[m] >= layer
        /\ op = "add" => New \notin links[at][layer]
        /\ New \in Nodes /\ level[New] \in Layers /\ layer \in Layers
    BY <1>1, <1>3, NeighboursKnown
  <1>5. level[at] \in Layers /\ maxLevel \in Layers
    BY <1>3 DEF GInv, TypeOK, Nodes
  <1>6. GraphOK'
    BY <1>1, SameGraph
  <1>7. CASE layer' = layer - 1 /\ at' = at
    <2>1. layer' \in Layers /\ layer' < layer
      BY <1>1, <1>4, <1>7, GraphAssumption DEF Base, Layers
    <2>2. TypeOK'
      BY <1>1, <1>2, <1>7, <2>1 DEF GInv, TypeOK
    <2>3. \A l \in Layers : l > layer => l > layer'
      BY <1>4, <1>7 DEF Layers
    <2>4. NewIsUnseen'
      BY <1>1, <1>2, <1>7, <2>3 DEF GInv, NewIsUnseen
    <2>5. CallOK'
      BY <1>1, <1>2, <1>3, <1>4, <1>5, <1>7 DEF GInv, CallOK, Searching, Layers
    <2>6. QED
      BY <1>6, <2>2, <2>4, <2>5 DEF GInv
  <1>8. CASE at' \in links[at][layer] /\ layer' = layer
    <2>1. at' \in Nodes /\ level[at'] >= layer /\ (op = "add" => at' # New)
      BY <1>4, <1>8
    <2>2. TypeOK'
      BY <1>1, <1>2, <1>8, <2>1 DEF GInv, TypeOK
    <2>3. NewIsUnseen'
      BY <1>1, <1>2, <1>8, <2>1 DEF GInv, NewIsUnseen
    <2>4. CallOK'
      BY <1>1, <1>2, <1>8, <2>1 DEF GInv, CallOK, Searching
    <2>5. QED
      BY <1>6, <2>2, <2>3, <2>4 DEF GInv
  <1>9. QED
    BY <1>7, <1>8 DEF Descend

LEMMA EnterFirstKeeps ==
    ASSUME GInv, EnterFirst
    PROVE  GInv'
  <1>1. /\ UNCHANGED <<level, links, entry, maxLevel, points, moves, op, query, ef>>
        /\ UNCHANGED <<layer, at, todo, graph>>
        /\ frontier' = {at} /\ best' = {at} /\ visited' = {at} /\ step' = "expand"
        /\ step = "descend" /\ layer <= Base
    BY DEF EnterFirst, Enter, graph, slots, request
  <1>2. Nodes' = Nodes /\ New' = New
    BY <1>1 DEF Nodes, New
  <1>3. op # "none" /\ at \in Nodes /\ level[at] >= layer
    BY <1>1 DEF GInv, CallOK
  <1>4. TypeOK'
    BY <1>1, <1>2, <1>3 DEF GInv, TypeOK
  <1>5. GraphOK'
    BY <1>1, SameGraph
  <1>6. NewIsUnseen'
    BY <1>1, <1>2 DEF GInv, NewIsUnseen
  <1>7. CallOK'
    BY <1>1, <1>2, <1>3 DEF GInv, CallOK, Searching, Base, New
  <1>8. QED
    BY <1>4, <1>5, <1>6, <1>7 DEF GInv

LEMMA ExpandKeeps ==
    ASSUME GInv, Expand
    PROVE  GInv'
  <1>1. /\ UNCHANGED <<level, links, entry, maxLevel, points, moves, op, query, ef>>
        /\ UNCHANGED <<layer, at, best, graph>>
        /\ step = "expand"
        /\ step' = IF todo' = {} THEN "expand" ELSE "visit"
    BY DEF Expand, graph, slots, request
  <1>2. Nodes' = Nodes /\ New' = New
    BY <1>1 DEF Nodes, New
  <1>3. PICK n \in frontier : /\ frontier' = frontier \ {n}
                              /\ todo' = links[n][layer] \ visited
                              /\ visited' = visited \cup links[n][layer]
    BY DEF Expand, Nearest
  <1>4. n \in Nodes /\ op # "none"
    BY <1>1 DEF GInv, TypeOK, CallOK
  <1>5. /\ links[n][layer] \subseteq Nodes
        /\ \A m \in links[n][layer] : level[m] >= layer
        /\ op = "add" => New \notin links[n][layer]
    BY <1>1, <1>4, NeighboursKnown
  <1>6. TypeOK'
    BY <1>1, <1>2, <1>3, <1>5 DEF GInv, TypeOK
  <1>7. GraphOK'
    BY <1>1, SameGraph
  <1>8. NewIsUnseen'
    BY <1>1, <1>2, <1>3, <1>5 DEF GInv, NewIsUnseen
  <1>9. CallOK'
    <2>1. /\ best # {} /\ best \cup frontier \subseteq visited
          /\ \A m \in visited : level[m] >= layer
          /\ op = "add" => layer <= level[New]
      BY <1>1 DEF GInv, CallOK, Searching
    <2>2. /\ best' # {} /\ best' \cup frontier' \subseteq visited'
          /\ \A m \in visited' : level'[m] >= layer'
          /\ op' = "add" => layer' <= level'[New']
          /\ todo' \subseteq visited'
      BY <1>1, <1>2, <1>3, <1>5, <2>1
    <2>3. step' \in {"expand", "visit"}
      BY <1>1
    <2>4. QED
      BY <1>1, <1>2, <1>4, <2>2, <2>3 DEF GInv, CallOK, Searching
  <1>10. QED
    BY <1>6, <1>7, <1>8, <1>9 DEF GInv

\* Keeping the best ef of a set leaves somebody, since ef is not 0.
LEMMA KeepNonempty ==
    ASSUME GInv, NEW n \in Nodes, ef >= 1
    PROVE  Keep(n) # {} /\ Keep(n) \subseteq best \cup {n}
  <1> DEFINE S == best \cup {n}
  <1>1. S \subseteq Nodes /\ ef \in Nat
    BY DEF GInv, TypeOK
  <1>2. IsFiniteSet(S) /\ Cardinality(S) \in Nat
    BY <1>1, NodesFinite DEF GInv
  <1>3. CASE Cardinality(S) > ef
    <2>1. ASSUME NEW w, S \ {w} = {} PROVE FALSE
      <3>1. S \subseteq {w}
        BY <2>1
      <3>2. IsFiniteSet({w}) /\ Cardinality({w}) = 1
        BY FS_Singleton
      <3>3. Cardinality(S) <= Cardinality({w})
        BY <3>1, <3>2, FS_Subset
      <3>4. QED
        BY <1>1, <1>2, <1>3, <3>2, <3>3
    <2>2. Keep(n) = S \ {Worst(S)}
      BY <1>3 DEF Keep
    <2> HIDE DEF S
    <2>3. Keep(n) # {} /\ Keep(n) \subseteq S
      BY <2>1, <2>2
    <2>4. QED
      BY <2>3 DEF S
  <1>4. CASE ~(Cardinality(S) > ef)
    BY <1>4 DEF Keep
  <1>5. QED
    BY <1>3, <1>4

LEMMA VisitKeeps ==
    ASSUME GInv, NEW n \in todo, Visit(n)
    PROVE  GInv'
  <1>1. /\ UNCHANGED <<level, links, entry, maxLevel, points, moves, op, query, ef>>
        /\ UNCHANGED <<layer, at, visited, graph>>
        /\ step = "visit" /\ todo' = todo \ {n}
        /\ step' = IF todo' = {} THEN "expand" ELSE "visit"
    BY DEF Visit, graph, slots, request
  <1>2. Nodes' = Nodes /\ New' = New
    BY <1>1 DEF Nodes, New
  <1>3. n \in Nodes /\ op # "none" /\ ef >= 1 /\ n \in visited
    BY <1>1 DEF GInv, TypeOK, CallOK
  <1>4. Keep(n) # {} /\ Keep(n) \subseteq best \cup {n}
    BY <1>3, KeepNonempty
  <1>5. /\ best # {} /\ best \cup frontier \subseteq visited /\ visited \subseteq Nodes
        /\ todo \subseteq visited
    BY <1>1 DEF GInv, CallOK, Searching, TypeOK
  <1>6. best' # {} /\ best' \cup frontier' \subseteq visited
    <2>1. \/ frontier' = frontier \cup {n} /\ best' = Keep(n)
          \/ UNCHANGED <<frontier, best>>
      BY DEF Visit
    <2>2. QED
      BY <1>3, <1>4, <1>5, <2>1
  <1>7. TypeOK'
    BY <1>1, <1>2, <1>5, <1>6 DEF GInv, TypeOK
  <1>8. GraphOK'
    BY <1>1, SameGraph
  <1>9. NewIsUnseen'
    BY <1>1, <1>2 DEF GInv, NewIsUnseen
  <1>10. CallOK'
    <2>1. step' \in {"expand", "visit"} /\ todo' \subseteq visited'
      BY <1>1, <1>5
    <2>2. QED
      BY <1>1, <1>2, <1>3, <1>6, <2>1 DEF GInv, CallOK, Searching
  <1>11. QED
    BY <1>7, <1>8, <1>9, <1>10 DEF GInv

\* What a call leaves behind.
LEMMA ReturnTypes ==
    ASSUME Return
    PROVE  /\ step' = "idle" /\ op' = "none" /\ query' \in Points /\ ef' \in Nat
           /\ layer' \in Layers /\ at' = NoNode
           /\ frontier' = {} /\ best' = {} /\ visited' = {} /\ todo' = {}
  <1>1. 0 \in Layers /\ Points # {}
    BY GraphAssumption DEF Layers
  <1>2. query' \in Points
    BY <1>1 DEF Return
  <1>3. QED
    BY <1>1, <1>2 DEF Return

LEMMA AnswerKeeps ==
    ASSUME GInv, Answer
    PROVE  GInv'
  <1>1. /\ UNCHANGED <<level, links, entry, maxLevel, points, moves, graph>>
        /\ op = "search"
    BY DEF Answer, graph, slots
  <1>2. /\ step' = "idle" /\ op' = "none" /\ query' \in Points /\ ef' \in Nat
        /\ layer' \in Layers /\ at' = NoNode
        /\ frontier' = {} /\ best' = {} /\ visited' = {} /\ todo' = {}
    BY ReturnTypes DEF Answer
  <1>3. Nodes' = Nodes /\ New' = New
    BY <1>1 DEF Nodes, New
  <1>4. TypeOK'
    BY <1>1, <1>2, <1>3 DEF GInv, TypeOK
  <1>5. GraphOK'
    BY <1>1, SameGraph
  <1>6. NewIsUnseen' /\ CallOK'
    BY <1>2 DEF NewIsUnseen, CallOK, Searching
  <1>7. QED
    BY <1>4, <1>5, <1>6 DEF GInv

\* One list replaced by a valid one.
LEMMA OneListKeepsGraph ==
    ASSUME GInv, NEW n \in Nodes, NEW l \in Layers, NEW S \in SUBSET Nodes,
           links' = [links EXCEPT ![n][l] = S],
           UNCHANGED <<level, entry, maxLevel, op>>,
           Cardinality(S) <= Limit(l),
           \A m \in S : m # n /\ level[m] >= l,
           l > level[n] => S = {}
    PROVE  GraphOK'
  <1>1. \A a \in Nodes, b \in Layers :
            links'[a][b] = IF a = n /\ b = l THEN S ELSE links[a][b]
    BY OneList DEF GInv
  <1>2. Nodes' = Nodes /\ New' = New /\ level' = level
    BY DEF Nodes, New
  <1>3. ASSUME NEW a \in Nodes, NEW b \in Layers
        PROVE  ValidList(a, b)'
    <2>1. ValidList(a, b)
      BY DEF GInv, GraphOK
    <2>2. /\ Cardinality(links'[a][b]) <= Limit(b)
          /\ \A m \in links'[a][b] : m # a /\ level'[m] >= b
          /\ b > level'[a] => links'[a][b] = {}
      <3>1. CASE a = n /\ b = l
        BY <1>1, <1>2, <3>1
      <3>2. CASE ~(a = n /\ b = l)
        BY <1>1, <1>2, <2>1, <3>2 DEF ValidList
      <3>3. QED
        BY <3>1, <3>2
    <2>3. QED
      BY <2>2 DEF ValidList, Limit
  <1>4. QED
    BY <1>2, <1>3 DEF GInv, GraphOK

\* What the steps of an add that change a list have in common.
LEMMA AddFacts ==
    ASSUME GInv, op = "add", Searching
    PROVE  /\ best # {} /\ best \subseteq Nodes /\ IsFiniteSet(best)
           /\ New \in Nodes /\ New \notin best
           /\ layer \in Layers /\ layer <= level[New] /\ level[New] \in Int
           /\ \A m \in best : level[m] >= layer
  <1>1. best \subseteq Nodes /\ IsFiniteSet(best) /\ layer \in Layers
    BY NodesFinite DEF GInv, TypeOK
  <1>2. /\ best # {} /\ best \subseteq visited /\ layer <= level[New]
        /\ \A m \in visited : level[m] >= layer
        /\ entry # NoNode
    BY DEF GInv, CallOK, Searching
  <1>3. New \notin visited
    BY DEF GInv, NewIsUnseen
  <1>4. New \in Nodes
    BY <1>2 DEF GInv, TypeOK, Nodes, New
  <1>5. level[New] \in Int
    BY <1>4, LevelsAreLayers DEF GInv, Layers
  <1>6. QED
    BY <1>1, <1>2, <1>3, <1>4, <1>5

LEMMA ConnectKeeps ==
    ASSUME GInv, Connect
    PROVE  GInv'
  <1>1. /\ UNCHANGED <<level, entry, maxLevel, points, moves, op, query, ef>>
        /\ UNCHANGED <<layer, at, frontier, best, visited>>
        /\ step = "expand" /\ op = "add" /\ step' = "link"
    BY DEF Connect, slots, request, scratch
  <1>2. PICK chosen \in Selections(best, query, Limit(layer)) :
            links' = [links EXCEPT ![New][layer] = chosen] /\ todo' = chosen
    BY DEF Connect
  <1>3. /\ best # {} /\ best \subseteq Nodes /\ IsFiniteSet(best)
        /\ New \in Nodes /\ New \notin best
        /\ layer \in Layers /\ layer <= level[New] /\ level[New] \in Int
        /\ \A m \in best : level[m] >= layer
    BY <1>1, AddFacts DEF Searching
  <1>4. chosen \subseteq best /\ Cardinality(chosen) <= Limit(layer)
    BY <1>2, <1>3, LimitPositive, SelectionBounded
  <1>5. Nodes' = Nodes /\ New' = New
    BY <1>1 DEF Nodes, New
  <1>6. /\ links' \in Seq([Layers -> SUBSET Nodes]) /\ Len(links') = Len(links)
        /\ \A a \in Nodes, b \in Layers :
               links'[a][b] = IF a = New /\ b = layer THEN chosen ELSE links[a][b]
    <2>1. TypeOK /\ chosen \in SUBSET Nodes
      BY <1>3, <1>4 DEF GInv
    <2>2. QED
      BY <1>2, <1>3, <2>1, OneList, ZenonT(30)
  <1>7. TypeOK'
    BY <1>1, <1>2, <1>3, <1>4, <1>5, <1>6 DEF GInv, TypeOK
  <1>8. GraphOK'
    <2>1. ~(layer > level[New]) /\ \A m \in chosen : m # New /\ level[m] >= layer
      BY <1>3, <1>4 DEF Layers
    <2>2. QED
      BY <1>1, <1>2, <1>3, <1>4, <2>1, OneListKeepsGraph
  <1>9. NewIsUnseen'
    <2>1. \A a \in Nodes, b \in Layers : New \in links'[a][b] => New \in links[a][b]
      BY <1>3, <1>4, <1>6
    <2>2. QED
      BY <1>1, <1>5, <2>1 DEF GInv, NewIsUnseen
  <1>10. CallOK'
    BY <1>1, <1>2, <1>4, <1>5 DEF GInv, CallOK, Searching
  <1>11. QED
    BY <1>7, <1>8, <1>9, <1>10 DEF GInv

\* The list that the edge back leaves at n: its own neighbours and the new
\* node, within the limit, and never empty.
LEMMA LinkChoice ==
    ASSUME GInv, NEW n \in Nodes, NEW l \in Layers, New \in Nodes,
           NEW kept \in IF Cardinality(links[n][l]) < Limit(l)
                        THEN {links[n][l] \cup {New}}
                        ELSE Selections(links[n][l] \cup {New}, points[n], Limit(l))
    PROVE  /\ kept \subseteq links[n][l] \cup {New}
           /\ kept \subseteq Nodes
           /\ Cardinality(kept) <= Limit(l)
           /\ kept # {}
  <1> DEFINE list == links[n][l]
  <1>1. list \subseteq Nodes
    BY DEF GInv, TypeOK, Nodes
  <1>2. IsFiniteSet(list) /\ Cardinality(list) \in Nat /\ IsFiniteSet(list \cup {New})
    BY <1>1, NodesFinite, FS_AddElement DEF GInv
  <1>3. Limit(l) \in Nat \ {0}
    BY LimitPositive
  <1>4. CASE Cardinality(list) < Limit(l)
    <2>1. kept = list \cup {New}
      BY <1>4
    <2>2. Cardinality(list \cup {New}) <= Cardinality(list) + 1
      <3>1. \/ Cardinality(list \cup {New}) = Cardinality(list)
            \/ Cardinality(list \cup {New}) = Cardinality(list) + 1
        BY <1>2, FS_AddElement
      <3>2. QED
        BY <1>2, <3>1
    <2>3. Cardinality(list \cup {New}) \in Nat
      BY <1>2, FS_CardinalityType
    <2> HIDE DEF list
    <2>4. Cardinality(kept) <= Limit(l)
      BY <1>2, <1>3, <1>4, <2>1, <2>2, <2>3
    <2>5. QED
      BY <1>1, <2>1, <2>4 DEF list
  <1>5. CASE ~(Cardinality(list) < Limit(l))
    <2>1. kept \in Selections(list \cup {New}, points[n], Limit(l))
      BY <1>5
    <2> HIDE DEF list
    <2>2. /\ kept \subseteq list \cup {New} /\ Cardinality(kept) <= Limit(l)
          /\ list \cup {New} # {} => kept # {}
      BY <1>2, <1>3, <2>1, SelectionBounded
    <2>3. QED
      BY <1>1, <2>2 DEF list
  <1>6. QED
    BY <1>4, <1>5

LEMMA LinkBackKeeps ==
    ASSUME GInv, LinkBack
    PROVE  GInv'
  <1>1. /\ UNCHANGED <<level, entry, maxLevel, points, moves, op, query, ef>>
        /\ UNCHANGED <<layer, at, frontier, best, visited, step>>
        /\ step = "link"
    BY DEF LinkBack, slots, request, scratch
  <1>2. op = "add" /\ todo \subseteq best
    BY <1>1 DEF GInv, CallOK
  <1>3. /\ best # {} /\ best \subseteq Nodes
        /\ New \in Nodes /\ New \notin best
        /\ layer \in Layers /\ layer <= level[New] /\ level[New] \in Int
        /\ \A m \in best : level[m] >= layer
    BY <1>1, <1>2, AddFacts DEF Searching
  <1>4. PICK n \in todo : Link(n) /\ todo' = todo \ {n}
    BY DEF LinkBack
  <1>5. n \in Nodes /\ n # New /\ level[n] >= layer
    BY <1>2, <1>3
  <1>6. PICK kept \in IF Cardinality(links[n][layer]) < Limit(layer)
                      THEN {links[n][layer] \cup {New}}
                      ELSE Selections(links[n][layer] \cup {New}, points[n], Limit(layer)) :
            links' = [links EXCEPT ![n][layer] = kept]
    BY <1>4 DEF Link
  <1>7. /\ kept \subseteq links[n][layer] \cup {New} /\ kept \subseteq Nodes
        /\ Cardinality(kept) <= Limit(layer)
    BY <1>3, <1>5, <1>6, LinkChoice
  <1>8. Nodes' = Nodes /\ New' = New
    BY <1>1 DEF Nodes, New
  <1>9. /\ links' \in Seq([Layers -> SUBSET Nodes]) /\ Len(links') = Len(links)
        /\ \A a \in Nodes, b \in Layers :
               links'[a][b] = IF a = n /\ b = layer THEN kept ELSE links[a][b]
    <2>1. TypeOK /\ kept \in SUBSET Nodes
      BY <1>7 DEF GInv
    <2>2. QED
      BY <1>3, <1>5, <1>6, <2>1, OneList, ZenonT(30)
  <1>10. TypeOK'
    BY <1>1, <1>4, <1>8, <1>9 DEF GInv, TypeOK
  <1>11. GraphOK'
    <2>1. \A m \in links[n][layer] : m # n /\ level[m] >= layer
      BY <1>3, <1>5 DEF GInv, GraphOK, ValidList
    <2>2. level[n] \in Int /\ layer \in Int
      BY <1>3, <1>5, LevelsAreLayers DEF GInv, Layers
    <2>3. /\ ~(layer > level[n])
          /\ \A m \in kept : m # n /\ level[m] >= layer
      BY <1>3, <1>5, <1>7, <2>1, <2>2
    <2>4. QED
      BY <1>1, <1>3, <1>5, <1>6, <1>7, <2>3, OneListKeepsGraph
  <1>12. NewIsUnseen'
    <2>1. \A a \in Nodes, b \in Layers :
              New \in links'[a][b] => New \in links[a][b] \/ b = layer
      BY <1>9
    <2>2. QED
      BY <1>1, <1>8, <2>1 DEF GInv, NewIsUnseen
  <1>13. CallOK'
    BY <1>1, <1>2, <1>4, <1>8 DEF GInv, CallOK, Searching
  <1>14. QED
    BY <1>10, <1>11, <1>12, <1>13 DEF GInv

LEMMA NextLayerKeeps ==
    ASSUME GInv, NextLayer
    PROVE  GInv'
  <1>1. /\ UNCHANGED <<level, links, entry, maxLevel, points, moves, op, query, ef>>
        /\ UNCHANGED <<at, todo, graph>>
        /\ frontier' = best /\ best' = best /\ visited' = best /\ step' = "expand"
        /\ step = "link" /\ layer > 0 /\ layer' = layer - 1
    BY DEF NextLayer, Enter, graph, slots, request
  <1>2. Nodes' = Nodes /\ New' = New /\ op = "add"
    BY <1>1 DEF Nodes, New, GInv, CallOK
  <1>3. /\ best # {} /\ best \subseteq Nodes
        /\ New \in Nodes /\ New \notin best
        /\ layer \in Layers /\ layer <= level[New] /\ level[New] \in Int
        /\ \A m \in best : level[m] >= layer
    BY <1>1, <1>2, AddFacts DEF Searching
  <1>4. layer' \in Layers /\ \A l \in Layers : l > layer \/ l = layer => l > layer'
    BY <1>1, <1>3, GraphAssumption DEF Layers
  <1>5. TypeOK'
    BY <1>1, <1>2, <1>4 DEF GInv, TypeOK
  <1>6. GraphOK'
    BY <1>1, SameGraph
  <1>7. NewIsUnseen'
    BY <1>1, <1>2, <1>3, <1>4 DEF GInv, NewIsUnseen
  <1>8. CallOK'
    <2>1. maxLevel \in Int /\ layer \in Int /\ \A m \in best : level[m] \in Int
      BY <1>3, LevelsAreLayers DEF GInv, Layers
    <2>2. /\ layer' <= maxLevel' /\ layer' <= level'[New']
          /\ \A m \in visited' : level'[m] >= layer'
      BY <1>1, <1>2, <1>3, <2>1 DEF GInv, CallOK
    <2>3. QED
      BY <1>1, <1>2, <1>3, <2>2 DEF GInv, CallOK, Searching
  <1>9. QED
    BY <1>5, <1>6, <1>7, <1>8 DEF GInv

\* The new node becomes the entry point if it reaches above the old one.
LEMMA AddedKeeps ==
    ASSUME GInv, Added
    PROVE  GInv'
  <1>1. UNCHANGED <<level, links, points, moves>> /\ step = "link"
    BY DEF Added, slots
  <1>2. /\ step' = "idle" /\ op' = "none" /\ query' \in Points /\ ef' \in Nat
        /\ layer' \in Layers /\ at' = NoNode
        /\ frontier' = {} /\ best' = {} /\ visited' = {} /\ todo' = {}
    BY ReturnTypes DEF Added
  <1>3. Nodes' = Nodes /\ New' = New /\ op = "add"
    BY <1>1 DEF Nodes, New, GInv, CallOK
  <1>4. /\ New \in Nodes /\ maxLevel \in Layers /\ entry \in Nodes
        /\ level[entry] = maxLevel /\ entry # NoNode /\ New # NoNode
        /\ \A n \in Nodes : level[n] \in Layers
    BY <1>1, <1>3 DEF GInv, TypeOK, GraphOK, CallOK, New, Nodes, NoNode
  <1>5. \/ level[New] > maxLevel /\ maxLevel' = level[New] /\ entry' = New
        \/ ~(level[New] > maxLevel) /\ maxLevel' = maxLevel /\ entry' = entry
    BY DEF Added
  <1>6. TypeOK'
    BY <1>1, <1>2, <1>3, <1>4, <1>5 DEF GInv, TypeOK
  <1>7. GraphOK'
    <2>1. \A n \in Nodes, l \in Layers : ValidList(n, l)'
      BY <1>1 DEF GInv, GraphOK, ValidList, Limit
    <2>2. entry' # NoNode /\ Nodes' # {} /\ level'[entry'] = maxLevel'
      BY <1>1, <1>3, <1>4, <1>5
    <2>3. \A n \in Nodes : level'[n] <= maxLevel'
      BY <1>1, <1>3, <1>4, <1>5 DEF GInv, GraphOK, Layers
    <2>4. QED
      BY <1>3, <2>1, <2>2, <2>3 DEF GraphOK
  <1>8. NewIsUnseen' /\ CallOK'
    BY <1>2 DEF NewIsUnseen, CallOK, Searching
  <1>9. QED
    BY <1>6, <1>7, <1>8 DEF GInv

LEMMA StutterKeeps ==
    ASSUME GInv, UNCHANGED vars
    PROVE  GInv'
  <1>1. /\ UNCHANGED <<level, links, entry, maxLevel, points, moves, op, query, ef>>
        /\ UNCHANGED <<layer, at, frontier, best, visited, todo, step, graph>>
    BY DEF vars, graph, slots, request, scratch
  <1>2. Nodes' = Nodes /\ New' = New
    BY <1>1 DEF Nodes, New
  <1>3. TypeOK'
    BY <1>1, <1>2 DEF GInv, TypeOK
  <1>4. GraphOK'
    BY <1>1, SameGraph
  <1>5. NewIsUnseen' /\ CallOK'
    BY <1>1, <1>2 DEF GInv, NewIsUnseen, CallOK, Searching
  <1>6. QED
    BY <1>3, <1>4, <1>5 DEF GInv

LEMMA NextKeeps == GInv /\ [Next]_vars => GInv'
  <1> SUFFICES ASSUME GInv, [Next]_vars PROVE GInv'
    OBVIOUS
  <1>1. CASE Call
    BY <1>1, AddKeeps, SearchKeeps, MoveKeeps DEF Call
  <1>2. CASE Work
    BY <1>2, DescendKeeps, EnterFirstKeeps, ExpandKeeps, VisitKeeps, AnswerKeeps,
       ConnectKeeps, LinkBackKeeps, NextLayerKeeps, AddedKeeps DEF Work
  <1>3. CASE UNCHANGED vars
    BY <1>3, StutterKeeps
  <1>4. QED
    BY <1>1, <1>2, <1>3 DEF Next

LEMMA GraphInvariant == Spec => []GInv
  BY InitGInv, NextKeeps, PTL DEF Spec

\* The state of add and search keeps its types.
THEOREM GraphTypeCorrectness == Spec => []TypeOK
  <1>1. GInv => TypeOK
    BY DEF GInv
  <1>2. QED
    BY <1>1, GraphInvariant, PTL

\* Whatever was added, replaced and searched for, under whatever distance, the
\* graph that write_hnsw_file writes between two calls is one read_hnsw_file
\* accepts.
THEOREM FileAcceptance == Spec => []ReaderAccepts
  <1>1. GInv => ReaderAccepts
    <2>1. SUFFICES ASSUME GInv, step = "idle"
                   PROVE  /\ \A n \in Nodes :
                                 /\ level[n] <= maxLevel
                                 /\ \A l \in Layers : ValidList(n, l)
                          /\ entry = NoNode <=> Nodes = {}
                          /\ Nodes # {} => level[entry] = maxLevel
      BY DEF ReaderAccepts
    <2>2. op = "none"
      BY <2>1 DEF GInv, CallOK
    <2>3. QED
      BY <2>1, <2>2 DEF GInv, GraphOK
  <1>2. QED
    BY <1>1, GraphInvariant, PTL

-----------------------------------------------------------------------------
\* No node is without neighbours on layer 0, except during an add: the new
\* one, and the only other one while the edge back to it is not made.
Linked(n) == links[n][0] # {}

LinkedInv ==
    /\ op # "add" /\ Len(level) > 1 => \A n \in Nodes : Linked(n)
    /\ op = "add" =>
           /\ \A n \in Nodes \ {New} :
                  \/ Linked(n)
                  \/ Len(level) = 2 /\ (step # "link" \/ layer > 0 \/ n \in todo)
           /\ step = "link" /\ layer = 0 => Linked(New)

\* A step that leaves the lists alone, and does not finish their linking.
LEMMA SameLinks ==
    ASSUME LinkedInv, UNCHANGED <<level, links>>, step' # "link",
           op' = "add" => op = "add", op' # "add" => op # "add"
    PROVE  LinkedInv'
  <1>1. Nodes' = Nodes /\ New' = New /\ \A n \in Nodes : Linked(n)' = Linked(n)
    BY DEF Nodes, New, Linked
  <1>2. QED
    BY <1>1 DEF LinkedInv

LEMMA AddLinked ==
    ASSUME GInv, LinkedInv, NEW p \in Points, NEW l \in Layers, Add(p, l)
    PROVE  LinkedInv'
  <1>1. /\ step = "idle" /\ level' = Append(level, l)
        /\ links' = Append(links, [x \in Layers |-> {}])
        /\ Len(level) \in Nat /\ Len(links) = Len(level) /\ op = "none"
    BY DEF Add, GInv, TypeOK, CallOK
  <1>2. /\ Len(level') = Len(level) + 1 /\ New' = Len(level) + 1
        /\ Nodes' = Nodes \cup {New'}
        /\ \A n \in Nodes : Linked(n)' = Linked(n)
    BY <1>1 DEF GInv, TypeOK, New, Nodes, Linked
  <1>3. CASE entry = NoNode
    <2>1. op' = op /\ Nodes = {}
      BY <1>3 DEF Add, request, GInv, GraphOK
    <2>2. Len(level') = 1
      BY <1>1, <1>2, <2>1 DEF Nodes
    <2>3. QED
      BY <1>1, <2>1, <2>2 DEF LinkedInv
  <1>4. CASE entry # NoNode
    <2>1. op' = "add" /\ step' = "descend" /\ Len(level) # 0
      BY <1>4 DEF Add, Begin, GInv, GraphOK, Nodes
    <2>2. \A n \in Nodes : Linked(n) \/ Len(level') = 2
      BY <1>1, <1>2, <2>1 DEF LinkedInv
    <2>3. QED
      BY <1>2, <2>1, <2>2 DEF LinkedInv
  <1>5. QED
    BY <1>3, <1>4

\* Layer 0 is where it matters: the new node finds somebody, and if there is
\* only one other node, finds that one.
LEMMA ConnectLinked ==
    ASSUME GInv, LinkedInv, Connect
    PROVE  LinkedInv'
  <1>1. UNCHANGED <<level, op, layer>> /\ step = "expand" /\ op = "add" /\ step' = "link"
    BY DEF Connect, request
  <1>2. PICK chosen \in Selections(best, query, Limit(layer)) :
            links' = [links EXCEPT ![New][layer] = chosen] /\ todo' = chosen
    BY DEF Connect
  <1>3. /\ best # {} /\ best \subseteq Nodes /\ IsFiniteSet(best)
        /\ New \in Nodes /\ New \notin best /\ layer \in Layers
    BY <1>1, AddFacts DEF Searching
  <1>4. chosen \subseteq best /\ chosen # {}
    BY <1>2, <1>3, LimitPositive, SelectionBounded
  <1>5. Nodes' = Nodes /\ New' = New
    BY <1>1 DEF Nodes, New
  <1>6. \A a \in Nodes, b \in Layers :
            links'[a][b] = IF a = New /\ b = layer THEN chosen ELSE links[a][b]
    <2>1. TypeOK /\ chosen \in SUBSET Nodes
      BY <1>3, <1>4 DEF GInv
    <2>2. QED
      BY <1>2, <1>3, <2>1, OneList, ZenonT(30)
  <1>7. 0 \in Layers /\ \A l \in Layers : l = 0 \/ l > 0
    BY GraphAssumption DEF Layers
  <1>8. \A n \in Nodes \ {New} : Linked(n)' = Linked(n)
    BY <1>5, <1>6, <1>7 DEF Linked
  <1>9. layer = 0 => Linked(New)'
    BY <1>3, <1>4, <1>5, <1>6 DEF Linked
  <1>10. Len(level) = 2 => \A n \in Nodes \ {New} : n \in chosen
    <2>1. Len(level) = 2 => \A n \in Nodes \ {New} : n = 1
      BY DEF Nodes, New
    <2>2. chosen \subseteq Nodes \ {New} /\ chosen # {}
      BY <1>3, <1>4
    <2>3. QED
      BY <2>1, <2>2
  <1>11. \A n \in Nodes \ {New} :
             \/ Linked(n)'
             \/ Len(level') = 2 /\ (layer' > 0 \/ n \in todo')
    BY <1>1, <1>2, <1>3, <1>7, <1>8, <1>10 DEF LinkedInv
  <1>12. QED
    BY <1>1, <1>5, <1>9, <1>11 DEF LinkedInv

LEMMA LinkBackLinked ==
    ASSUME GInv, LinkedInv, LinkBack
    PROVE  LinkedInv'
  <1>1. UNCHANGED <<level, op, layer, step>> /\ step = "link"
    BY DEF LinkBack, request
  <1>2. op = "add" /\ todo \subseteq best
    BY <1>1 DEF GInv, CallOK
  <1>3. best \subseteq Nodes /\ New \in Nodes /\ New \notin best /\ layer \in Layers
    BY <1>1, <1>2, AddFacts DEF Searching
  <1>4. PICK n \in todo : Link(n) /\ todo' = todo \ {n}
    BY DEF LinkBack
  <1>5. n \in Nodes /\ n # New
    BY <1>2, <1>3
  <1>6. PICK kept \in IF Cardinality(links[n][layer]) < Limit(layer)
                      THEN {links[n][layer] \cup {New}}
                      ELSE Selections(links[n][layer] \cup {New}, points[n], Limit(layer)) :
            links' = [links EXCEPT ![n][layer] = kept]
    BY <1>4 DEF Link
  <1>7. kept \subseteq Nodes /\ kept # {}
    BY <1>3, <1>5, <1>6, LinkChoice
  <1>8. \A a \in Nodes, b \in Layers :
            links'[a][b] = IF a = n /\ b = layer THEN kept ELSE links[a][b]
    <2>1. TypeOK /\ kept \in SUBSET Nodes
      BY <1>7 DEF GInv
    <2>2. QED
      BY <1>3, <1>5, <1>6, <2>1, OneList, ZenonT(30)
  <1>9. Nodes' = Nodes /\ New' = New
    BY <1>1 DEF Nodes, New
  <1>10. 0 \in Layers /\ \A l \in Layers : l = 0 \/ l > 0
    BY GraphAssumption DEF Layers
  <1>11. /\ \A a \in Nodes : Linked(a) => Linked(a)'
         /\ layer = 0 => Linked(n)'
    BY <1>5, <1>7, <1>8, <1>10 DEF Linked
  <1>12. \A a \in Nodes \ {New} :
             \/ Linked(a)'
             \/ Len(level') = 2 /\ (layer' > 0 \/ a \in todo')
    BY <1>1, <1>2, <1>3, <1>4, <1>10, <1>11 DEF LinkedInv
  <1>13. layer' = 0 => Linked(New)'
    BY <1>1, <1>2, <1>3, <1>9, <1>11 DEF LinkedInv, Linked
  <1>14. QED
    BY <1>1, <1>2, <1>9, <1>12, <1>13 DEF LinkedInv

LEMMA AddedLinked ==
    ASSUME GInv, LinkedInv, Added
    PROVE  LinkedInv'
  <1>1. UNCHANGED <<level, links>> /\ step = "link" /\ layer = 0 /\ todo = {} /\ op' = "none"
    BY DEF Added, Return
  <1>2. op = "add"
    BY <1>1 DEF GInv, CallOK
  <1>3. \A n \in Nodes : Linked(n)
    BY <1>1, <1>2 DEF LinkedInv
  <1>4. Nodes' = Nodes /\ \A n \in Nodes : Linked(n)' = Linked(n)
    BY <1>1 DEF Nodes, Linked
  <1>5. QED
    BY <1>1, <1>3, <1>4 DEF LinkedInv

LEMMA NextLinked == GInv /\ LinkedInv /\ [Next]_vars => LinkedInv'
  <1> SUFFICES ASSUME GInv, LinkedInv, [Next]_vars PROVE LinkedInv'
    OBVIOUS
  <1>1. CASE Call
    <2>1. ASSUME NEW p \in Points, NEW w \in EfSearch, Search(p, w) PROVE LinkedInv'
      BY <2>1, SameLinks DEF Search, Begin, graph, GInv, CallOK
    <2>2. ASSUME NEW n \in Nodes, NEW p \in Points, Move(n, p) PROVE LinkedInv'
      BY <2>2, SameLinks DEF Move, graph, request
    <2>3. QED
      BY <1>1, <2>1, <2>2, AddLinked DEF Call
  <1>2. CASE Descend
    BY <1>2, SameLinks DEF Descend, graph, request
  <1>3. CASE EnterFirst
    BY <1>3, SameLinks DEF EnterFirst, Enter, graph, request
  <1>4. CASE Expand
    BY <1>4, SameLinks DEF Expand, graph, request
  <1>5. ASSUME NEW n \in todo, Visit(n) PROVE LinkedInv'
    BY <1>5, SameLinks DEF Visit, graph, request
  <1>6. CASE Answer
    BY <1>6, SameLinks DEF Answer, Return, graph
  <1>7. CASE NextLayer
    BY <1>7, SameLinks DEF NextLayer, Enter, graph, request
  <1>8. CASE UNCHANGED vars
    <2>1. UNCHANGED <<level, links, op, step, layer, todo>>
      BY <1>8 DEF vars, graph, request
    <2>2. Nodes' = Nodes /\ New' = New /\ \A n \in Nodes : Linked(n)' = Linked(n)
      BY <2>1 DEF Nodes, New, Linked
    <2>3. Linked(New)' = Linked(New)
      BY <2>1 DEF New, Linked
    <2>4. QED
      BY <2>1, <2>2, <2>3 DEF LinkedInv
  <1>9. QED
    BY <1>1, <1>2, <1>3, <1>4, <1>5, <1>6, <1>7, <1>8, ConnectLinked, LinkBackLinked,
       AddedLinked DEF Next, Work

\* Whatever was added, replaced and pruned, no node of two or more is ever
\* left without a neighbour on layer 0.
THEOREM NoNodeIsolated == Spec => []NobodyIsolated
  <1>1. Init => LinkedInv
    BY DEF Init, LinkedInv
  <1>2. GInv /\ LinkedInv => NobodyIsolated
    BY DEF GInv, CallOK, LinkedInv, NobodyIsolated, Linked
  <1>3. QED
    BY <1>1, <1>2, NextLinked, GraphInvariant, PTL DEF Spec
-----------------------------------------------------------------------------
\* A finite set that is not empty has a member that an order puts before no
\* other.
LEMMA MaximalExists ==
    ASSUME NEW S, IsFiniteSet(S), S # {}, NEW R,
           \A x \in S : <<x, x>> \notin R,
           \A x, y, z \in S : <<x, y>> \in R /\ <<y, z>> \in R => <<x, z>> \in R
    PROVE  \E x \in S : \A y \in S : <<x, y>> \notin R
  <1> DEFINE After(x) == {y \in S : <<x, y>> \in R}
             Counts == {Cardinality(After(x)) : x \in S}
  <1>1. ASSUME NEW x \in S PROVE IsFiniteSet(After(x)) /\ Cardinality(After(x)) \in Nat
    BY FS_Subset, FS_CardinalityType
  <1>2. Counts \subseteq Nat /\ Counts # {}
    <2> HIDE DEF After
    <2>1. QED
      BY <1>1
  <1>3. PICK k \in Counts : \A j \in Counts : <<j, k>> \notin OpToRel(<, Nat)
    <2> HIDE DEF Counts
    <2>1. QED
      BY <1>2, WFMin, NatLessThanWellFounded
  <1>4. \A j \in Counts : ~(j < k)
    BY <1>2, <1>3 DEF OpToRel
  <1>5. PICK x \in S : k = Cardinality(After(x))
    OBVIOUS
  <1>6. ASSUME NEW y \in S, <<x, y>> \in R PROVE FALSE
    <2>1. After(y) \subseteq After(x) /\ y \in After(x) /\ y \notin After(y)
      BY <1>6
    <2> HIDE DEF After
    <2>2. /\ Cardinality(After(y)) \in Nat /\ Cardinality(After(x)) \in Nat
          /\ IsFiniteSet(After(x)) /\ Cardinality(After(y)) \in Counts
      BY <1>1
    <2> HIDE DEF Counts
    <2>3. /\ Cardinality(After(y)) <= Cardinality(After(x))
          /\ Cardinality(After(y)) # Cardinality(After(x))
      BY <2>1, <2>2, FS_Subset
    <2>4. QED
      BY <1>4, <1>5, <2>2, <2>3
  <1>7. QED
    BY <1>6

\* The distances from a vector order the nodes, the slot deciding a tie.
LEMMA BetterIsAnOrder ==
    ASSUME TypeOK, NEW p \in Points
    PROVE  /\ \A a \in Nodes : ~Better(p, a, a)
           /\ \A a, b \in Nodes : a # b => Better(p, a, b) \/ Better(p, b, a)
           /\ \A a, b, c \in Nodes : Better(p, a, b) /\ Better(p, b, c) => Better(p, a, c)
           /\ \A a, b \in Nodes : Better(p, a, b) => Dist(p, points[a]) <= Dist(p, points[b])
           /\ \A a, b \in Nodes : ~(Better(p, a, b) /\ Better(p, b, a))
  <1>1. \A a \in Nodes : Dist(p, points[a]) \in Int /\ a \in Int
    <2>1. \A a \in Nodes : points[a] \in Points /\ a \in Int
      BY DEF TypeOK, Nodes
    <2>2. QED
      BY <2>1, GraphAssumption
  <1>2. QED
    BY <1>1 DEF Better

\* The worst and the nearest of some nodes exist.
LEMMA WorstExists ==
    ASSUME TypeOK, NEW S \in SUBSET Nodes, S # {}
    PROVE  /\ Worst(S) \in S
           /\ \A m \in S : m = Worst(S) \/ Better(query, m, Worst(S))
  <1>1. query \in Points /\ IsFiniteSet(S)
    BY NodesFinite DEF TypeOK
  <1> DEFINE R == {e \in S \X S : Better(query, e[1], e[2])}
  <1>2. \A x \in S : <<x, x>> \notin R
    BY <1>1, BetterIsAnOrder
  <1>3. \A x, y, z \in S : <<x, y>> \in R /\ <<y, z>> \in R => <<x, z>> \in R
    BY <1>1, BetterIsAnOrder
  <1>4. PICK n \in S : \A m \in S : <<n, m>> \notin R
    <2> HIDE DEF R
    <2>1. QED
      BY <1>1, <1>2, <1>3, MaximalExists
  <1>5. \A m \in S : m = n \/ Better(query, m, n)
    BY <1>1, <1>4, BetterIsAnOrder
  <1>6. QED
    BY <1>5 DEF Worst

LEMMA NearestExists ==
    ASSUME TypeOK, NEW S \in SUBSET Nodes, S # {}
    PROVE  \E n \in Nearest(S) : \A m \in S : m = n \/ Better(query, n, m)
  <1>1. query \in Points /\ IsFiniteSet(S)
    BY NodesFinite DEF TypeOK
  <1> DEFINE R == {e \in S \X S : Better(query, e[2], e[1])}
  <1>2. \A x \in S : <<x, x>> \notin R
    BY <1>1, BetterIsAnOrder
  <1>3. \A x, y, z \in S : <<x, y>> \in R /\ <<y, z>> \in R => <<x, z>> \in R
    BY <1>1, BetterIsAnOrder
  <1>4. PICK n \in S : \A m \in S : <<n, m>> \notin R
    <2> HIDE DEF R
    <2>1. QED
      BY <1>1, <1>2, <1>3, MaximalExists
  <1>5. \A m \in S : m = n \/ Better(query, n, m)
    BY <1>1, <1>4, BetterIsAnOrder
  <1>6. QED
    BY <1>5 DEF Nearest

-----------------------------------------------------------------------------
\* What search_layer has seen and does not keep was refused or pushed out by a
\* full result, in which nobody is farther; and whom it keeps and has taken
\* from the frontier, all the neighbours of that node it has seen.
BeamInv ==
    /\ step \notin {"visit", "link"} => todo = {}
    /\ Searching => Cardinality(best) <= ef
    /\ step \in {"expand", "visit"} =>
           /\ \A m \in (visited \ best) \ todo :
                  Cardinality(best) = ef /\ \A b \in best : ~(Key(m) < Key(b))
           /\ \A n \in best \ frontier : links[n][layer] \subseteq visited

\* Outside search_layer there is nothing to keep, but the size of its result.
LEMMA OutsideBeam ==
    ASSUME BeamInv, UNCHANGED <<todo, ef>>,
           step' \in {"idle", "descend"}, step \in {"idle", "descend"}
    PROVE  BeamInv'
  BY DEF BeamInv, Searching

LEMMA EnterFirstBeam ==
    ASSUME GInv, BeamInv, EnterFirst
    PROVE  BeamInv'
  <1>1. /\ frontier' = {at} /\ best' = {at} /\ visited' = {at} /\ step' = "expand"
        /\ step = "descend" /\ todo' = todo /\ ef' = ef
    BY DEF EnterFirst, Enter, request
  <1>2. todo = {} /\ ef >= 1
    BY <1>1 DEF GInv, CallOK, BeamInv
  <1>3. Cardinality({at}) = 1
    BY FS_Singleton
  <1>4. Cardinality(best') <= ef'
    BY <1>1, <1>2, <1>3
  <1>5. QED
    BY <1>1, <1>2, <1>4 DEF BeamInv

\* All the neighbours of the node taken from the frontier are seen now, and
\* the new ones among them are still to be visited.
LEMMA ExpandBeam ==
    ASSUME GInv, BeamInv, Expand
    PROVE  BeamInv'
  <1>1. /\ UNCHANGED <<links, points, query, ef, layer, best>>
        /\ step = "expand"
        /\ step' = IF todo' = {} THEN "expand" ELSE "visit"
    BY DEF Expand, graph, slots, request
  <1>2. PICK n \in frontier : /\ frontier' = frontier \ {n}
                              /\ todo' = links[n][layer] \ visited
                              /\ visited' = visited \cup links[n][layer]
    BY DEF Expand, Nearest
  <1>3. todo = {} /\ Cardinality(best) <= ef
    BY <1>1 DEF BeamInv, Searching
  <1>4. ASSUME NEW m \in (visited' \ best') \ todo'
        PROVE  Cardinality(best') = ef' /\ \A b \in best' : ~(Key(m)' < Key(b)')
    <2>1. m \in (visited \ best) \ todo
      BY <1>1, <1>2, <1>3, <1>4
    <2>2. Cardinality(best) = ef /\ \A b \in best : ~(Key(m) < Key(b))
      BY <1>1, <2>1 DEF BeamInv
    <2>3. QED
      BY <1>1, <2>2 DEF Key
  <1>5. ASSUME NEW a \in best' \ frontier' PROVE links'[a][layer'] \subseteq visited'
    BY <1>1, <1>2 DEF BeamInv
  <1>6. /\ step' \notin {"visit", "link"} => todo' = {}
        /\ Cardinality(best') <= ef'
    BY <1>1, <1>3
  <1>7. QED
    BY <1>4, <1>5, <1>6 DEF BeamInv

\* The visited node is kept, at the price of the worst if the result is full,
\* or it is not nearer than anybody in a full result.
LEMMA VisitBeam ==
    ASSUME GInv, BeamInv, NEW n \in todo, Visit(n)
    PROVE  BeamInv'
  <1>1. /\ UNCHANGED <<links, points, query, ef, layer, visited>>
        /\ step = "visit" /\ todo' = todo \ {n}
        /\ step' = IF todo' = {} THEN "expand" ELSE "visit"
    BY DEF Visit, graph, slots, request
  <1>2. /\ TypeOK /\ best # {} /\ best \in SUBSET Nodes /\ n \in Nodes /\ visited \subseteq Nodes
        /\ query \in Points /\ ef \in Nat /\ ef >= 1
        /\ IsFiniteSet(best) /\ Cardinality(best) \in Nat
    BY <1>1, NodesFinite DEF GInv, CallOK, Searching, TypeOK
  <1>3. Cardinality(best) <= ef
    BY <1>1 DEF BeamInv, Searching
  <1>4. \A m \in (visited \ best) \ todo :
            Cardinality(best) = ef /\ \A b \in best : ~(Key(m) < Key(b))
    BY <1>1 DEF BeamInv
  <1>5. \A a \in best \ frontier : links[a][layer] \subseteq visited
    BY <1>1 DEF BeamInv
  <1>6. \A a \in Nodes : Key(a) \in Int
    <2>1. \A a \in Nodes : points[a] \in Points
      BY <1>2 DEF TypeOK, Nodes
    <2>2. QED
      BY <1>2, <2>1, GraphAssumption DEF Key
  <1>7. /\ Worst(best) \in best
        /\ \A b \in best : Key(b) <= Key(Worst(best))
    <2>1. /\ Worst(best) \in best
          /\ \A b \in best : b = Worst(best) \/ Better(query, b, Worst(best))
      BY <1>2, WorstExists
    <2>2. \A b \in best : b # Worst(best) => Key(b) <= Key(Worst(best))
      BY <1>2, <2>1, BetterIsAnOrder DEF Key
    <2>3. QED
      BY <1>2, <1>6, <2>1, <2>2
  <1>8. /\ Cardinality(best') <= ef
        /\ \A m \in (visited \ best') \ todo' :
               Cardinality(best') = ef /\ \A b \in best' : ~(Key(m) < Key(b))
        /\ \A a \in best' \ frontier' : a \in best \ frontier
    <2> DEFINE S == best \cup {n}
    <2>1. /\ S \in SUBSET Nodes /\ IsFiniteSet(S) /\ Cardinality(S) \in Nat
          /\ Cardinality(S) = IF n \in best THEN Cardinality(best) ELSE Cardinality(best) + 1
      BY <1>2, NodesFinite, FS_AddElement
    <2>2. CASE ~(Cardinality(best) < ef \/ Key(n) < Key(Worst(best)))
      <3>1. UNCHANGED <<frontier, best>> /\ Cardinality(best) = ef
        BY <1>2, <1>3, <2>2 DEF Visit
      <3>2. \A b \in best : ~(Key(n) < Key(b))
        BY <1>2, <1>6, <1>7, <2>2
      <3>3. QED
        BY <1>1, <1>3, <1>4, <3>1, <3>2
    <2>3. CASE (Cardinality(best) < ef \/ Key(n) < Key(Worst(best))) /\ ~(Cardinality(S) > ef)
      <3>1. frontier' = frontier \cup {n} /\ best' = S
        BY <2>3 DEF Visit, Keep
      <3>2. ASSUME NEW m \in (visited \ best') \ todo'
            PROVE  Cardinality(best') = ef /\ \A b \in best' : ~(Key(m) < Key(b))
        <4>1. m \in (visited \ best) \ todo /\ m \in Nodes
          BY <1>1, <1>2, <3>1
        <4>2. Cardinality(best) = ef /\ \A b \in best : ~(Key(m) < Key(b))
          BY <1>4, <4>1
        <4>3. n \in best
          BY <1>2, <2>1, <2>3, <4>2
        <4>4. QED
          BY <3>1, <4>2, <4>3
      <3>3. Cardinality(best') <= ef
        BY <1>2, <2>1, <2>3, <3>1
      <3>4. QED
        BY <3>1, <3>2, <3>3
    <2>4. CASE (Cardinality(best) < ef \/ Key(n) < Key(Worst(best))) /\ Cardinality(S) > ef
      <3>1. frontier' = frontier \cup {n} /\ best' = S \ {Worst(S)}
        BY <2>4 DEF Visit, Keep
      <3>2. n \notin best /\ Cardinality(best) = ef /\ Key(n) < Key(Worst(best))
        BY <1>2, <1>3, <2>1, <2>4
      <3> DEFINE w == Worst(S)
      <3>3. w \in S /\ \A b \in S : b = w \/ Better(query, b, w)
        BY <1>2, <2>1, WorstExists
      <3> HIDE DEF w
      <3>4. \A b \in S : Key(b) <= Key(w)
        <4>1. \A b \in S : b # w => Key(b) <= Key(w)
          BY <1>2, <2>1, <3>3, BetterIsAnOrder DEF Key
        <4>2. QED
          BY <1>6, <2>1, <3>3, <4>1
      <3>5. w \in best
        BY <1>2, <1>6, <1>7, <3>2, <3>3, <3>4
      <3>6. best' = S \ {w} /\ Cardinality(best') = ef
        <4>1. best' = S \ {w}
          BY <3>1 DEF w
        <4>2. Cardinality(S \ {w}) = Cardinality(S) - 1
          BY <2>1, <3>3, FS_RemoveElement
        <4>3. QED
          BY <1>2, <2>1, <3>2, <4>1, <4>2
      <3>7. ASSUME NEW m \in (visited \ best') \ todo', NEW b \in best'
            PROVE  ~(Key(m) < Key(b))
        <4>1. m \in Nodes /\ b \in Nodes /\ w \in Nodes /\ Key(b) <= Key(w)
          BY <1>2, <3>4, <3>5, <3>6
        <4>2. CASE m = w
          BY <1>6, <4>1, <4>2
        <4>3. CASE m # w
          <5>1. m \in (visited \ best) \ todo
            BY <1>1, <3>6, <4>3
          <5>2. ~(Key(m) < Key(w))
            BY <1>4, <3>5, <5>1
          <5>3. QED
            BY <1>6, <4>1, <5>2
        <4>4. QED
          BY <4>2, <4>3
      <3>8. \A a \in best' \ frontier' : a \in best \ frontier
        BY <3>1
      <3>9. QED
        BY <1>2, <3>6, <3>7, <3>8
    <2>5. QED
      BY <2>2, <2>3, <2>4
  <1>9. \A a \in best' \ frontier' : links'[a][layer'] \subseteq visited'
    BY <1>1, <1>5, <1>8
  <1>10. /\ \A m \in (visited' \ best') \ todo' :
                Cardinality(best') = ef' /\ \A b \in best' : ~(Key(m)' < Key(b)')
         /\ Cardinality(best') <= ef'
         /\ step' \notin {"visit", "link"} => todo' = {}
    BY <1>1, <1>8 DEF Key
  <1>11. QED
    BY <1>9, <1>10 DEF BeamInv

\* The layer below is entered with what was found, which is not too much.
LEMMA NextLayerBeam ==
    ASSUME BeamInv, NextLayer
    PROVE  BeamInv'
  <1>1. /\ frontier' = best /\ best' = best /\ visited' = best /\ step' = "expand"
        /\ step = "link" /\ todo' = {} /\ ef' = ef
    BY DEF NextLayer, Enter, request
  <1>2. Cardinality(best) <= ef
    BY <1>1 DEF BeamInv, Searching
  <1>3. QED
    BY <1>1, <1>2 DEF BeamInv

LEMMA NextBeam == GInv /\ BeamInv /\ [Next]_vars => BeamInv'
  <1> SUFFICES ASSUME GInv, BeamInv, [Next]_vars PROVE BeamInv'
    OBVIOUS
  <1>1. CASE Call
    <2>1. ASSUME NEW p \in Points, NEW l \in Layers, Add(p, l) PROVE BeamInv'
      BY <2>1 DEF Add, Begin, request, scratch, BeamInv, Searching
    <2>2. ASSUME NEW p \in Points, NEW w \in EfSearch, Search(p, w) PROVE BeamInv'
      BY <2>2 DEF Search, Begin, scratch, BeamInv, Searching
    <2>3. ASSUME NEW n \in Nodes, NEW p \in Points, Move(n, p) PROVE BeamInv'
      BY <2>3, OutsideBeam DEF Move, graph, request
    <2>4. QED
      BY <1>1, <2>1, <2>2, <2>3 DEF Call
  <1>2. CASE Descend
    BY <1>2, OutsideBeam DEF Descend, graph, request
  <1>3. CASE Answer
    BY <1>3 DEF Answer, Return, BeamInv, Searching
  <1>4. CASE Connect
    BY <1>4 DEF Connect, BeamInv, Searching, request, scratch
  <1>5. CASE LinkBack
    BY <1>5 DEF LinkBack, BeamInv, Searching, request, scratch
  <1>6. CASE Added
    BY <1>6 DEF Added, Return, BeamInv, Searching
  <1>7. CASE UNCHANGED vars
    BY <1>7 DEF vars, slots, graph, request, scratch, BeamInv, Searching, Key
  <1>8. QED
    BY <1>1, <1>2, <1>3, <1>4, <1>5, <1>6, <1>7, EnterFirstBeam, ExpandBeam, VisitBeam,
       NextLayerBeam DEF Next, Work

\* Nobody in the result waits in the frontier once the search of the layer may
\* end: he would be no worse than the worst of a full result.
LEMMA NobodyWaits ==
    ASSUME GInv, step = "expand", Exhausted
    PROVE  best \cap frontier = {}
  <1>1. /\ TypeOK /\ query \in Points /\ best # {}
        /\ best \in SUBSET Nodes /\ frontier \in SUBSET Nodes
    BY DEF GInv, CallOK, Searching, TypeOK
  <1>2. CASE frontier = {}
    BY <1>2
  <1>3. CASE frontier # {}
    <2>1. PICK x \in Nearest(frontier) : \A m \in frontier : m = x \/ Better(query, x, m)
      BY <1>1, <1>3, NearestExists
    <2>2. PICK w \in best : /\ w = Worst(best)
                            /\ \A m \in best : m = w \/ Better(query, m, w)
      BY <1>1, WorstExists
    <2>3. Better(query, w, x) /\ x \in Nodes
      BY <1>1, <1>3, <2>1, <2>2 DEF Exhausted, Nearest
    <2>4. ASSUME NEW n \in best \cap frontier PROVE FALSE
      <3>1. n \in Nodes /\ w \in Nodes
        BY <1>1, <2>2
      <3>2. Better(query, w, n)
        BY <1>1, <2>1, <2>3, <3>1, BetterIsAnOrder
      <3>3. n = w \/ Better(query, n, w)
        BY <2>2
      <3>4. QED
        BY <1>1, <3>1, <3>2, <3>3, BetterIsAnOrder
    <2>5. QED
      BY <2>4
  <1>4. QED
    BY <1>2, <1>3

\* For every distance, width and graph, what search_layer returns is closed:
\* no neighbour of what it keeps could improve it, and it keeps no more than
\* it was asked for.
THEOREM BeamClosed == Spec => []BeamIsClosed
  <1>1. Init => BeamInv
    BY DEF Init, BeamInv, Searching
  <1>2. GInv /\ BeamInv => BeamIsClosed
    <2> SUFFICES ASSUME GInv, BeamInv, step = "expand", Exhausted
                 PROVE  /\ Cardinality(best) <= ef
                        /\ \A n \in best : \A m \in links[n][layer] \ best :
                               Cardinality(best) = ef /\ ~(Key(m) < Key(Worst(best)))
      BY DEF BeamIsClosed
    <2>1. Worst(best) \in best
      BY WorstExists DEF GInv, TypeOK, CallOK, Searching
    <2>2. \A n \in best : links[n][layer] \subseteq visited /\ todo = {}
      BY NobodyWaits DEF BeamInv
    <2>3. QED
      BY <2>1, <2>2 DEF BeamInv, Searching
  <1>3. QED
    BY <1>1, <1>2, NextBeam, GraphInvariant, PTL DEF Spec
=============================================================================
