----------------------- MODULE ConcurrentDatabaseProofs -----------------------
(***************************************************************************)
(* For any number of threads, any workload and any metric: reads are       *)
(* atomic, an exact search returns the k best matches of one version of    *)
(* the database, and searches of parts of a store merge to the search of   *)
(* all of it.                                                              *)
(*                                                                         *)
(* The collector comes first: what Offer keeps of a set of candidates,     *)
(* then the loops over it (search_range, merge_top_k), then Results, then  *)
(* the invariant of the threads around them.                               *)
(***************************************************************************)
EXTENDS ConcurrentDatabase, VectorStoreProofs, SequenceTheorems, WellFoundedInduction

(***************************************************************************)
(* The collector                                                           *)
(***************************************************************************)
Candidate == [slot : Nat, key : Int]

\* Distance orders candidates, the slot deciding a tie.
LEMMA BetterIsAnOrder ==
    /\ \A c \in Candidate : ~Better(c, c)
    /\ \A c, d \in Candidate : c # d => Better(c, d) \/ Better(d, c)
    /\ \A c, d \in Candidate : ~(Better(c, d) /\ Better(d, c))
    /\ \A c, d, e \in Candidate : Better(c, d) /\ Better(d, e) => Better(c, e)
  BY DEF Candidate, Better

\* The candidates of a set that come before one, and their number.
Nearer(S, c) == {o \in S : Better(o, c)}

Rank(S, c) == Cardinality(Nearer(S, c))

\* The ranks of n candidates are 0 to n - 1, in their order.
LEMMA RanksAreCovered ==
    ASSUME NEW S \in SUBSET Candidate, IsFiniteSet(S)
    PROVE  /\ Cardinality(S) \in Nat
           /\ \A c \in S : Rank(S, c) \in 0 .. Cardinality(S) - 1
           /\ \A c, d \in S : Better(c, d) => Rank(S, c) < Rank(S, d)
           /\ \A n \in 0 .. Cardinality(S) - 1 : \E c \in S : Rank(S, c) = n
  <1>1. Cardinality(S) \in Nat
    BY FS_CardinalityType
  <1>2. ASSUME NEW c \in S
        PROVE  IsFiniteSet(Nearer(S, c)) /\ Rank(S, c) \in 0 .. Cardinality(S) - 1
    <2>1. Nearer(S, c) \in SUBSET S /\ c \notin Nearer(S, c)
      BY BetterIsAnOrder DEF Nearer
    <2>2. /\ IsFiniteSet(Nearer(S, c)) /\ Rank(S, c) \in Nat
          /\ Rank(S, c) <= Cardinality(S) /\ Rank(S, c) # Cardinality(S)
      BY <2>1, FS_Subset, FS_CardinalityType DEF Rank
    <2>3. QED
      BY <1>1, <2>2
  <1>3. ASSUME NEW c \in S, NEW d \in S, Better(c, d)
        PROVE  Rank(S, c) < Rank(S, d)
    <2>1. Nearer(S, c) \subseteq Nearer(S, d) /\ c \in Nearer(S, d) /\ c \notin Nearer(S, c)
      BY <1>3, BetterIsAnOrder DEF Nearer
    <2>2. IsFiniteSet(Nearer(S, d)) /\ Rank(S, c) \in Nat /\ Rank(S, d) \in Nat
      BY <1>2
    <2>3. Rank(S, c) <= Rank(S, d) /\ Rank(S, c) # Rank(S, d)
      BY <2>1, <2>2, FS_Subset DEF Rank
    <2>4. QED
      BY <2>2, <2>3
  <1>4. ASSUME NEW n \in 0 .. Cardinality(S) - 1 PROVE \E c \in S : Rank(S, c) = n
    <2> DEFINE T == 0 .. Cardinality(S) - 1
               f == [c \in S |-> Rank(S, c)]
    <2>1. f \in [S -> T]
      BY <1>2
    <2>2. \A c, d \in S : c # d => f[c] # f[d]
      <3>1. \A c, d \in S : c # d => Rank(S, c) < Rank(S, d) \/ Rank(S, d) < Rank(S, c)
        BY <1>3, BetterIsAnOrder
      <3>2. \A c \in S : Rank(S, c) \in Int
        BY <1>2
      <3>3. QED
        BY <3>1, <3>2
    <2>3. f \in Injection(S, T)
      BY <2>1, <2>2 DEF Injection, IsInjective
    <2>4. IsFiniteSet(T) /\ Cardinality(T) = Cardinality(S)
      BY <1>1, FS_Interval
    <2>5. f \in Surjection(S, T)
      <3> HIDE DEF f, T
      <3>1. QED
        BY <2>3, <2>4, FS_Injection
    <2>6. \E c \in S : f[c] = n
      BY <2>5 DEF Surjection
    <2>7. QED
      BY <2>6
  <1>5. QED
    BY <1>1, <1>2, <1>3, <1>4

\* take_sorted lists all of them, each once, the better before the worse.
LEMMA TakeSortedSorts ==
    ASSUME NEW S \in SUBSET Candidate, IsFiniteSet(S)
    PROVE  /\ Cardinality(S) \in Nat
           /\ TakeSorted(S) \in Seq(S) /\ Len(TakeSorted(S)) = Cardinality(S)
           /\ \A i \in 1 .. Cardinality(S) : TakeSorted(S)[i] \in S
           /\ \A i, j \in 1 .. Cardinality(S) : i < j => Better(TakeSorted(S)[i], TakeSorted(S)[j])
           /\ \A c \in S : \E i \in 1 .. Cardinality(S) : TakeSorted(S)[i] = c
           /\ \A i \in 1 .. Cardinality(S) : Rank(S, TakeSorted(S)[i]) = i - 1
  <1> DEFINE n == Cardinality(S)
             s == TakeSorted(S)
  <1>1. /\ n \in Nat
        /\ \A c \in S : Rank(S, c) \in 0 .. n - 1
        /\ \A c, d \in S : Better(c, d) => Rank(S, c) < Rank(S, d)
        /\ \A m \in 0 .. n - 1 : \E c \in S : Rank(S, c) = m
    BY RanksAreCovered
  <1>2. s = [i \in 1 .. n |-> CHOOSE c \in S : Rank(S, c) = i - 1]
    BY DEF TakeSorted, Rank, Nearer
  <1> HIDE DEF n, s
  <1>3. \A i \in 1 .. n : s[i] \in S /\ Rank(S, s[i]) = i - 1
    <2> TAKE i \in 1 .. n
    <2>1. i - 1 \in 0 .. n - 1
      BY <1>1
    <2>2. PICK c \in S : Rank(S, c) = i - 1
      BY <1>1, <2>1
    <2>3. QED
      BY <1>2, <2>2
  <1>4. s \in Seq(S) /\ Len(s) = n
    <2>1. s \in [1 .. n -> S]
      BY <1>2, <1>3
    <2>2. QED
      BY <1>1, <2>1
  <1>5. ASSUME NEW i \in 1 .. n, NEW j \in 1 .. n, i < j PROVE Better(s[i], s[j])
    <2>1. /\ s[i] \in S /\ s[j] \in S /\ Rank(S, s[i]) = i - 1 /\ Rank(S, s[j]) = j - 1
      BY <1>3
    <2>2. ~Better(s[j], s[i]) /\ s[i] # s[j]
      BY <1>1, <1>5, <2>1
    <2>3. QED
      BY <2>1, <2>2, BetterIsAnOrder
  <1>6. ASSUME NEW c \in S PROVE \E i \in 1 .. n : s[i] = c
    <2>1. PICK i \in 1 .. n : Rank(S, c) = i - 1
      <3>1. Rank(S, c) \in 0 .. n - 1
        BY <1>1
      <3>2. Rank(S, c) + 1 \in 1 .. n
        BY <1>1, <3>1
      <3>3. Rank(S, c) = (Rank(S, c) + 1) - 1
        BY <3>1
      <3>4. QED
        BY <3>2, <3>3
    <2>2. s[i] \in S /\ Rank(S, s[i]) = i - 1
      BY <1>3
    <2>3. ~Better(s[i], c) /\ ~Better(c, s[i])
      BY <1>1, <2>1, <2>2
    <2>4. QED
      BY <2>2, <2>3, BetterIsAnOrder
  <1>7. QED
    BY <1>1, <1>3, <1>4, <1>5, <1>6 DEF n, s

\* The root of the heap is the worst of the candidates kept.
LEMMA WorstExists ==
    ASSUME NEW S \in SUBSET Candidate, IsFiniteSet(S), S # {}
    PROVE  /\ Worst(S) \in S
           /\ \A c \in S : c # Worst(S) => Better(c, Worst(S))
  <1>1. Cardinality(S) \in Nat /\ Cardinality(S) # 0
    BY FS_EmptySet, FS_CardinalityType
  <1>2. Cardinality(S) - 1 \in 0 .. Cardinality(S) - 1
    BY <1>1
  <1>3. PICK w \in S : Rank(S, w) = Cardinality(S) - 1
    BY <1>2, RanksAreCovered
  <1>4. \A c \in S \ {w} : Better(c, w)
    <2>1. ASSUME NEW c \in S, Better(w, c) PROVE FALSE
      <3>1. Rank(S, w) < Rank(S, c) /\ Rank(S, c) \in 0 .. Cardinality(S) - 1
        BY <2>1, RanksAreCovered
      <3>2. QED
        BY <1>1, <1>3, <3>1
    <2>2. QED
      BY <2>1, BetterIsAnOrder
  <1>5. QED
    BY <1>4 DEF Worst

\* kept is what a collector of k candidates keeps of a set of them: the best.
Keeps(k, kept, cands) ==
    /\ kept \subseteq cands
    /\ Cardinality(kept) <= k
    /\ \A c \in cands \ kept : Cardinality(kept) = k /\ \A d \in kept : Better(d, c)

\* An offer keeps the best of one candidate more.
LEMMA OfferKeeps ==
    ASSUME NEW k \in Nat \ {0}, NEW cands \in SUBSET Candidate, IsFiniteSet(cands),
           NEW kept, Keeps(k, kept, cands), NEW c \in Candidate, c \notin cands
    PROVE  /\ Keeps(k, Offer(k, kept, c), cands \cup {c})
           /\ IsFiniteSet(cands \cup {c})
  <1>1. kept \in SUBSET cands /\ IsFiniteSet(kept) /\ Cardinality(kept) \in Nat
    BY FS_Subset, FS_CardinalityType DEF Keeps
  <1>2. IsFiniteSet(cands \cup {c})
    BY FS_AddElement
  <1>3. CASE Cardinality(kept) < k
    <2>1. Offer(k, kept, c) = kept \cup {c}
      BY <1>1, <1>3 DEF Offer
    <2>2. Cardinality(kept \cup {c}) <= k
      <3>1. c \notin kept
        BY <1>1
      <3>2. Cardinality(kept \cup {c}) = Cardinality(kept) + 1
        BY <1>1, <3>1, FS_AddElement
      <3>3. QED
        BY <1>1, <1>3, <3>2
    <2>3. \A d \in cands : d \in kept
      BY <1>1, <1>3 DEF Keeps
    <2>4. QED
      BY <1>1, <1>2, <2>1, <2>2, <2>3 DEF Keeps
  <1>4. CASE ~(Cardinality(kept) < k)
    <2>1. Cardinality(kept) = k /\ kept # {}
      <3>1. Cardinality(kept) = k
        BY <1>1, <1>4 DEF Keeps
      <3>2. QED
        BY <3>1, FS_EmptySet
    <2>2. /\ Worst(kept) \in kept
          /\ \A d \in kept : d # Worst(kept) => Better(d, Worst(kept))
      BY <1>1, <2>1, WorstExists
    <2>3. Offer(k, kept, c) =
              IF Better(c, Worst(kept)) THEN (kept \ {Worst(kept)}) \cup {c} ELSE kept
      BY <1>1, <1>4 DEF Offer
    <2> DEFINE w == Worst(kept)
    <2> HIDE DEF w
    <2>4. w \in kept /\ w \in Candidate /\ \A d \in kept : d # w => Better(d, w)
      BY <1>1, <2>2 DEF w
    <2>5. CASE Better(c, w)
      <3>1. Offer(k, kept, c) = (kept \ {w}) \cup {c}
        BY <2>3, <2>5 DEF w
      <3>2. Cardinality((kept \ {w}) \cup {c}) = k
        <4>1. IsFiniteSet(kept \ {w}) /\ Cardinality(kept \ {w}) = k - 1
          BY <1>1, <2>1, <2>4, FS_RemoveElement
        <4>2. c \notin kept \ {w}
          BY <1>1
        <4>3. Cardinality((kept \ {w}) \cup {c}) = Cardinality(kept \ {w}) + 1
          BY <4>1, <4>2, FS_AddElement
        <4>4. QED
          BY <4>1, <4>3
      <3>3. ASSUME NEW e \in (cands \cup {c}) \ ((kept \ {w}) \cup {c}),
                   NEW d \in (kept \ {w}) \cup {c}
            PROVE  Better(d, e)
        <4>1. e \in cands /\ e \in Candidate /\ d \in Candidate /\ Better(d, w)
          BY <1>1, <2>4, <2>5, <3>3
        <4>2. e = w \/ Better(w, e)
          BY <2>4, <3>3, <4>1 DEF Keeps
        <4>3. QED
          BY <2>4, <4>1, <4>2, BetterIsAnOrder
      <3>4. QED
        BY <1>1, <1>2, <3>1, <3>2, <3>3 DEF Keeps
    <2>6. CASE ~Better(c, w)
      <3>1. Offer(k, kept, c) = kept
        BY <2>3, <2>6 DEF w
      <3>2. Better(w, c)
        BY <1>1, <2>4, <2>6, BetterIsAnOrder
      <3>3. \A d \in kept : Better(d, c)
        BY <1>1, <2>4, <3>2, BetterIsAnOrder
      <3>4. QED
        BY <1>1, <1>2, <2>1, <3>1, <3>3 DEF Keeps
    <2>7. QED
      BY <2>5, <2>6
  <1>5. QED
    BY <1>3, <1>4

\* A collector with room for all candidates keeps them all.
LEMMA KeepsAll ==
    ASSUME NEW k \in Nat, NEW cands \in SUBSET Candidate, IsFiniteSet(cands),
           Cardinality(cands) <= k, NEW kept, Keeps(k, kept, cands)
    PROVE  kept = cands
  <1>1. kept \in SUBSET cands /\ IsFiniteSet(kept) /\ Cardinality(kept) \in Nat
        /\ Cardinality(cands) \in Nat
    BY FS_Subset, FS_CardinalityType DEF Keeps
  <1>2. ASSUME NEW c \in cands \ kept PROVE FALSE
    <2>1. Cardinality(kept) = k
      BY DEF Keeps
    <2>2. Cardinality(kept) <= Cardinality(cands) /\ Cardinality(kept) # Cardinality(cands)
      BY <1>1, FS_Subset
    <2>3. QED
      BY <1>1, <2>1, <2>2
  <1>3. QED
    BY <1>1, <1>2

\* A collector that was offered nothing holds nothing.
LEMMA KeepsNothing ==
    ASSUME NEW k \in Nat
    PROVE  Keeps(k, {}, {})
  BY FS_EmptySet DEF Keeps

(***************************************************************************)
(* Search and merge                                                        *)
(***************************************************************************)
\* Induction up to a number, for a set.
LEMMA ReachesAll ==
    ASSUME NEW N \in Nat, NEW T \in SUBSET (0 .. N), 0 \in T,
           \A n \in 1 .. N : n - 1 \in T => n \in T
    PROVE  \A n \in 0 .. N : n \in T
  <1> SUFFICES ASSUME NEW x \in 0 .. N, x \notin T PROVE FALSE
    OBVIOUS
  <1> DEFINE U == {n \in 0 .. N : n \notin T}
  <1>1. U \subseteq Nat /\ x \in U
    OBVIOUS
  <1>2. PICK k \in U : \A j \in U : <<j, k>> \notin OpToRel(<, Nat)
    <2> HIDE DEF U
    <2>1. U # {}
      BY <1>1
    <2>2. QED
      BY <1>1, <2>1, WFMin, NatLessThanWellFounded
  <1>3. \A j \in U : ~(j < k)
    BY <1>1, <1>2 DEF OpToRel
  <1>4. k \in 1 .. N /\ k - 1 \in 0 .. N /\ k - 1 < k
    OBVIOUS
  <1>5. k - 1 \in T
    BY <1>3, <1>4
  <1>6. QED
    BY <1>4, <1>5

\* A recursion of finitely many steps has a solution.
Steps(X, N) == [X \X (1 .. N) -> X]

Solves(f, base, next, m) == f[0] = base /\ \A n \in 1 .. m : f[n] = next[<<f[n - 1], n>>]

\* Next to the induction up to N: f is built one step after the other.
LEMMA RecursionSolvable ==
    ASSUME NEW N \in Nat, NEW X, NEW base \in X, NEW next \in Steps(X, N)
    PROVE  \E f \in [0 .. N -> X] : Solves(f, base, next, N)
  <1> USE DEF Steps
  <1> DEFINE T == {m \in 0 .. N : \E f \in [0 .. N -> X] : Solves(f, base, next, m)}
  <1>1. 0 \in T
    <2> DEFINE g == [n \in 0 .. N |-> base]
    <2>1. g \in [0 .. N -> X] /\ g[0] = base
      OBVIOUS
    <2>2. Solves(g, base, next, 0)
      BY <2>1 DEF Solves
    <2> HIDE DEF g
    <2>3. QED
      BY <2>1, <2>2
  <1>2. ASSUME NEW m \in 1 .. N, m - 1 \in T PROVE m \in T
    <2>1. PICK f \in [0 .. N -> X] : Solves(f, base, next, m - 1)
      BY <1>2
    <2>2. /\ m - 1 \in 0 .. N /\ m \in 0 .. N /\ m # 0
          /\ \A n \in 1 .. m : n \in 0 .. N /\ n - 1 \in 0 .. N /\ n - 1 # m
          /\ \A n \in 1 .. m : n = m \/ n \in 1 .. m - 1
      OBVIOUS
    <2>3. f[m - 1] \in X /\ <<f[m - 1], m>> \in X \X (1 .. N)
      BY <2>2
    <2>4. PICK y \in X : y = next[<<f[m - 1], m>>]
      BY <2>3
    <2> DEFINE g == [f EXCEPT ![m] = y]
    <2>5. /\ g \in [0 .. N -> X] /\ g[m] = y
          /\ \A n \in 0 .. N : n # m => g[n] = f[n]
      BY <2>2
    <2> HIDE DEF g
    <2>6. g[0] = base
      BY <2>1, <2>2, <2>5 DEF Solves
    <2>7. ASSUME NEW n \in 1 .. m PROVE g[n] = next[<<g[n - 1], n>>]
      <3>1. g[n - 1] = f[n - 1]
        BY <2>2, <2>5
      <3>2. CASE n = m
        BY <2>4, <2>5, <3>1, <3>2
      <3>3. CASE n # m
        <4>1. n \in 1 .. m - 1 /\ g[n] = f[n]
          BY <2>2, <2>5, <3>3
        <4>2. f[n] = next[<<f[n - 1], n>>]
          BY <2>1, <4>1 DEF Solves
        <4>3. QED
          BY <3>1, <4>1, <4>2
      <3>4. QED
        BY <3>2, <3>3
    <2>8. Solves(g, base, next, m)
      BY <2>6, <2>7 DEF Solves
    <2>9. QED
      BY <2>2, <2>5, <2>8
  <1>3. T \in SUBSET (0 .. N)
    OBVIOUS
  <1>4. N \in T
    <2> HIDE DEF T
    <2>1. N \in 0 .. N
      OBVIOUS
    <2>2. QED
      BY <1>1, <1>2, <1>3, <2>1, ReachesAll
  <1>5. QED
    BY <1>4

\* search_range as the recursion that it is.
LEMMA SearchRangeUnfolds ==
    ASSUME NEW k, NEW cands, NEW last
    PROVE  SearchRange(k, cands, last) =
               (CHOOSE f : f = [n \in 0 .. last |->
                                    IF n = 0 THEN {}
                                    ELSE IF n \in DOMAIN cands THEN Offer(k, f[n - 1], cands[n])
                                         ELSE f[n - 1]])[last]
  BY DEF SearchRange

\* The finite sets of candidates.
CandidateSets == {C \in SUBSET Candidate : IsFiniteSet(C)}

\* An offer to a finite set of candidates leaves one.
LEMMA OfferType ==
    ASSUME NEW k \in Nat, NEW C \in CandidateSets, NEW c \in Candidate
    PROVE  Offer(k, C, c) \in CandidateSets
  <1>1. Cardinality(C) \in Nat /\ IsFiniteSet(C \cup {c}) /\ IsFiniteSet(C \ {Worst(C)})
    BY FS_CardinalityType, FS_AddElement, FS_RemoveElement DEF CandidateSets
  <1>2. IsFiniteSet((C \ {Worst(C)}) \cup {c})
    BY <1>1, FS_AddElement
  <1>3. \/ Offer(k, C, c) = C \cup {c}
        \/ Offer(k, C, c) = (C \ {Worst(C)}) \cup {c}
        \/ Offer(k, C, c) = C
    BY <1>1 DEF Offer
  <1>4. QED
    BY <1>1, <1>2, <1>3 DEF CandidateSets

\* search_range leaves in its collector the best of the candidates it meets.
LEMMA SearchRangeKeeps ==
    ASSUME NEW k \in Nat \ {0}, NEW last \in Nat, NEW S \in SUBSET (1 .. last),
           NEW cands \in [S -> Candidate], \A i \in S : cands[i].slot = i
    PROVE  /\ Keeps(k, SearchRange(k, cands, last), {cands[i] : i \in S})
           /\ IsFiniteSet({cands[i] : i \in S})
  <1> DEFINE X == CandidateSets
             next == [e \in X \X (1 .. last) |->
                          IF e[2] \in S THEN Offer(k, e[1], cands[e[2]]) ELSE e[1]]
             After(f) == [n \in 0 .. last |->
                              IF n = 0 THEN {}
                              ELSE IF n \in DOMAIN cands THEN Offer(k, f[n - 1], cands[n])
                                   ELSE f[n - 1]]
             UpTo(n) == {cands[i] : i \in {j \in S : j <= n}}
  <1>1. next \in [X \X (1 .. last) -> X]
    <2>1. ASSUME NEW C \in X, NEW n \in 1 .. last
          PROVE  (IF n \in S THEN Offer(k, C, cands[n]) ELSE C) \in X
      BY OfferType
    <2> HIDE DEF X
    <2>2. QED
      BY <2>1
  <1>2. {} \in X
    BY FS_EmptySet DEF CandidateSets
  <1>3. PICK f \in [0 .. last -> X] : f[0] = {} /\ \A n \in 1 .. last : f[n] = next[<<f[n - 1], n>>]
    <2> HIDE DEF X, next
    <2>1. next \in Steps(X, last)
      BY <1>1 DEF Steps
    <2>2. PICK f \in [0 .. last -> X] : Solves(f, {}, next, last)
      BY <1>2, <2>1, RecursionSolvable
    <2>3. QED
      BY <2>2 DEF Solves
  <1>4. f = After(f)
    <2>1. ASSUME NEW n \in 0 .. last PROVE f[n] = After(f)[n]
      <3>1. CASE n = 0
        BY <1>3, <3>1
      <3>2. CASE n # 0
        <4>1. n \in 1 .. last /\ n - 1 \in 0 .. last
          BY <3>2
        <4>2. f[n] = next[<<f[n - 1], n>>] /\ f[n - 1] \in X
          BY <1>3, <4>1
        <4>3. next[<<f[n - 1], n>>] = IF n \in S THEN Offer(k, f[n - 1], cands[n]) ELSE f[n - 1]
          <5> HIDE DEF X
          <5>1. QED
            BY <4>1, <4>2
        <4>4. QED
          BY <3>2, <4>2, <4>3
      <3>3. QED
        BY <3>1, <3>2
    <2> HIDE DEF X, next
    <2>2. QED
      BY <2>1
  <1>5. PICK g : g = After(g) /\ SearchRange(k, cands, last) = g[last]
    <2> DEFINE h == CHOOSE f1 : f1 = After(f1)
    <2>1. h = After(h)
      <3> HIDE DEF After
      <3>1. QED
        BY <1>4
    <2>2. SearchRange(k, cands, last) = h[last]
      BY SearchRangeUnfolds
    <2>3. QED
      BY <2>1, <2>2
  <1>6. /\ g[0] = {}
        /\ \A n \in 1 .. last : g[n] = IF n \in S THEN Offer(k, g[n - 1], cands[n]) ELSE g[n - 1]
    <2>1. \A n \in 0 .. last : g[n] = After(g)[n]
      BY <1>5
    <2>2. QED
      BY <2>1
  <1> HIDE DEF X, next, After
  <1> DEFINE T == {n \in 0 .. last : IsFiniteSet(UpTo(n)) /\ Keeps(k, g[n], UpTo(n))}
  <1>7. 0 \in T
    <2>1. UpTo(0) = {} /\ 0 \in 0 .. last /\ IsFiniteSet({})
      BY FS_EmptySet
    <2>2. Keeps(k, g[0], UpTo(0))
      BY <1>6, <2>1, KeepsNothing
    <2> HIDE DEF UpTo
    <2>3. QED
      BY <2>1, <2>2
  <1>8. ASSUME NEW n \in 1 .. last, n - 1 \in T PROVE n \in T
    <2>1. IsFiniteSet(UpTo(n - 1)) /\ Keeps(k, g[n - 1], UpTo(n - 1))
      BY <1>8
    <2>2. UpTo(n - 1) \in SUBSET Candidate
      OBVIOUS
    <2>3. CASE n \in S
      <3>1. cands[n] \in Candidate /\ cands[n] \notin UpTo(n - 1)
        BY <2>3
      <3>2. UpTo(n) = UpTo(n - 1) \cup {cands[n]}
        <4>1. \A i \in S : i <= n <=> (i <= n - 1 \/ i = n)
          OBVIOUS
        <4>2. QED
          BY <2>3, <4>1
      <3>3. g[n] = Offer(k, g[n - 1], cands[n])
        BY <1>6, <2>3
      <3> HIDE DEF UpTo
      <3>4. Keeps(k, g[n], UpTo(n)) /\ IsFiniteSet(UpTo(n))
        <4>1. PICK C : C = UpTo(n - 1)
          OBVIOUS
        <4>2. PICK kept : kept = g[n - 1]
          OBVIOUS
        <4>3. PICK c \in Candidate : c = cands[n]
          BY <3>1
        <4>4. C \in SUBSET Candidate /\ IsFiniteSet(C) /\ Keeps(k, kept, C) /\ c \notin C
          BY <2>1, <2>2, <3>1, <4>1, <4>2, <4>3
        <4>5. Keeps(k, Offer(k, kept, c), C \cup {c}) /\ IsFiniteSet(C \cup {c})
          BY <4>4, OfferKeeps
        <4>6. QED
          BY <3>2, <3>3, <4>1, <4>2, <4>3, <4>5
      <3>5. QED
        BY <3>4
    <2>4. CASE n \notin S
      <3>1. UpTo(n) = UpTo(n - 1)
        <4>1. \A i \in S : i <= n <=> i <= n - 1
          BY <2>4
        <4>2. QED
          BY <4>1
      <3>2. g[n] = g[n - 1]
        BY <1>6, <2>4
      <3> HIDE DEF UpTo
      <3>3. QED
        BY <2>1, <3>1, <3>2
    <2>5. QED
      BY <2>3, <2>4
  <1>9. last \in T
    <2>1. T \in SUBSET (0 .. last) /\ last \in 0 .. last
      OBVIOUS
    <2> HIDE DEF T
    <2>2. QED
      BY <1>7, <1>8, <2>1, ReachesAll
  <1>10. UpTo(last) = {cands[i] : i \in S}
    <2>1. \A j \in S : j <= last
      OBVIOUS
    <2>2. QED
      BY <2>1
  <1>11. QED
    BY <1>5, <1>9, <1>10

\* The loop of merge_top_k over one list, as a recursion.
LEMMA OfferSortedUnfolds ==
    ASSUME NEW k, NEW kept, NEW list
    PROVE  OfferSorted(k, kept, list) =
               (CHOOSE f : f = [n \in 0 .. Len(list) |->
                   IF n = 0 THEN [kept |-> kept, left |-> FALSE]
                   ELSE IF f[n - 1].left \/ ~WouldAccept(k, f[n - 1].kept, list[n].key)
                        THEN [f[n - 1] EXCEPT !.left = TRUE]
                        ELSE [f[n - 1] EXCEPT !.kept = Offer(k, @, list[n])]])[Len(list)].kept
  BY DEF OfferSorted

\* A sorted list offered to a collector: leaving it early loses nothing.
LEMMA OfferSortedKeeps ==
    ASSUME NEW k \in Nat \ {0}, NEW C \in SUBSET Candidate, IsFiniteSet(C),
           NEW first \in SUBSET C, Keeps(k, first, C),
           NEW P \in SUBSET Candidate, IsFiniteSet(P), C \cap P = {}
    PROVE  Keeps(k, OfferSorted(k, first, TakeSorted(P)), C \cup P)
  <1> DEFINE list == TakeSorted(P)
             last == Cardinality(P)
  <1>1. /\ last \in Nat /\ Len(list) = last
        /\ \A i \in 1 .. last : list[i] \in P
        /\ \A i, j \in 1 .. last : i < j => Better(list[i], list[j])
        /\ \A c \in P : \E i \in 1 .. last : list[i] = c
    BY TakeSortedSorts
  <1> HIDE DEF list, last
  <1> DEFINE X == [kept : CandidateSets, left : BOOLEAN]
             Turn(r, n) == IF r.left \/ ~WouldAccept(k, r.kept, list[n].key)
                           THEN [r EXCEPT !.left = TRUE]
                           ELSE [r EXCEPT !.kept = Offer(k, @, list[n])]
             begin == [kept |-> first, left |-> FALSE]
             next == [e \in X \X (1 .. last) |-> Turn(e[1], e[2])]
             After(f) == [n \in 0 .. last |-> IF n = 0 THEN begin ELSE Turn(f[n - 1], n)]
             UpTo(n) == C \cup {list[i] : i \in {j \in 1 .. last : j <= n}}
  <1>2. ASSUME NEW r \in X, NEW n \in 1 .. last PROVE Turn(r, n) \in X
    <2>1. Offer(k, r.kept, list[n]) \in CandidateSets
      BY <1>1, OfferType
    <2>2. QED
      BY <2>1
  <1>3. next \in Steps(X, last)
    <2> HIDE DEF X, Turn
    <2>1. QED
      BY <1>2 DEF Steps
  <1>4. begin \in X
    BY FS_Subset DEF CandidateSets
  <1>5. PICK f \in [0 .. last -> X] : Solves(f, begin, next, last)
    <2> HIDE DEF X, next, begin
    <2>1. QED
      BY <1>1, <1>3, <1>4, RecursionSolvable
  <1>6. f = After(f)
    <2>1. ASSUME NEW n \in 0 .. last PROVE f[n] = After(f)[n]
      <3>1. CASE n = 0
        BY <1>5, <3>1 DEF Solves
      <3>2. CASE n # 0
        <4>1. n \in 1 .. last /\ n - 1 \in 0 .. last
          BY <1>1, <3>2
        <4>2. f[n] = next[<<f[n - 1], n>>] /\ f[n - 1] \in X
          BY <1>5, <4>1 DEF Solves
        <4> HIDE DEF X, Turn
        <4>3. next[<<f[n - 1], n>>] = Turn(f[n - 1], n)
          BY <4>1, <4>2
        <4>4. QED
          BY <3>2, <4>2, <4>3
      <3>3. QED
        BY <3>1, <3>2
    <2> HIDE DEF X, next, Turn, begin
    <2>2. QED
      BY <2>1
  <1>7. PICK g : g = After(g) /\ OfferSorted(k, first, list) = g[last].kept
    <2> DEFINE h == CHOOSE f1 : f1 = After(f1)
    <2>1. h = After(h)
      <3> HIDE DEF After
      <3>1. QED
        BY <1>6
    <2>2. OfferSorted(k, first, list) = h[last].kept
      BY <1>1, OfferSortedUnfolds
    <2>3. QED
      BY <2>1, <2>2
  <1>8. g[0] = begin /\ \A n \in 1 .. last : g[n] = Turn(g[n - 1], n)
    <2> HIDE DEF Turn, begin
    <2>1. \A n \in 0 .. last : g[n] = After(g)[n]
      BY <1>7
    <2>2. QED
      BY <1>1, <2>1
  <1> HIDE DEF next, After
  <1> DEFINE Good(n) ==
                 /\ g[n] \in X /\ IsFiniteSet(UpTo(n)) /\ Keeps(k, g[n].kept, UpTo(n))
                 /\ g[n].left => /\ Cardinality(g[n].kept) = k
                                 /\ \A i \in 1 .. last : i > n =>
                                        \A d \in g[n].kept : Better(d, list[i])
             T == {n \in 0 .. last : Good(n)}
  <1>9. 0 \in T
    <2>1. UpTo(0) = C /\ 0 \in 0 .. last
      BY <1>1
    <2>2. g[0] \in X /\ g[0].kept = first /\ g[0].left = FALSE
      BY <1>4, <1>8
    <2> HIDE DEF UpTo, X
    <2>3. QED
      BY <2>1, <2>2
  <1>10. ASSUME NEW n \in 1 .. last, n - 1 \in T PROVE n \in T
    <2>1. Good(n - 1) /\ n - 1 \in 0 .. last /\ n \in 0 .. last
      BY <1>10
    <2> DEFINE r == g[n - 1]
               c == list[n]
    <2>2. c \in P /\ c \in Candidate /\ g[n] = Turn(r, n)
      BY <1>1, <1>8
    <2>3. UpTo(n) = UpTo(n - 1) \cup {c}
      <3>1. \A i \in 1 .. last : i <= n <=> (i <= n - 1 \/ i = n)
        OBVIOUS
      <3>2. QED
        BY <3>1
    <2>4. c \notin UpTo(n - 1)
      <3>1. \A i \in 1 .. last : i <= n - 1 => list[i] # c
        <4>1. \A i \in 1 .. last : i <= n - 1 => Better(list[i], c)
          BY <1>1
        <4>2. ~Better(c, c)
          BY <2>2, BetterIsAnOrder
        <4>3. QED
          BY <4>1, <4>2
      <3>2. c \notin C
        BY <2>2
      <3>3. QED
        BY <3>1, <3>2
    <2>5. UpTo(n - 1) \in SUBSET Candidate
      BY <1>1
    <2>6. /\ r \in X /\ r.kept \in SUBSET UpTo(n - 1) /\ IsFiniteSet(UpTo(n - 1))
          /\ Keeps(k, r.kept, UpTo(n - 1))
          /\ IsFiniteSet(r.kept) /\ r.kept \subseteq Candidate
          /\ r.left => /\ Cardinality(r.kept) = k
                       /\ \A i \in 1 .. last : i > n - 1 => \A d \in r.kept : Better(d, list[i])
      BY <2>1 DEF Keeps, CandidateSets
    <2>7. g[n] \in X
      BY <1>2, <2>2, <2>6
    <2> HIDE DEF UpTo, c
    <2>8. IsFiniteSet(UpTo(n))
      BY <2>3, <2>6, FS_AddElement
    <2>9. CASE r.left \/ ~WouldAccept(k, r.kept, c.key)
      <3>1. g[n].left = TRUE /\ g[n].kept = r.kept
        BY <2>2, <2>6, <2>9 DEF c
      <3>2. /\ Cardinality(r.kept) = k
            /\ \A i \in 1 .. last : i >= n => \A d \in r.kept : Better(d, list[i])
        <4>1. CASE r.left
          BY <2>6, <4>1
        <4>2. CASE ~r.left
          <5>1. /\ ~(Cardinality(r.kept) < k)
                /\ ~(c.key <= Worst(r.kept).key)
            BY <2>9, <4>2 DEF WouldAccept
          <5>2. Cardinality(r.kept) = k
            <6>1. Cardinality(r.kept) \in Nat /\ Cardinality(r.kept) <= k
              BY <2>6, FS_CardinalityType DEF Keeps
            <6>2. QED
              BY <5>1, <6>1
          <5>3. r.kept # {}
            BY <2>6, <5>2, FS_EmptySet
          <5>4. PICK w \in r.kept : /\ w = Worst(r.kept)
                                    /\ \A d \in r.kept : d # w => Better(d, w)
            <6>1. PICK S : S = r.kept
              OBVIOUS
            <6>2. S \in SUBSET Candidate /\ IsFiniteSet(S) /\ S # {}
              BY <2>6, <5>3, <6>1
            <6>3. Worst(S) \in S /\ \A d \in S : d # Worst(S) => Better(d, Worst(S))
              BY <6>2, WorstExists
            <6>4. QED
              BY <6>1, <6>3
          <5>5. Better(w, c) /\ w \in Candidate
            BY <2>2, <2>6, <5>1, <5>4 DEF Better, Candidate
          <5>6. ASSUME NEW i \in 1 .. last, i >= n, NEW d \in r.kept PROVE Better(d, list[i])
            <6>1. list[i] = c \/ Better(c, list[i])
              BY <1>1, <5>6 DEF c
            <6>2. d = w \/ Better(d, w)
              BY <5>4
            <6>3. list[i] \in Candidate /\ d \in Candidate
              BY <1>1, <2>6
            <6>4. QED
              BY <2>2, <5>5, <6>1, <6>2, <6>3, BetterIsAnOrder
          <5>7. QED
            BY <5>2, <5>6
        <4>3. QED
          BY <4>1, <4>2
      <3>3. Keeps(k, g[n].kept, UpTo(n))
        <4>1. \A d \in r.kept : Better(d, c)
          BY <3>2 DEF c
        <4>2. QED
          BY <2>3, <2>6, <3>1, <3>2, <4>1 DEF Keeps
      <3>4. \A i \in 1 .. last : i > n => \A d \in g[n].kept : Better(d, list[i])
        BY <3>1, <3>2
      <3> HIDE DEF X, Turn
      <3>5. QED
        BY <2>1, <2>7, <2>8, <3>1, <3>2, <3>3, <3>4
    <2>10. CASE ~(r.left \/ ~WouldAccept(k, r.kept, c.key))
      <3>1. g[n].left = FALSE /\ g[n].kept = Offer(k, r.kept, c)
        BY <2>2, <2>6, <2>10 DEF c
      <3>2. Keeps(k, g[n].kept, UpTo(n))
        <4>1. PICK D : D = UpTo(n - 1)
          OBVIOUS
        <4>2. PICK kept : kept = r.kept
          OBVIOUS
        <4>3. PICK d \in Candidate : d = c
          BY <2>2
        <4>4. D \in SUBSET Candidate /\ IsFiniteSet(D) /\ Keeps(k, kept, D) /\ d \notin D
          BY <2>4, <2>5, <2>6, <4>1, <4>2, <4>3
        <4>5. Keeps(k, Offer(k, kept, d), D \cup {d})
          BY <4>4, OfferKeeps
        <4>6. QED
          BY <2>3, <3>1, <4>1, <4>2, <4>3, <4>5
      <3> HIDE DEF X, Turn
      <3>3. QED
        BY <2>1, <2>7, <2>8, <3>1, <3>2
    <2>11. QED
      BY <2>9, <2>10
  <1>11. last \in T
    <2>1. T \in SUBSET (0 .. last) /\ last \in 0 .. last
      BY <1>1
    <2> HIDE DEF T
    <2>2. QED
      BY <1>1, <1>9, <1>10, <2>1, ReachesAll
  <1>12. UpTo(last) = C \cup P
    <2>1. \A j \in 1 .. last : j <= last
      BY <1>1
    <2>2. {list[i] : i \in {j \in 1 .. last : j <= last}} = P
      BY <1>1, <2>1
    <2>3. QED
      BY <2>2
  <1>13. QED
    BY <1>7, <1>11, <1>12 DEF list

\* The first k of a sorted set are what a collector of k keeps of it, sorted.
LEMMA FirstOfSorted ==
    ASSUME NEW k \in Nat, NEW C \in SUBSET Candidate, IsFiniteSet(C),
           NEW R \in SUBSET C, Keeps(k, R, C)
    PROVE  FirstOf(k, TakeSorted(C)) = TakeSorted(R)
  <1> DEFINE n == Cardinality(C)
             m == Cardinality(R)
             s == TakeSorted(C)
             t == TakeSorted(R)
  <1>1. IsFiniteSet(R) /\ R \in SUBSET Candidate /\ n \in Nat /\ m \in Nat
    BY FS_Subset, FS_CardinalityType
  <1>2. m = IF k < n THEN k ELSE n
    <2>1. m <= k /\ m <= n
      BY <1>1, FS_Subset DEF Keeps
    <2>2. CASE R = C
      BY <2>1, <2>2, <1>1
    <2>3. CASE R # C
      <3>1. m # n
        BY <2>3, FS_Subset
      <3>2. PICK c \in C : c \notin R
        BY <2>3
      <3>3. m = k
        BY <3>2 DEF Keeps
      <3>4. QED
        BY <1>1, <2>1, <3>1, <3>3
    <2>4. QED
      BY <2>2, <2>3
  <1>3. /\ s \in Seq(C) /\ Len(s) = n
        /\ \A i \in 1 .. n : s[i] \in C /\ Rank(C, s[i]) = i - 1
        /\ t \in Seq(R) /\ Len(t) = m
        /\ \A i \in 1 .. m : t[i] \in R /\ Rank(R, t[i]) = i - 1
    BY <1>1, TakeSortedSorts
  <1>4. \A c \in R : Rank(C, c) = Rank(R, c)
    <2> TAKE c \in R
    <2>1. ASSUME NEW o \in C, Better(o, c) PROVE o \in R
      <3>1. o \notin R => Better(c, o)
        BY DEF Keeps
      <3>2. QED
        BY <2>1, <3>1, BetterIsAnOrder
    <2>2. Nearer(C, c) = Nearer(R, c)
      BY <2>1 DEF Nearer
    <2>3. QED
      BY <2>2 DEF Rank
  <1> HIDE DEF n, m, s, t
  <1>5. ASSUME NEW i \in 1 .. m PROVE s[i] = t[i]
    <2>1. i \in 1 .. n
      BY <1>1, <1>2
    <2>2. /\ s[i] \in C /\ t[i] \in C /\ Rank(C, s[i]) = i - 1 /\ Rank(C, t[i]) = i - 1
      BY <1>3, <1>4, <2>1
    <2>3. \A c, d \in C : Better(c, d) => Rank(C, c) < Rank(C, d)
      BY RanksAreCovered
    <2>4. ~Better(s[i], t[i]) /\ ~Better(t[i], s[i])
      BY <2>2, <2>3
    <2>5. QED
      BY <2>2, <2>4, BetterIsAnOrder
  <1>6. FirstOf(k, s) = SubSeq(s, 1, m)
    BY <1>2, <1>3 DEF FirstOf
  <1> DEFINE u == SubSeq(s, 1, m)
  <1>7. u \in Seq(C) /\ Len(u) = m /\ \A i \in 1 .. m : u[i] = s[i]
    <2>1. \A i \in 1 .. m : i \in 1 .. n /\ s[i] \in C
      BY <1>1, <1>2, <1>3
    <2>2. /\ u \in Seq(C) /\ Len(u) = (IF 1 <= m THEN m - 1 + 1 ELSE 0)
          /\ \A i \in 1 .. m - 1 + 1 : u[i] = s[1 + i - 1]
      BY <1>1, <2>1, SubSeqProperties
    <2> HIDE DEF u
    <2>3. QED
      BY <1>1, <2>2
  <1> HIDE DEF u
  <1>8. u = t
    <2>1. u = [i \in 1 .. m |-> u[i]] /\ t = [i \in 1 .. m |-> t[i]]
      BY <1>3, <1>7
    <2>2. QED
      BY <1>5, <1>7, <2>1
  <1>9. QED
    BY <1>6, <1>8 DEF s, t, u

\* The best of what is best in two parts is the best of all.
LEMMA MergedIsBest ==
    ASSUME NEW k \in Nat, NEW C \in SUBSET Candidate, IsFiniteSet(C),
           NEW D \in SUBSET Candidate, IsFiniteSet(D), C \cap D = {},
           NEW K \in SUBSET C, Keeps(k, K, C), NEW L \in SUBSET D, Keeps(k, L, D),
           NEW bound \in Nat, NEW R \in SUBSET (K \cup L), Keeps(bound, R, K \cup L),
           LET total == Cardinality(K) + Cardinality(L)
           IN  bound = IF k < total THEN k ELSE total
    PROVE  Keeps(k, R, C \cup D)
  <1> DEFINE total == Cardinality(K) + Cardinality(L)
  <1>1. /\ IsFiniteSet(K) /\ IsFiniteSet(L) /\ IsFiniteSet(R)
        /\ Cardinality(K) \in Nat /\ Cardinality(L) \in Nat /\ Cardinality(R) \in Nat
        /\ IsFiniteSet(K \cup L) /\ Cardinality(K \cup L) = total
    <2>1. K \cap L = {} /\ IsFiniteSet(K) /\ IsFiniteSet(L)
      BY FS_Subset
    <2>2. /\ IsFiniteSet(K \cup L)
          /\ Cardinality(K \cup L) = Cardinality(K) + Cardinality(L) - Cardinality({})
      BY <2>1, FS_Union
    <2>3. Cardinality({}) = 0
      BY FS_EmptySet
    <2>4. QED
      BY <2>1, <2>2, <2>3, FS_Subset, FS_CardinalityType
  <1>2. R \subseteq C \cup D /\ Cardinality(R) <= k /\ Cardinality(R) <= total
    BY <1>1, FS_Subset DEF Keeps
  <1>3. ASSUME NEW c \in (K \cup L) \ R
        PROVE  Cardinality(R) = k /\ \A d \in R : Better(d, c)
    <2>1. Cardinality(R) = bound /\ \A d \in R : Better(d, c)
      BY DEF Keeps
    <2>2. Cardinality(R) # total
      BY <1>1, FS_Subset
    <2>3. QED
      BY <1>1, <2>1, <2>2
  <1>4. Cardinality(K) = k \/ Cardinality(L) = k => Cardinality(R) = k
    <2>1. CASE R = K \cup L
      BY <1>1, <1>2, <2>1
    <2>2. CASE R # K \cup L
      BY <1>3, <2>2
    <2>3. QED
      BY <2>1, <2>2
  <1>5. ASSUME NEW E \in SUBSET Candidate, NEW F \in SUBSET E, Keeps(k, F, E),
               IsFiniteSet(F), F \subseteq K \cup L,
               Cardinality(F) = k => Cardinality(R) = k,
               NEW c \in E, c \notin F
        PROVE  Cardinality(R) = k /\ \A d \in R : Better(d, c)
    <2>1. Cardinality(F) = k /\ Cardinality(R) = k /\ \A d \in F : Better(d, c)
      BY <1>5 DEF Keeps
    <2>2. ASSUME NEW d \in R PROVE Better(d, c)
      <3>1. CASE d \in F
        BY <2>1, <3>1
      <3>2. CASE d \notin F
        <4>1. PICK e \in F : e \notin R
          <5>1. SUFFICES ASSUME F \subseteq R PROVE FALSE
            OBVIOUS
          <5>2. F \in SUBSET R /\ F # R /\ Cardinality(F) = Cardinality(R)
            BY <2>1, <3>2, <5>1
          <5>3. QED
            BY <1>1, <5>2, FS_Subset
        <4>2. Better(d, e) /\ Better(e, c)
          BY <1>3, <1>5, <2>1, <4>1
        <4>3. d \in Candidate /\ e \in Candidate /\ c \in Candidate
          BY <1>5, <4>1
        <4>4. QED
          BY <4>2, <4>3, BetterIsAnOrder
      <3>3. QED
        BY <3>1, <3>2
    <2>3. QED
      BY <2>1, <2>2
  <1>6. ASSUME NEW c \in (C \cup D) \ R PROVE Cardinality(R) = k /\ \A d \in R : Better(d, c)
    <2>1. CASE c \in K \cup L
      BY <1>3, <1>6, <2>1
    <2>2. CASE c \in C /\ c \notin K
      <3>1. K \in SUBSET C /\ IsFiniteSet(K) /\ K \subseteq K \cup L
        BY <1>1
      <3>2. Cardinality(K) = k => Cardinality(R) = k
        BY <1>4
      <3>3. QED
        BY <1>5, <2>2, <3>1, <3>2
    <2>3. CASE c \in D /\ c \notin L
      <3>1. L \in SUBSET D /\ IsFiniteSet(L) /\ L \subseteq K \cup L
        BY <1>1
      <3>2. Cardinality(L) = k => Cardinality(R) = k
        BY <1>4
      <3>3. QED
        BY <1>5, <2>3, <3>1, <3>2
    <2>4. QED
      BY <2>1, <2>2, <2>3
  <1>7. QED
    BY <1>2, <1>6 DEF Keeps


\* A rank key is a number, of vectors that are.
LEMMA RankKeyType ==
    ASSUME NEW q \in Vecs, NEW v \in Vecs
    PROVE  RankKey(q, v) \in Int
  <1>1. q \in Int /\ v \in Int /\ Metric \in {"l2", "cosine", "ip"}
    BY DatabaseAssumption
  <1>2. q * v \in Int /\ (q - v) * (q - v) \in Int /\ Abs(q) \in Int /\ Abs(v) \in Int
    BY <1>1 DEF Abs
  <1>3. Abs(q) * Abs(v) \in Int
    BY <1>2
  <1>4. \A dot, norms \in Int : CosineRankKey(dot, norms) \in Int
    BY DEF CosineRankKey
  <1>5. CosineRankKey(q * v, Abs(q) * Abs(v)) \in Int
    BY <1>2, <1>3, <1>4
  <1>6. -(q * v) \in Int
    BY <1>2
  <1>7. CASE Metric = "l2"
    BY <1>2, <1>7 DEF RankKey
  <1>8. CASE Metric = "ip"
    BY <1>6, <1>8 DEF RankKey
  <1>9. CASE Metric = "cosine"
    BY <1>5, <1>9 DEF RankKey
  <1>10. QED
    BY <1>1, <1>7, <1>8, <1>9

\* The candidates that a search for a vector meets in some slots.
CandidatesIn(vec, slots, S) == [i \in S |-> [slot |-> i, key |-> RankKey(vec, slots[i].vec)]]

CandidatesOf(vec, slots, S) == {CandidatesIn(vec, slots, S)[i] : i \in S}

\* Candidates are numbered by their slots.
LEMMA CandidatesType ==
    ASSUME NEW slots \in Seq(Slot), NEW vec \in Vecs, NEW S \in SUBSET LiveSlots(slots)
    PROVE  /\ CandidatesIn(vec, slots, S) \in [S -> Candidate]
           /\ \A i \in S : CandidatesIn(vec, slots, S)[i].slot = i
           /\ CandidatesOf(vec, slots, S) \in SUBSET Candidate
           /\ \A i \in S : slots[i] \in Slot /\ i \in 1 .. Len(slots)
  <1>1. \A i \in S : /\ i \in Nat /\ slots[i] \in Slot /\ slots[i].vec \in Vecs
                    /\ i \in 1 .. Len(slots)
    BY LiveSlotsType DEF Slot
  <1>2. \A i \in S : RankKey(vec, slots[i].vec) \in Int
    BY <1>1, RankKeyType
  <1>3. \A i \in S : CandidatesIn(vec, slots, S)[i] \in Candidate
    BY <1>1, <1>2 DEF CandidatesIn, Candidate
  <1>4. QED
    BY <1>1, <1>3 DEF CandidatesIn, CandidatesOf

\* Parts of a store, each searched, merge to the search of all of it.
LEMMA PartsMerge ==
    ASSUME NEW slots \in Seq(Slot), NEW vec \in Vecs, NEW k \in Nat \ {0},
           NEW part \in SUBSET LiveSlots(slots)
    PROVE  LET cands(S) == CandidatesIn(vec, slots, S)
               best(S) == TakeSorted(SearchRange(k, cands(S), Len(slots)))
           IN  MergeTopK(k, best(part), best(LiveSlots(slots) \ part)) =
                   FirstOf(k, TakeSorted(CandidatesOf(vec, slots, LiveSlots(slots))))
  <1> DEFINE rest == LiveSlots(slots) \ part
             C == CandidatesOf(vec, slots, part)
             D == CandidatesOf(vec, slots, rest)
             K == SearchRange(k, CandidatesIn(vec, slots, part), Len(slots))
             L == SearchRange(k, CandidatesIn(vec, slots, rest), Len(slots))
             total == Cardinality(K) + Cardinality(L)
             bound == IF k < total THEN k ELSE total
  <1>1. Len(slots) \in Nat /\ part \in SUBSET (1 .. Len(slots)) /\ rest \in SUBSET (1 .. Len(slots))
    BY LiveSlotsType
  <1>2. Keeps(k, K, C) /\ IsFiniteSet(C) /\ C \in SUBSET Candidate
    <2>1. PICK f \in [part -> Candidate] : f = CandidatesIn(vec, slots, part)
      BY CandidatesType
    <2>2. \A i \in part : f[i].slot = i
      BY <2>1, CandidatesType
    <2>3. PICK last \in Nat : last = Len(slots)
      BY <1>1
    <2>4. part \in SUBSET (1 .. last)
      BY <1>1, <2>3
    <2>5. Keeps(k, SearchRange(k, f, last), {f[i] : i \in part}) /\ IsFiniteSet({f[i] : i \in part})
      BY <2>2, <2>4, SearchRangeKeeps
    <2>6. QED
      BY <2>1, <2>3, <2>5, CandidatesType DEF CandidatesOf
  <1>3. Keeps(k, L, D) /\ IsFiniteSet(D) /\ D \in SUBSET Candidate
    <2>1. PICK S \in SUBSET LiveSlots(slots) : S = rest
      OBVIOUS
    <2>2. PICK f \in [S -> Candidate] : f = CandidatesIn(vec, slots, S)
      BY CandidatesType
    <2>3. \A i \in S : f[i].slot = i
      BY <2>2, CandidatesType
    <2>4. PICK last \in Nat : last = Len(slots)
      BY <1>1
    <2>5. S \in SUBSET (1 .. last)
      BY <1>1, <2>1, <2>4
    <2>6. Keeps(k, SearchRange(k, f, last), {f[i] : i \in S}) /\ IsFiniteSet({f[i] : i \in S})
      BY <2>3, <2>5, SearchRangeKeeps
    <2>7. QED
      BY <2>1, <2>2, <2>4, <2>6, CandidatesType DEF CandidatesOf
  <1>4. C \cap D = {} /\ C \cup D = CandidatesOf(vec, slots, LiveSlots(slots))
    BY DEF CandidatesOf, CandidatesIn
  <1>5. /\ K \in SUBSET C /\ L \in SUBSET D /\ IsFiniteSet(K) /\ IsFiniteSet(L)
        /\ K \in SUBSET Candidate /\ L \in SUBSET Candidate
    BY <1>2, <1>3, FS_Subset DEF Keeps
  <1> HIDE DEF C, D, K, L
  <1>6. /\ Cardinality(K) \in Nat /\ Cardinality(L) \in Nat
        /\ Len(TakeSorted(K)) = Cardinality(K) /\ Len(TakeSorted(L)) = Cardinality(L)
    BY <1>5, TakeSortedSorts
  <1>7. MergeTopK(k, TakeSorted(K), TakeSorted(L)) = FirstOf(k, TakeSorted(C \cup D))
    <2>1. IsFiniteSet(C \cup D)
      BY <1>2, <1>3, FS_Union
    <2>2. MergeTopK(k, TakeSorted(K), TakeSorted(L)) =
              IF total = 0 THEN <<>>
              ELSE TakeSorted(OfferSorted(bound, OfferSorted(bound, {}, TakeSorted(K)),
                                          TakeSorted(L)))
      BY <1>6 DEF MergeTopK
    <2>3. CASE total = 0
      <3>1. K = {} /\ L = {}
        BY <1>5, <1>6, <2>3, FS_EmptySet
      <3>2. C = {} /\ D = {}
        <4>1. Cardinality({}) = 0
          BY FS_EmptySet
        <4>2. ASSUME NEW c \in C PROVE FALSE
          <5>1. Cardinality({}) = k
            BY <1>2, <3>1 DEF Keeps
          <5>2. QED
            BY <4>1, <5>1
        <4>3. ASSUME NEW c \in D PROVE FALSE
          <5>1. Cardinality({}) = k
            BY <1>3, <3>1 DEF Keeps
          <5>2. QED
            BY <4>1, <5>1
        <4>4. QED
          BY <4>2, <4>3
      <3>3. {} \in SUBSET Candidate /\ IsFiniteSet({}) /\ Cardinality({}) = 0
        BY FS_EmptySet
      <3>4. TakeSorted({}) \in Seq({}) /\ Len(TakeSorted({})) = 0
        BY <3>3, TakeSortedSorts
      <3>5. TakeSorted({}) = <<>>
        BY <3>4
      <3>6. FirstOf(k, <<>>) = <<>>
        BY DEF FirstOf
      <3>7. QED
        BY <2>2, <2>3, <3>2, <3>5, <3>6
    <2>4. CASE total # 0
      <3>1. bound \in Nat \ {0}
        BY <1>6, <2>4
      <3>2. PICK b \in Nat \ {0} : b = bound
        BY <3>1
      <3>3. PICK M : M = OfferSorted(b, {}, TakeSorted(K))
        OBVIOUS
      <3>4. Keeps(b, M, K)
        <4>1. Keeps(b, {}, {})
          BY KeepsNothing
        <4>2. Keeps(b, OfferSorted(b, {}, TakeSorted(K)), {} \cup K)
          <5>1. {} \in SUBSET Candidate /\ IsFiniteSet({}) /\ {} \in SUBSET {} /\ {} \cap K = {}
            BY FS_EmptySet
          <5>2. QED
            BY <1>5, <4>1, <5>1, OfferSortedKeeps
        <4>3. {} \cup K = K
          OBVIOUS
        <4>4. QED
          BY <3>3, <4>2, <4>3
      <3>5. M \in SUBSET K
        BY <3>4 DEF Keeps
      <3>6. PICK R : R = OfferSorted(b, M, TakeSorted(L))
        OBVIOUS
      <3>7. Keeps(b, R, K \cup L)
        <4>1. K \cap L = {}
          BY <1>4, <1>5
        <4>2. QED
          BY <1>5, <3>4, <3>5, <3>6, <4>1, OfferSortedKeeps
      <3>8. R \in SUBSET (K \cup L)
        BY <3>7 DEF Keeps
      <3>9. Keeps(k, R, C \cup D)
        <4>1. b = IF k < total THEN k ELSE total
          BY <3>2
        <4>2. QED
          BY <1>2, <1>3, <1>4, <1>5, <3>7, <3>8, <4>1, MergedIsBest
      <3>10. FirstOf(k, TakeSorted(C \cup D)) = TakeSorted(R)
        <4>1. PICK E : E = C \cup D
          OBVIOUS
        <4>2. E \in SUBSET Candidate /\ IsFiniteSet(E) /\ R \in SUBSET E /\ Keeps(k, R, E)
          BY <1>2, <1>3, <1>5, <2>1, <3>8, <3>9, <4>1
        <4>3. FirstOf(k, TakeSorted(E)) = TakeSorted(R)
          BY <4>2, FirstOfSorted
        <4>4. QED
          BY <4>1, <4>3
      <3>11. QED
        BY <2>2, <2>4, <3>2, <3>3, <3>6, <3>10
    <2>5. QED
      BY <2>3, <2>4
  <1>8. QED
    BY <1>4, <1>7 DEF K, L

\* merge_top_k of the lists of two parts of a store of the right type.
LEMMA MergeExact ==
    ASSUME store \in Store
    PROVE  MergeIsExact
  <1>1. store.slots \in Seq(Slot)
    BY DEF Store
  <1>2. ASSUME NEW vec \in Vecs, NEW k \in 1 .. MaxSlots, NEW part \in SUBSET LiveSlots(store.slots)
        PROVE  LET slots == store.slots
                   cands(s) == [i \in s |-> [slot |-> i, key |-> RankKey(vec, slots[i].vec)]]
                   best(s)  == TakeSorted(SearchRange(k, cands(s), Len(slots)))
               IN  MergeTopK(k, best(part), best(LiveSlots(slots) \ part))
                    = FirstOf(k, TakeSorted({cands(LiveSlots(slots))[i] : i \in LiveSlots(slots)}))
    <2>1. PICK slots \in Seq(Slot) : slots = store.slots
      BY <1>1
    <2>2. k \in Nat \ {0} /\ part \in SUBSET LiveSlots(slots)
      BY <2>1
    <2>3. LET cands(S) == CandidatesIn(vec, slots, S)
              best(S) == TakeSorted(SearchRange(k, cands(S), Len(slots)))
          IN  MergeTopK(k, best(part), best(LiveSlots(slots) \ part)) =
                  FirstOf(k, TakeSorted(CandidatesOf(vec, slots, LiveSlots(slots))))
      BY <2>2, PartsMerge
    <2>4. QED
      BY <2>1, <2>3 DEF CandidatesIn, CandidatesOf
  <1>3. QED
    BY <1>2 DEF MergeIsExact

(***************************************************************************)
(* Results                                                                 *)
(***************************************************************************)
\* The entry of a slot in a version.
EntryAt(s, r, i) ==
    [slot |-> i, id |-> s.slots[i].id, vec |-> s.slots[i].vec, meta |-> r[s.slots[i].id]]

\* A version has one entry for each live slot.
LEMMA VersionEntries ==
    ASSUME NEW s, NEW r
    PROVE  Version(s, r) = {EntryAt(s, r, i) : i \in LiveSlots(s.slots)}
  BY DEF Version, EntryAt

\* The results of a search that kept some of all candidates: each one reports
\* its entry, and they are in order.  If these were the best for a search
\* without a filter, or all, then what is left out comes after k others.
Answers(q, k, kept, all, v, res) ==
    LET m == Len(res)
    IN  /\ m \in Nat /\ DOMAIN res = 1 .. m /\ m <= k
        /\ \E e \in [1 .. m -> Matching(q, v)] :
               /\ \A i \in 1 .. m : res[i] = Hit(q, e[i])
               /\ \A i, j \in 1 .. m : i < j => Before(q, e[i], e[j])
               /\ \/ q.filter = {} /\ Keeps(k, kept, all)
                  \/ q.filter # {} /\ kept = all
                  => \A x \in Matching(q, v) :
                         \/ \E i \in 1 .. m : e[i] = x
                         \/ m = k /\ \A i \in 1 .. m : Before(q, e[i], x)

\* The results of a search of some of the live slots fit the version; they are
\* exact if the slots were the best for a search without a filter, or all.
LEMMA ResultsFit ==
    ASSUME NEW s \in Store, NEW r, NEW h \in BOOLEAN, ~h => \A id \in Ids : r[id] = {},
           NEW q, q.vec \in Vecs, NEW k \in Nat, q.k = k,
           NEW all, all = CandidatesOf(q.vec, s.slots, LiveSlots(s.slots)),
           NEW kept \in SUBSET all, IsFiniteSet(all)
    PROVE  Answers(q, k, kept, all, Version(s, r),
                   Results(q, kept, [i \in DOMAIN s.slots |-> s.slots[i].id], r, h))
  <1> DEFINE slots == s.slots
             live == LiveSlots(slots)
             id == [i \in DOMAIN slots |-> slots[i].id]
             v == Version(s, r)
             given == h /\ (q.filter # {} \/ q.include)
             hit(c) == [id    |-> id[c.slot],
                        score |-> Score(c.key),
                        meta  |-> IF given THEN r[id[c.slot]] ELSE {}]
             passes(c) == q.filter = {} \/ (given /\ FilterMatches(q.filter, r[id[c.slot]]))
             P == {c \in kept : passes(c)}
             t == TakeSorted(P)
             chosen == FirstOf(k, t)
             res == Results(q, kept, id, r, h)
             n == Cardinality(P)
             m == IF k < n THEN k ELSE n
             at(c) == EntryAt(s, r, c.slot)
  <1>1. res = [i \in DOMAIN chosen |-> hit(chosen[i])]
    BY DEF Results
  <1>2. slots \in Seq(Slot)
    BY DEF Store
  <1>3. all \in SUBSET Candidate
    BY <1>2, CandidatesType
  <1>4. \A c \in all : /\ c.slot \in live /\ c.key = RankKey(q.vec, slots[c.slot].vec)
                       /\ id[c.slot] = slots[c.slot].id /\ slots[c.slot].id \in Ids
    BY <1>2, LiveSlotsType DEF CandidatesOf, CandidatesIn
  <1>5. \A c, d \in all : Better(c, d) <=> Before(q, at(c), at(d))
    <2>1. ASSUME NEW c \in all, NEW d \in all PROVE Better(c, d) <=> Before(q, at(c), at(d))
      <3>1. /\ at(c).slot = c.slot /\ RankKey(q.vec, at(c).vec) = c.key
            /\ at(d).slot = d.slot /\ RankKey(q.vec, at(d).vec) = d.key
        BY <1>4 DEF EntryAt
      <3> HIDE DEF at
      <3>2. QED
        BY <3>1 DEF Better, Before
    <2>2. QED
      BY <2>1
  <1>6. ASSUME NEW c \in all
        PROVE  /\ passes(c) <=> at(c) \in Matching(q, v)
               /\ hit(c) = Hit(q, at(c))
    <2>1. at(c) \in v /\ at(c).meta = r[slots[c.slot].id] /\ at(c).id = slots[c.slot].id
          /\ at(c).vec = slots[c.slot].vec
      BY <1>4, VersionEntries DEF EntryAt
    <2>2. ~h => at(c).meta = {}
      BY <1>4, <2>1
    <2>3. q.filter # {} => ~FilterMatches(q.filter, {})
      BY DEF FilterMatches, ConditionMatches
    <2>4. passes(c) <=> q.filter = {} \/ FilterMatches(q.filter, at(c).meta)
      <3>1. id[c.slot] = slots[c.slot].id
        BY <1>4
      <3>2. CASE h
        BY <2>1, <3>1, <3>2
      <3>3. CASE ~h
        BY <2>2, <2>3, <3>3
      <3>4. QED
        BY <3>2, <3>3
    <2>5. hit(c) = Hit(q, at(c))
      <3>1. id[c.slot] = at(c).id /\ c.key = RankKey(q.vec, at(c).vec)
        BY <1>4, <2>1
      <3>2. (IF given THEN r[id[c.slot]] ELSE {})
                = IF q.filter # {} \/ q.include THEN at(c).meta ELSE {}
        BY <2>1, <2>2, <3>1
      <3> HIDE DEF id, given
      <3>3. QED
        BY <3>1, <3>2 DEF Hit
    <2>6. QED
      BY <2>1, <2>4, <2>5 DEF Matching
  <1>7. \A x \in Matching(q, v) : \E c \in all : x = at(c) /\ passes(c)
    <2> TAKE x \in Matching(q, v)
    <2>1. x \in v
      BY DEF Matching
    <2>2. PICK i \in live : x = EntryAt(s, r, i)
      BY <2>1, VersionEntries
    <2>3. PICK c \in all : c.slot = i
      <3>1. CandidatesIn(q.vec, slots, live)[i] \in all
        BY DEF CandidatesOf
      <3>2. CandidatesIn(q.vec, slots, live)[i].slot = i
        BY DEF CandidatesIn
      <3>3. QED
        BY <3>1, <3>2
    <2>4. QED
      BY <1>6, <2>2, <2>3
  <1>8. P \in SUBSET all /\ P \in SUBSET Candidate /\ IsFiniteSet(P)
    BY <1>3, FS_Subset
  <1> HIDE DEF slots, live, id, v, given, hit, passes, P, t, res, n, at
  <1>9. /\ n \in Nat /\ t \in Seq(P) /\ Len(t) = n
        /\ \A i \in 1 .. n : t[i] \in P
        /\ \A i, j \in 1 .. n : i < j => Better(t[i], t[j])
        /\ \A c \in P : \E i \in 1 .. n : t[i] = c
    BY <1>8, TakeSortedSorts DEF t, n
  <1>10. m \in Nat /\ m <= k /\ m <= n /\ \A i \in 1 .. m : i \in 1 .. n
    BY <1>9
  <1>11. DOMAIN chosen = 1 .. m /\ \A i \in 1 .. m : chosen[i] = t[i]
    <2>1. chosen = SubSeq(t, 1, m)
      BY <1>9 DEF FirstOf
    <2>2. \A i \in 1 .. m : t[i] \in P
      BY <1>9, <1>10
    <2> HIDE DEF m
    <2>3. /\ SubSeq(t, 1, m) \in Seq(P) /\ Len(SubSeq(t, 1, m)) = (IF 1 <= m THEN m - 1 + 1 ELSE 0)
          /\ \A i \in 1 .. m - 1 + 1 : SubSeq(t, 1, m)[i] = t[1 + i - 1]
      BY <1>9, <1>10, <2>2, SubSeqProperties
    <2>4. Len(SubSeq(t, 1, m)) = m /\ \A i \in 1 .. m : SubSeq(t, 1, m)[i] = t[i]
      BY <1>10, <2>3
    <2>5. DOMAIN SubSeq(t, 1, m) = 1 .. m
      BY <2>3, <2>4
    <2>6. QED
      BY <2>1, <2>4, <2>5
  <1> HIDE DEF chosen, m
  <1>12. res = [i \in 1 .. m |-> hit(t[i])]
    BY <1>1, <1>11
  <1>13. Len(res) = m /\ DOMAIN res = 1 .. m
    BY <1>10, <1>12
  <1> DEFINE e == [i \in 1 .. m |-> at(t[i])]
  <1>14. \A i \in 1 .. m : t[i] \in P /\ t[i] \in all /\ passes(t[i]) /\ e[i] = at(t[i])
    BY <1>8, <1>9, <1>10 DEF P
  <1>15. e \in [1 .. m -> Matching(q, v)]
    BY <1>6, <1>14
  <1>16. \A i \in 1 .. m : res[i] = Hit(q, e[i])
    BY <1>6, <1>12, <1>14
  <1>17. \A i, j \in 1 .. m : i < j => Before(q, e[i], e[j])
    BY <1>5, <1>9, <1>10, <1>14
  <1>18. ASSUME \/ q.filter = {} /\ Keeps(k, kept, all)
                \/ q.filter # {} /\ kept = all,
                NEW x \in Matching(q, v)
         PROVE  \/ \E i \in 1 .. m : e[i] = x
                \/ m = k /\ \A i \in 1 .. m : Before(q, e[i], x)
    <2>1. PICK c \in all : x = at(c) /\ passes(c)
      BY <1>7
    <2>2. CASE c \in P
      <3>1. PICK i \in 1 .. n : t[i] = c
        BY <1>9, <2>2
      <3>2. CASE i \in 1 .. m
        BY <1>14, <2>1, <3>1, <3>2
      <3>3. CASE i \notin 1 .. m
        <4>1. m = k /\ \A j \in 1 .. m : j < i
          BY <1>9, <3>1, <3>3 DEF m
        <4>2. \A j \in 1 .. m : Better(t[j], c)
          BY <1>9, <1>10, <3>1, <4>1
        <4>3. QED
          BY <1>5, <1>14, <2>1, <4>1, <4>2
      <3>4. QED
        BY <3>2, <3>3
    <2>3. CASE c \notin P
      <3>1. c \notin kept
        BY <2>1, <2>3 DEF P
      <3>2. q.filter = {} /\ Keeps(k, kept, all)
        BY <1>18, <3>1
      <3>3. P = kept
        BY <3>2 DEF P, passes
      <3>4. Cardinality(kept) = k /\ \A d \in kept : Better(d, c)
        BY <3>1, <3>2 DEF Keeps
      <3>5. m = k
        BY <3>3, <3>4 DEF m, n
      <3>6. QED
        BY <1>5, <1>14, <2>1, <3>3, <3>4, <3>5
    <2>4. QED
      BY <2>2, <2>3
  <1> HIDE DEF e
  <1>19. QED
    BY <1>10, <1>13, <1>15, <1>16, <1>17, <1>18
    DEF Answers, res, id, slots, v

(***************************************************************************)
(* The inductive invariant                                                 *)
(***************************************************************************)
\* The places of a thread that holds the lock.
Reading == {"search", "get", "getmeta"}
Writing == {"body", "rows"}

\* The metadata that a workload can write, an entry of a version, and how far
\* a call has come.
Metas == SUBSET UNION {op.meta : op \in Operations}

Entry == [slot : Nat, id : Ids, vec : Vecs, meta : Metas]

Progress == [at : Nat, last : Nat, bound : Nat, kept : SUBSET (Candidate \cup Vecs), from : Nat]

\* The types, of the threads' calls and of the log too.
Types ==
    /\ store \in Store
    /\ rows \in [Ids -> Metas]
    /\ hasMeta \in BOOLEAN
    /\ nextId \in Ids
    /\ readers \subseteq Threads
    /\ writers \subseteq Threads
    /\ todo \subseteq UNION Workloads
    /\ pc \in [Threads -> {"idle", "lock", "search", "get", "getmeta", "body", "rows"}]
    /\ call \in [Threads -> SUBSET UNION Workloads]
    /\ work \in [Threads -> Progress]
    /\ log \in Seq(SUBSET Entry)

\* Many readers or one writer, and they hold the lock that think so.
LockInv ==
    /\ readers = {t \in Threads : pc[t] \in Reading}
    /\ writers = {t \in Threads : pc[t] \in Writing}
    /\ readers = {} \/ writers = {}
    /\ \A t, u \in writers : t = u

\* The last version is the database, unless somebody is changing it.
LogInv ==
    /\ Len(log) >= 1
    /\ writers = {} => log[Len(log)] = Version(store, rows)

\* The store's parts agree; without the hint there are no rows.
DatabaseInv ==
    /\ StoreConsistent(store)
    /\ ~hasMeta => \A id \in Ids : rows[id] = {}

\* The live slots that a scan has passed when it comes to slot n.
Below(n) == {i \in LiveSlots(store.slots) : i < n}

\* A thread works at one call, of the kind that its place belongs to, and the
\* version of its beginning is still in the log.  What a reader has read so
\* far is what it would read now.  A writer is inside its body, and has rows
\* to write when it says so.
ThreadInv(t) ==
    /\ pc[t] # "idle" => call[t] = {Call(t)} /\ work[t].from \in 1 .. Len(log)
    /\ pc[t] = "lock" => work[t].kept = {}
    /\ pc[t] = "search" =>
           /\ Call(t).kind = "search"
           /\ work[t].last = Len(store.slots)
           /\ work[t].bound = ExactFetch(Call(t), Len(store.slots))
           /\ work[t].at \in 1 .. Len(store.slots) + 1
           /\ Keeps(work[t].bound, work[t].kept,
                    CandidatesOf(Call(t).vec, store.slots, Below(work[t].at)))
    /\ pc[t] \in {"get", "getmeta"} => Call(t).kind = "get"
    /\ pc[t] = "getmeta" =>
           /\ Contains(store, Call(t).id)
           /\ work[t].kept = {store.slots[store.idToLocal[Call(t).id]].vec}
    /\ pc[t] \in Writing => Call(t).kind = "write" /\ work[t].at \in Nat \ {0}
    /\ pc[t] = "rows" =>
           /\ work[t].at <= Len(Call(t).body)
           /\ \/ Operation(t).op = "insert" /\ Operation(t).meta # {}
              \/ Operation(t).op = "remove"

\* Every answer fits a version from the time of its call.
AnswerInv ==
    \A a \in answers :
        /\ a.from \in Nat \ {0} /\ a.to \in 1 .. Len(log)
        /\ \E n \in a.from .. a.to : Fits(a, log[n])

\* The inductive invariant.
CInv ==
    /\ Types
    /\ LockInv
    /\ LogInv
    /\ DatabaseInv
    /\ \A t \in Threads : ThreadInv(t)
    /\ AnswerInv

\* The invariant has the type invariant in it: a collector holds what Keeps allows.
LEMMA CInvTypeOK == CInv => TypeOK
  <1> SUFFICES ASSUME CInv PROVE TypeOK
    OBVIOUS
  <1>1. ASSUME NEW t \in Threads, pc[t] = "search"
        PROVE  Cardinality(work[t].kept) <= work[t].bound
    BY <1>1 DEF CInv, ThreadInv, Keeps
  <1>2. QED
    BY <1>1 DEF CInv, Types, TypeOK, Metas

\* And it has the answers' fit in it.
LEMMA CInvAtomic == CInv => ReadsAreAtomic
  BY DEF CInv, AnswerInv, ReadsAreAtomic

\* What a version is made of.
LEMMA VersionType ==
    ASSUME NEW s \in Store, NEW r \in [Ids -> Metas]
    PROVE  Version(s, r) \in SUBSET Entry
  <1>1. s.slots \in Seq(Slot)
    BY DEF Store
  <1>2. \A i \in LiveSlots(s.slots) : /\ i \in Nat /\ s.slots[i].id \in Ids
                                      /\ s.slots[i].vec \in Vecs
                                      /\ r[s.slots[i].id] \in Metas
    BY <1>1, LiveSlotsType DEF Slot
  <1>3. \A i \in LiveSlots(s.slots) : EntryAt(s, r, i) \in Entry
    BY <1>2 DEF EntryAt, Entry
  <1>4. QED
    BY <1>3, VersionEntries

\* A new database, and one loaded from slots with ids of their own.
LEMMA CInvInit == Init => CInv
  <1> SUFFICES ASSUME Init PROVE CInv
    OBVIOUS
  <1>1. PICK slots \in FirstSlots : store = StoreOf(slots)
    BY DEF Init
  <1>2. /\ slots \in Seq(Slot) /\ Len(slots) <= MaxId
        /\ UniqueLiveIds(slots)
    BY <1>1, DatabaseAssumption DEF UniqueLiveIds
  <1>3. store \in Store /\ StoreConsistent(store) /\ store.slots = slots
    BY <1>1, <1>2, StoreOfConsistent
  <1>4. nextId \in Ids
    BY <1>2, <1>3, StoreAssumption DEF Init, Ids
  <1>5. rows \in [Ids -> Metas] /\ \A id \in Ids : rows[id] = {}
    BY DEF Init, Metas
  <1>6. Version(store, rows) \in SUBSET Entry
    BY <1>3, <1>5, VersionType
  <1>7. log \in Seq(SUBSET Entry) /\ Len(log) = 1 /\ log[1] = Version(store, rows)
    <2>1. PICK v \in SUBSET Entry : v = Version(store, rows)
      BY <1>6
    <2>2. log = <<v>>
      BY <2>1 DEF Init
    <2> HIDE DEF Entry
    <2>3. QED
      BY <2>1, <2>2
  <1>8. work \in [Threads -> Progress]
    BY DEF Init, NoWork, Progress
  <1>9. Types
    BY <1>3, <1>4, <1>5, <1>7, <1>8 DEF Init, Types
  <1>10. \A t \in Threads : pc[t] = "idle"
    BY DEF Init
  <1>11. LockInv
    BY <1>10 DEF Init, LockInv, Reading, Writing
  <1>12. LogInv
    BY <1>7 DEF LogInv
  <1>13. DatabaseInv
    BY <1>3, <1>5 DEF DatabaseInv
  <1>14. \A t \in Threads : ThreadInv(t)
    BY <1>10 DEF ThreadInv, Writing
  <1>15. AnswerInv
    BY DEF Init, AnswerInv
  <1>16. QED
    BY <1>9, <1>11, <1>12, <1>13, <1>14, <1>15 DEF CInv

\* A thread that does nothing keeps its invariant: a reader's, while nobody
\* changes the store.
LEMMA OtherThread ==
    ASSUME CInv, NEW t \in Threads,
           pc'[t] = pc[t], call'[t] = call[t], work'[t] = work[t],
           Len(log') \in Nat, Len(log') >= Len(log),
           \/ UNCHANGED <<store, nextId>>
           \/ pc[t] \notin Reading \cup Writing
    PROVE  ThreadInv(t)'
  <1>1. ThreadInv(t) /\ Len(log) \in Nat
    BY DEF CInv, Types
  <1>2. Call(t)' = Call(t)
    BY DEF Call
  <1>3. work[t].from \in 1 .. Len(log) => work[t].from \in 1 .. Len(log')
    BY <1>1
  <1>4. CASE UNCHANGED <<store, nextId>>
    <2>1. Operation(t)' = Operation(t)
      BY <1>2, <1>4 DEF Operation
    <2>2. \A n \in Nat : Below(n)' = Below(n)
      BY <1>4 DEF Below
    <2>3. QED
      BY <1>1, <1>2, <1>3, <1>4, <2>1 DEF ThreadInv, Below
  <1>5. CASE pc[t] \notin Reading \cup Writing
    BY <1>1, <1>2, <1>3, <1>5 DEF ThreadInv, Reading, Writing
  <1>6. QED
    BY <1>4, <1>5

\* The call that a thread works at.
LEMMA CallOfThread ==
    ASSUME CInv, NEW t \in Threads, pc[t] # "idle"
    PROVE  /\ Call(t) \in UNION Workloads /\ call[t] = {Call(t)} /\ work[t] \in Progress
           /\ work[t].from \in 1 .. Len(log) /\ Len(log) \in Nat
  <1>1. call[t] = {Call(t)} /\ work[t].from \in 1 .. Len(log)
    BY DEF CInv, ThreadInv
  <1>2. call[t] \in SUBSET UNION Workloads /\ work[t] \in Progress /\ Len(log) \in Nat
    BY DEF CInv, Types
  <1>3. QED
    BY <1>1, <1>2

\* While there is a reader the last version is the database.
LEMMA ReaderSeesLast ==
    ASSUME CInv, NEW t \in Threads, pc[t] \in Reading
    PROVE  /\ t \in readers /\ writers = {}
           /\ log[Len(log)] = Version(store, rows)
           /\ \A u \in Threads : pc[u] \notin Writing
  <1>1. t \in readers /\ writers = {}
    BY DEF CInv, LockInv
  <1>2. QED
    BY <1>1 DEF CInv, LockInv, LogInv

\* A writer is alone.
LEMMA WriterIsAlone ==
    ASSUME CInv, NEW t \in Threads, pc[t] \in Writing
    PROVE  /\ readers = {} /\ writers = {t}
           /\ \A u \in Threads \ {t} : pc[u] \notin Reading \cup Writing
  <1>1. t \in writers /\ readers = {}
    BY DEF CInv, LockInv
  <1>2. writers = {t}
    BY <1>1 DEF CInv, LockInv
  <1>3. QED
    BY <1>1, <1>2 DEF CInv, LockInv

\* A thread between two calls has found nothing.
LEMMA NoWorkType == NoWork \in Progress /\ NoWork.kept = {}
  BY DEF NoWork, Progress

\* A call begins: it will answer from a version no older than this one.
LEMMA StartPreserves ==
    ASSUME CInv, NEW t \in Threads, Start(t)
    PROVE  CInv'
  <1>1. PICK c \in todo : todo' = todo \ {c} /\ call' = [call EXCEPT ![t] = {c}]
    BY DEF Start
  <1>2. c \in UNION Workloads
    BY DEF CInv, Types
  <1> DEFINE w == [NoWork EXCEPT !.from = Len(log)]
  <1>3. Len(log) \in Nat \ {0}
    BY DEF CInv, Types, LogInv
  <1>4. w \in Progress /\ w.from = Len(log) /\ w.kept = {}
    BY <1>3 DEF NoWork, Progress
  <1>5. work' = [work EXCEPT ![t] = w] /\ pc' = [pc EXCEPT ![t] = "lock"] /\ pc[t] = "idle"
    BY DEF Start, Goto
  <1>6. UNCHANGED <<store, rows, hasMeta, nextId, readers, writers, answers, log>>
    BY DEF Start, database, lock
  <1> HIDE DEF w
  <1>7. Types'
    BY <1>1, <1>2, <1>4, <1>5, <1>6 DEF CInv, Types
  <1>8. LockInv'
    BY <1>5, <1>6 DEF CInv, Types, LockInv, Reading, Writing
  <1>9. LogInv' /\ DatabaseInv' /\ AnswerInv'
    BY <1>6 DEF CInv, LogInv, DatabaseInv, AnswerInv
  <1>10. ASSUME NEW u \in Threads PROVE ThreadInv(u)'
    <2>1. CASE u = t
      <3>1. pc'[t] = "lock" /\ call'[t] = {c} /\ work'[t] = w
        BY <1>1, <1>5 DEF CInv, Types
      <3>2. Call(t)' = c
        BY <3>1 DEF Call
      <3>3. work'[t].from \in 1 .. Len(log')
        BY <1>3, <1>4, <1>6, <3>1
      <3>4. QED
        BY <1>4, <2>1, <3>1, <3>2, <3>3 DEF ThreadInv, Writing
    <2>2. CASE u # t
      BY <1>1, <1>3, <1>5, <1>6, <2>2, OtherThread DEF CInv, Types
    <2>3. QED
      BY <2>1, <2>2
  <1>11. QED
    BY <1>7, <1>8, <1>9, <1>10 DEF CInv

\* How many candidates are asked for is a size_t.
LEMMA FetchType ==
    ASSUME NEW c \in UNION Workloads, c.kind = "search", NEW n \in Nat
    PROVE  c.vec \in Vecs /\ c.k \in Nat /\ ExactFetch(c, n) \in Nat
  BY DatabaseAssumption DEF ExactFetch

\* A reader takes the lock: what it has read, nothing, is what it would read.
LEMMA LockSharedPreserves ==
    ASSUME CInv, NEW t \in Threads, LockShared(t)
    PROVE  CInv'
  <1>1. /\ pc[t] = "lock" /\ writers = {} /\ Call(t).kind # "write"
        /\ readers' = readers \cup {t} /\ pc' = [pc EXCEPT ![t] = Call(t).kind]
        /\ UNCHANGED <<store, rows, hasMeta, nextId, writers, todo, call, answers, log>>
    BY DEF LockShared, Readable, Goto, database
  <1>2. Call(t) \in UNION Workloads /\ call[t] = {Call(t)} /\ work[t] \in Progress
        /\ work[t].from \in 1 .. Len(log) /\ Len(log) \in Nat
    BY <1>1, CallOfThread
  <1>3. Call(t).kind \in {"search", "get"}
    BY <1>1, <1>2, DatabaseAssumption
  <1>4. Len(store.slots) \in Nat
    BY DEF CInv, Types, Store
  <1> DEFINE b == IF Call(t).kind = "search" THEN ExactFetch(Call(t), Len(store.slots)) ELSE 0
             w == [work[t] EXCEPT !.at = 1, !.last = Len(store.slots), !.bound = b]
  <1>5. b \in Nat
    BY <1>2, <1>4, FetchType
  <1>6. work' = [work EXCEPT ![t] = w]
    BY <1>2 DEF LockShared, CInv, Types
  <1>7. /\ w \in Progress /\ w.at = 1 /\ w.last = Len(store.slots) /\ w.bound = b
        /\ w.kept = {} /\ w.from = work[t].from
    <2>1. work[t].kept = {}
      BY <1>1 DEF CInv, ThreadInv
    <2> HIDE DEF b
    <2>2. QED
      BY <1>2, <1>4, <1>5, <2>1 DEF Progress
  <1> HIDE DEF w
  <1>8. Types'
    BY <1>1, <1>3, <1>6, <1>7 DEF CInv, Types
  <1>9. LockInv'
    BY <1>1, <1>3 DEF CInv, Types, LockInv, Reading, Writing
  <1>10. LogInv' /\ DatabaseInv' /\ AnswerInv'
    BY <1>1 DEF CInv, LogInv, DatabaseInv, AnswerInv
  <1>11. ASSUME NEW u \in Threads PROVE ThreadInv(u)'
    <2>1. CASE u = t
      <3>1. pc'[t] = Call(t).kind /\ call'[t] = call[t] /\ work'[t] = w
        BY <1>1, <1>6 DEF CInv, Types
      <3>2. Call(t)' = Call(t)
        BY <3>1 DEF Call
      <3>3. work'[t].from \in 1 .. Len(log')
        BY <1>1, <1>2, <1>7, <3>1
      <3>4. CASE Call(t).kind = "get"
        BY <1>2, <2>1, <3>1, <3>2, <3>3, <3>4 DEF ThreadInv, Writing
      <3>5. CASE Call(t).kind = "search"
        <4>1. b = ExactFetch(Call(t), Len(store.slots))
          BY <3>5
        <4>2. {i \in LiveSlots(store.slots) : i < 1} = {}
          BY LiveSlotsType DEF CInv, Types, Store
        <4>3. CandidatesOf(Call(t).vec, store.slots, {i \in LiveSlots(store.slots) : i < 1}) = {}
          BY <4>2 DEF CandidatesOf
        <4>4. Keeps(b, {}, {})
          BY <1>5, KeepsNothing
        <4> HIDE DEF b
        <4>5. Below(1)' = {i \in LiveSlots(store.slots) : i < 1}
          BY <1>1 DEF Below
        <4>6. /\ work'[t].last = Len(store'.slots) /\ work'[t].at = 1
              /\ work'[t].bound = ExactFetch(Call(t), Len(store'.slots))
              /\ work'[t].at \in 1 .. Len(store'.slots) + 1
              /\ work'[t].bound = b /\ work'[t].kept = {}
          BY <1>1, <1>4, <1>7, <3>1, <4>1
        <4>7. Keeps(work'[t].bound, work'[t].kept,
                    CandidatesOf(Call(t).vec, store'.slots, Below(1)'))
          BY <1>1, <4>3, <4>4, <4>5, <4>6
        <4>8. pc'[t] = "search" /\ call'[t] = {Call(t)}
          BY <1>2, <3>1, <3>5
        <4> HIDE DEF w
        <4>9. QED
          BY <2>1, <3>2, <3>3, <3>5, <4>6, <4>7, <4>8 DEF ThreadInv, Below, Writing
      <3>6. QED
        BY <1>3, <3>4, <3>5
    <2>2. CASE u # t
      BY <1>1, <1>2, <1>6, <2>2, OtherThread DEF CInv, Types
    <2>3. QED
      BY <2>1, <2>2
  <1>12. QED
    BY <1>8, <1>9, <1>10, <1>11 DEF CInv

\* What a search has found so far.
LEMMA SearchState ==
    ASSUME CInv, NEW t \in Threads, pc[t] = "search"
    PROVE  /\ store \in Store /\ store.slots \in Seq(Slot) /\ Len(store.slots) \in Nat
           /\ Call(t) \in UNION Workloads /\ Call(t).kind = "search" /\ Call(t).vec \in Vecs
           /\ Call(t).k \in Nat
           /\ work[t] \in Progress /\ work[t].last = Len(store.slots)
           /\ work[t].bound \in Nat /\ work[t].bound = ExactFetch(Call(t), Len(store.slots))
           /\ work[t].at \in 1 .. Len(store.slots) + 1
           /\ Keeps(work[t].bound, work[t].kept,
                    CandidatesOf(Call(t).vec, store.slots, Below(work[t].at)))
  <1>1. store \in Store /\ store.slots \in Seq(Slot) /\ Len(store.slots) \in Nat
    BY DEF CInv, Types, Store
  <1>2. Call(t) \in UNION Workloads /\ work[t] \in Progress
    BY CallOfThread
  <1>3. /\ Call(t).kind = "search" /\ work[t].last = Len(store.slots)
        /\ work[t].bound = ExactFetch(Call(t), Len(store.slots))
        /\ work[t].at \in 1 .. Len(store.slots) + 1
        /\ Keeps(work[t].bound, work[t].kept,
                 CandidatesOf(Call(t).vec, store.slots, Below(work[t].at)))
    BY DEF CInv, ThreadInv
  <1>4. Call(t).vec \in Vecs /\ Call(t).k \in Nat /\ ExactFetch(Call(t), Len(store.slots)) \in Nat
    BY <1>1, <1>2, <1>3, FetchType
  <1>5. QED
    BY <1>1, <1>2, <1>3, <1>4

\* A store has no more candidates than slots.
LEMMA CandidatesFinite ==
    ASSUME NEW slots \in Seq(Slot), NEW vec \in Vecs, NEW S \in SUBSET LiveSlots(slots)
    PROVE  /\ IsFiniteSet(CandidatesOf(vec, slots, S))
           /\ Cardinality(CandidatesOf(vec, slots, S)) \in Nat
           /\ Cardinality(CandidatesOf(vec, slots, S)) <= Len(slots)
  <1> DEFINE C == CandidatesOf(vec, slots, S)
             T == 1 .. Len(slots)
             f == [c \in C |-> c.slot]
  <1>1. IsFiniteSet(T) /\ Cardinality(T) = Len(slots) /\ Len(slots) \in Nat
    <2>1. Len(slots) \in Nat
      OBVIOUS
    <2>2. QED
      BY <2>1, FS_Interval
  <1>2. f \in [C -> T]
    BY CandidatesType DEF CandidatesOf
  <1>3. \A c, d \in C : c # d => f[c] # f[d]
    BY DEF CandidatesOf, CandidatesIn
  <1>4. f \in Injection(C, T)
    BY <1>2, <1>3 DEF Injection, IsInjective
  <1> HIDE DEF C, T, f
  <1>5. IsFiniteSet(C) /\ Cardinality(C) <= Cardinality(T)
    BY <1>1, <1>4, FS_Injection
  <1>6. QED
    BY <1>1, <1>5, FS_CardinalityType DEF C

\* One slot more is offered.
LEMMA ScanExtends ==
    ASSUME NEW slots \in Seq(Slot), NEW vec \in Vecs, NEW n \in 1 .. Len(slots),
           NEW k \in Nat \ {0}, NEW kept,
           Keeps(k, kept, CandidatesOf(vec, slots, {i \in LiveSlots(slots) : i < n}))
    PROVE  Keeps(k, IF n \in LiveSlots(slots)
                    THEN Offer(k, kept, [slot |-> n, key |-> RankKey(vec, slots[n].vec)]) ELSE kept,
                 CandidatesOf(vec, slots, {i \in LiveSlots(slots) : i < n + 1}))
  <1> DEFINE old == {i \in LiveSlots(slots) : i < n}
             new == {i \in LiveSlots(slots) : i < n + 1}
             C == CandidatesOf(vec, slots, old)
             D == CandidatesOf(vec, slots, new)
             c == [slot |-> n, key |-> RankKey(vec, slots[n].vec)]
  <1>1. \A i \in LiveSlots(slots) : i \in Nat
    BY LiveSlotsType
  <1>2. \A S \in SUBSET LiveSlots(slots) :
            CandidatesOf(vec, slots, S) =
                {[slot |-> i, key |-> RankKey(vec, slots[i].vec)] : i \in S}
    BY DEF CandidatesOf, CandidatesIn
  <1>3. CASE n \in LiveSlots(slots)
    <2>1. new = old \cup {n} /\ n \notin old
      <3>1. \A i \in LiveSlots(slots) : i < n + 1 <=> i < n \/ i = n
        BY <1>1
      <3>2. ~(n < n)
        OBVIOUS
      <3>3. n \notin old
        BY <3>2
      <3>4. new = old \cup {n}
        BY <1>3, <3>1, Zenon
      <3>5. QED
        BY <3>3, <3>4
    <2>2. D = C \cup {c} /\ c \notin C
      <3>1. old \in SUBSET LiveSlots(slots) /\ new \in SUBSET LiveSlots(slots)
        OBVIOUS
      <3> HIDE DEF old, new
      <3>2. QED
        BY <1>2, <2>1, <3>1
    <2>3. C \in SUBSET Candidate /\ IsFiniteSet(C) /\ c \in Candidate
      <3>1. old \in SUBSET LiveSlots(slots) /\ new \in SUBSET LiveSlots(slots)
        OBVIOUS
      <3> HIDE DEF old, new, c
      <3>2. C \in SUBSET Candidate /\ IsFiniteSet(C) /\ D \in SUBSET Candidate
        BY <3>1, CandidatesType, CandidatesFinite
      <3>3. QED
        BY <2>2, <3>2
    <2> HIDE DEF C, D, c
    <2>4. Keeps(k, Offer(k, kept, c), C \cup {c})
      <3>1. PICK E : E = C
        OBVIOUS
      <3>2. PICK d \in Candidate : d = c
        BY <2>3
      <3>3. E \in SUBSET Candidate /\ IsFiniteSet(E) /\ Keeps(k, kept, E) /\ d \notin E
        BY <2>2, <2>3, <3>1, <3>2 DEF C
      <3>4. Keeps(k, Offer(k, kept, d), E \cup {d})
        BY <3>3, OfferKeeps
      <3>5. QED
        BY <3>1, <3>2, <3>4
    <2>5. QED
      BY <1>3, <2>2, <2>4 DEF D, c
  <1>4. CASE n \notin LiveSlots(slots)
    <2>1. new = old
      BY <1>1, <1>4
    <2> HIDE DEF old, new
    <2>2. QED
      BY <1>4, <2>1 DEF old, new
  <1>5. QED
    BY <1>3, <1>4

\* One turn of search_range, under the lock.
LEMMA ScanPreserves ==
    ASSUME CInv, NEW t \in Threads, Scan(t)
    PROVE  CInv'
  <1>1. /\ pc[t] = "search" /\ ~Refuses(Call(t)) /\ UseExact(Call(t)) /\ work[t].at <= work[t].last
        /\ UNCHANGED <<store, rows, hasMeta, nextId, readers, writers>>
        /\ UNCHANGED <<todo, pc, call, answers, log>>
    BY DEF Scan, database, lock
  <1> DEFINE slots == store.slots
             n == work[t].at
             b == work[t].bound
             vec == Call(t).vec
             kept == IF n \in LiveSlots(slots) THEN Offer(b, work[t].kept, CandidateAt(t, n))
                     ELSE work[t].kept
             w == [work[t] EXCEPT !.at = n + 1, !.kept = kept]
             seen(m) == CandidatesOf(vec, slots, {i \in LiveSlots(slots) : i < m})
  <1>2. /\ store \in Store /\ slots \in Seq(Slot) /\ Len(slots) \in Nat
        /\ vec \in Vecs /\ work[t] \in Progress /\ work[t].last = Len(slots)
        /\ b \in Nat /\ b = ExactFetch(Call(t), Len(slots)) /\ n \in 1 .. Len(slots) + 1
        /\ Keeps(b, work[t].kept, seen(n))
    BY <1>1, SearchState DEF Below
  <1>3. b \in Nat \ {0} /\ n \in 1 .. Len(slots)
    BY <1>1, <1>2 DEF Refuses
  <1>4. work' = [work EXCEPT ![t] = w]
    BY DEF Scan, CInv, Types
  <1>5. Keeps(b, kept, seen(n + 1))
    <2>1. PICK s \in Seq(Slot) : s = slots
      BY <1>2
    <2>2. PICK q \in Vecs : q = vec
      BY <1>2
    <2>3. PICK m \in 1 .. Len(s) : m = n
      BY <1>3, <2>1
    <2>4. PICK k \in Nat \ {0} : k = b
      BY <1>3
    <2>5. PICK old : old = work[t].kept
      OBVIOUS
    <2>6. Keeps(k, old, CandidatesOf(q, s, {i \in LiveSlots(s) : i < m}))
      BY <1>2, <2>1, <2>2, <2>3, <2>4, <2>5
    <2>7. Keeps(k, IF m \in LiveSlots(s)
                   THEN Offer(k, old, [slot |-> m, key |-> RankKey(q, s[m].vec)]) ELSE old,
                CandidatesOf(q, s, {i \in LiveSlots(s) : i < m + 1}))
      BY <2>6, ScanExtends
    <2>8. QED
      BY <2>1, <2>2, <2>3, <2>4, <2>5, <2>7 DEF CandidateAt
  <1>6. kept \in SUBSET Candidate
    <2>1. {i \in LiveSlots(slots) : i < n + 1} \in SUBSET LiveSlots(slots)
      OBVIOUS
    <2>2. seen(n + 1) \in SUBSET Candidate
      BY <1>2, <2>1, CandidatesType
    <2> HIDE DEF seen, kept
    <2>3. QED
      BY <1>5, <2>2 DEF Keeps
  <1> HIDE DEF kept
  <1>7. /\ w \in Progress /\ w.at = n + 1 /\ w.last = Len(slots) /\ w.bound = b /\ w.kept = kept
        /\ w.from = work[t].from
    <2>1. n + 1 \in Nat
      BY <1>3
    <2>2. PICK K \in SUBSET Candidate : K = kept
      BY <1>6
    <2>3. PICK p \in Progress : p = work[t]
      BY <1>2
    <2>4. w = [p EXCEPT !.at = n + 1, !.kept = K]
      BY <2>2, <2>3
    <2>5. w \in Progress /\ w.at = n + 1 /\ w.kept = K /\ w.last = p.last /\ w.bound = p.bound
          /\ w.from = p.from
      <3> HIDE DEF w, n
      <3>1. QED
        BY <2>1, <2>4 DEF Progress
    <2>6. QED
      BY <1>2, <2>2, <2>3, <2>5
  <1> HIDE DEF w
  <1>8. Types'
    BY <1>1, <1>4, <1>7 DEF CInv, Types
  <1>9. LockInv' /\ LogInv' /\ DatabaseInv' /\ AnswerInv'
    BY <1>1 DEF CInv, LockInv, LogInv, DatabaseInv, AnswerInv
  <1>10. ASSUME NEW u \in Threads PROVE ThreadInv(u)'
    <2>1. CASE u = t
      <3>1. /\ pc'[t] = "search" /\ call'[t] = {Call(t)} /\ work'[t] = w
            /\ work'[t].from \in 1 .. Len(log')
        BY <1>1, <1>4, <1>7, CallOfThread DEF CInv, Types
      <3>2. Call(t)' = Call(t)
        BY <1>1 DEF Call
      <3>3. PICK m \in Nat : m = n + 1
        BY <1>3
      <3>4. Below(m)' = {i \in LiveSlots(slots) : i < m}
        BY <1>1 DEF Below
      <3>5. /\ work'[t].last = Len(store'.slots) /\ work'[t].at = m
            /\ work'[t].bound = ExactFetch(Call(t), Len(store'.slots))
            /\ work'[t].at \in 1 .. Len(store'.slots) + 1
            /\ work'[t].bound = b /\ work'[t].kept = kept
        BY <1>1, <1>2, <1>3, <1>7, <3>1, <3>3
      <3>6. Keeps(work'[t].bound, work'[t].kept,
                  CandidatesOf(Call(t).vec, store'.slots, Below(m)'))
        BY <1>1, <1>5, <3>3, <3>4, <3>5
      <3>7. Call(t).kind = "search"
        BY <1>1, SearchState
      <3>8. QED
        BY <2>1, <3>1, <3>2, <3>5, <3>6, <3>7 DEF ThreadInv, Below, Writing
    <2>2. CASE u # t
      BY <1>1, <1>4, <2>2, OtherThread DEF CInv, Types
    <2>3. QED
      BY <2>1, <2>2
  <1>11. QED
    BY <1>8, <1>9, <1>10 DEF CInv

\* A read returns: it is enough that its answer fits the database.
LEMMA ReturnPreserves ==
    ASSUME CInv, NEW t \in Threads, pc[t] \in Reading, NEW how, NEW result,
           ReturnRead(t, how, result), UNCHANGED <<store, rows, hasMeta, nextId>>,
           NEW from, NEW to, from = work[t].from, to = Len(log),
           Fits([call |-> Call(t), from |-> from, to |-> to, how |-> how, result |-> result],
                Version(store, rows))
    PROVE  CInv'
  <1> DEFINE a == [call |-> Call(t), from |-> from, to |-> to, how |-> how, result |-> result]
  <1>1. /\ readers' = readers \ {t} /\ answers' = answers \cup {a}
        /\ call' = [call EXCEPT ![t] = {}] /\ work' = [work EXCEPT ![t] = NoWork]
        /\ pc' = [pc EXCEPT ![t] = "idle"]
        /\ UNCHANGED <<store, rows, hasMeta, nextId, writers, todo, log>>
    BY DEF ReturnRead, Goto
  <1>2. Types'
    BY <1>1, NoWorkType DEF CInv, Types
  <1>3. LockInv'
    BY <1>1 DEF CInv, Types, LockInv, Reading, Writing
  <1>4. LogInv' /\ DatabaseInv'
    BY <1>1 DEF CInv, LogInv, DatabaseInv
  <1>5. ASSUME NEW u \in Threads PROVE ThreadInv(u)'
    <2>1. CASE u = t
      <3>1. pc'[t] = "idle"
        BY <1>1 DEF CInv, Types
      <3>2. QED
        BY <2>1, <3>1 DEF ThreadInv, Writing
    <2>2. CASE u # t
      BY <1>1, <2>2, OtherThread DEF CInv, Types
    <2>3. QED
      BY <2>1, <2>2
  <1>6. AnswerInv'
    <2>1. from \in 1 .. Len(log) /\ to = Len(log) /\ Len(log) \in Nat
      BY CallOfThread DEF Reading
    <2>2. log[to] = Version(store, rows)
      BY ReaderSeesLast
    <2>3. /\ a.from \in Nat \ {0} /\ a.to \in 1 .. Len(log)
          /\ \E n \in a.from .. a.to : Fits(a, log[n])
      <3>1. a.from = from /\ a.to = to /\ to \in from .. to
        BY <2>1
      <3>2. Fits(a, log[to])
        BY <2>2
      <3> HIDE DEF a
      <3>3. QED
        BY <2>1, <3>1, <3>2
    <2> HIDE DEF a
    <2>4. QED
      BY <1>1, <2>3 DEF CInv, AnswerInv
  <1>7. QED
    BY <1>2, <1>3, <1>4, <1>5, <1>6 DEF CInv

\* A search throws where it may.
LEMMA RefusePreserves ==
    ASSUME CInv, NEW t \in Threads, Refuse(t)
    PROVE  CInv'
  <1>1. /\ pc[t] = "search" /\ Refuses(Call(t)) /\ ReturnRead(t, "throws", <<>>)
        /\ UNCHANGED <<store, rows, hasMeta, nextId>>
    BY DEF Refuse, ReturnRead, database
  <1>2. store \in Store /\ Call(t).kind = "search" /\ Call(t).k \in Nat
    BY <1>1, SearchState
  <1>3. PICK from : from = work[t].from
    OBVIOUS
  <1>4. PICK to : to = Len(log)
    OBVIOUS
  <1>5. PICK q : q = Call(t)
    OBVIOUS
  <1> DEFINE a == [call |-> q, from |-> from, to |-> to, how |-> "throws", result |-> <<>>]
  <1>6. Refusable(q, Version(store, rows))
    <2>1. CASE q.filter = {}
      BY <1>1, <1>5, <2>1 DEF Refuses, ExactFetch, GraphFetch, Refusable
    <2>2. CASE q.filter # {} /\ UseExact(q) /\ Len(store.slots) = 0
      <3>1. store.slots \in Seq(Slot)
        BY <1>2 DEF Store
      <3>2. LiveSlots(store.slots) = {}
        BY <2>2, <3>1, LiveSlotsType
      <3>3. Version(store, rows) = {}
        BY <3>2 DEF Version
      <3>4. QED
        BY <2>2, <3>3 DEF Refusable
    <2>3. CASE q.filter # {} /\ ~UseExact(q) /\ GraphFetch(q) = 0
      BY <2>3 DEF GraphFetch, Refusable
    <2>4. CASE q.k = 0
      BY <2>4 DEF Refusable
    <2>5. QED
      BY <1>1, <1>5, <2>1, <2>2, <2>3, <2>4 DEF Refuses, ExactFetch
  <1>7. Fits(a, Version(store, rows))
    <2>1. q.kind = "search"
      BY <1>2, <1>5
    <2>2. QED
      BY <1>6, <2>1 DEF Fits
  <1>8. QED
    BY <1>1, <1>3, <1>4, <1>5, <1>7, ReturnPreserves DEF Reading

\* What a search returns is a Results that fits.
LEMMA SearchReturns ==
    ASSUME CInv, NEW t \in Threads, pc[t] = "search",
           UNCHANGED <<store, rows, hasMeta, nextId>>,
           NEW kept \in SUBSET CandidatesOf(Call(t).vec, store.slots, LiveSlots(store.slots)),
           UseExact(Call(t)) =>
               LET all == CandidatesOf(Call(t).vec, store.slots, LiveSlots(store.slots))
               IN  \/ Call(t).filter = {} /\ Keeps(Call(t).k, kept, all)
                   \/ Call(t).filter # {} /\ kept = all,
           ReturnRead(t, "returns", Results(Call(t), kept, IdAt, rows, hasMeta))
    PROVE  CInv'
  <1>1. PICK s \in Store : s = store
    BY DEF CInv, Types
  <1>2. PICK r : r = rows
    OBVIOUS
  <1>3. PICK h \in BOOLEAN : h = hasMeta
    BY DEF CInv, Types
  <1>4. ~h => \A id \in Ids : r[id] = {}
    BY <1>2, <1>3 DEF CInv, DatabaseInv
  <1>5. PICK q : q = Call(t)
    OBVIOUS
  <1>6. q.vec \in Vecs /\ q.k \in Nat /\ q.kind = "search"
    BY <1>5, SearchState
  <1>7. PICK all : all = CandidatesOf(q.vec, s.slots, LiveSlots(s.slots))
    OBVIOUS
  <1>8. IsFiniteSet(all) /\ kept \in SUBSET all
    <2>1. s.slots \in Seq(Slot)
      BY DEF Store
    <2>2. IsFiniteSet(CandidatesOf(q.vec, s.slots, LiveSlots(s.slots)))
      BY <1>6, <2>1, CandidatesFinite
    <2>3. QED
      BY <1>1, <1>5, <1>7, <2>2
  <1>9. PICK k \in Nat : q.k = k
    BY <1>6
  <1>10. PICK res : res = Results(q, kept, [i \in DOMAIN s.slots |-> s.slots[i].id], r, h)
    OBVIOUS
  <1>11. PICK v : v = Version(s, r)
    OBVIOUS
  <1> DEFINE m == Len(res)
  <1>12. /\ m \in Nat /\ DOMAIN res = 1 .. m /\ m <= k
         /\ \E e \in [1 .. m -> Matching(q, v)] :
                /\ \A i \in 1 .. m : res[i] = Hit(q, e[i])
                /\ \A i, j \in 1 .. m : i < j => Before(q, e[i], e[j])
                /\ \/ q.filter = {} /\ Keeps(k, kept, all)
                   \/ q.filter # {} /\ kept = all
                   => \A x \in Matching(q, v) :
                          \/ \E i \in 1 .. m : e[i] = x
                          \/ m = k /\ \A i \in 1 .. m : Before(q, e[i], x)
    <2>1. q.vec \in Vecs
      BY <1>6
    <2>2. Answers(q, k, kept, all, Version(s, r),
                  Results(q, kept, [i \in DOMAIN s.slots |-> s.slots[i].id], r, h))
      BY <1>4, <1>7, <1>8, <1>9, <2>1, ResultsFit
    <2>3. Answers(q, k, kept, all, v, res)
      BY <1>10, <1>11, <2>2
    <2>4. QED
      BY <2>3 DEF Answers
  <1>13. UseExact(q) => \/ q.filter = {} /\ Keeps(k, kept, all)
                        \/ q.filter # {} /\ kept = all
    BY <1>1, <1>5, <1>7, <1>9
  <1>14. PICK from : from = work[t].from
    OBVIOUS
  <1>15. PICK to : to = Len(log)
    OBVIOUS
  <1> DEFINE a == [call |-> q, from |-> from, to |-> to, how |-> "returns", result |-> res]
  <1>16. Fits(a, v)
    <2>1. a.call = q /\ a.how = "returns" /\ a.result = res
      OBVIOUS
    <2> HIDE DEF a
    <2>2. PICK e \in [1 .. m -> Matching(q, v)] :
              /\ \A i \in 1 .. m : res[i] = Hit(q, e[i])
              /\ \A i, j \in 1 .. m : i < j => Before(q, e[i], e[j])
              /\ UseExact(q) =>
                     \A x \in Matching(q, v) :
                         \/ \E i \in 1 .. m : e[i] = x
                         \/ m = k /\ \A i \in 1 .. m : Before(q, e[i], x)
      BY <1>12, <1>13
    <2>3. DOMAIN e = 1 .. m /\ DOMAIN res = 1 .. m /\ Len(res) <= q.k
      BY <1>9, <1>12
    <2>4. \E f \in [DOMAIN res -> Matching(q, v)] :
              /\ \A i \in DOMAIN f : res[i] = Hit(q, f[i])
              /\ \A i, j \in DOMAIN f : i < j => Before(q, f[i], f[j])
              /\ UseExact(q) =>
                     \A x \in Matching(q, v) :
                         \/ \E i \in DOMAIN f : f[i] = x
                         \/ /\ Len(res) = q.k
                            /\ \A i \in DOMAIN f : Before(q, f[i], x)
      BY <1>9, <2>2, <2>3
    <2>5. QED
      BY <1>6, <2>1, <2>3, <2>4 DEF Fits
  <1>17. ReturnRead(t, "returns", res)
    BY <1>1, <1>2, <1>3, <1>5, <1>10 DEF IdAt
  <1>18. Fits([call |-> Call(t), from |-> from, to |-> to, how |-> "returns", result |-> res],
              Version(store, rows))
    BY <1>1, <1>2, <1>5, <1>11, <1>16
  <1>19. pc[t] \in Reading
    BY DEF Reading
  <1>20. QED
    BY <1>14, <1>15, <1>17, <1>18, <1>19, ReturnPreserves

\* An exact search returns the best of all live slots.
LEMMA ReturnScannedPreserves ==
    ASSUME CInv, NEW t \in Threads, ReturnScanned(t)
    PROVE  CInv'
  <1>1. /\ pc[t] = "search" /\ UseExact(Call(t)) /\ work[t].at > work[t].last
        /\ ReturnRead(t, "returns", Results(Call(t), work[t].kept, IdAt, rows, hasMeta))
        /\ UNCHANGED <<store, rows, hasMeta, nextId>>
    BY DEF ReturnScanned, ReturnRead, database
  <1> DEFINE slots == store.slots
             all == CandidatesOf(Call(t).vec, slots, LiveSlots(slots))
  <1>2. /\ slots \in Seq(Slot) /\ Len(slots) \in Nat /\ Call(t).vec \in Vecs
        /\ work[t].last = Len(slots) /\ work[t].at \in 1 .. Len(slots) + 1
        /\ work[t].bound \in Nat /\ work[t].bound = ExactFetch(Call(t), Len(slots))
        /\ Keeps(work[t].bound, work[t].kept,
                 CandidatesOf(Call(t).vec, slots, Below(work[t].at)))
    BY <1>1, SearchState
  <1>3. Below(work[t].at) = LiveSlots(slots)
    <2>1. work[t].at = Len(slots) + 1
      BY <1>1, <1>2
    <2>2. \A i \in LiveSlots(slots) : i < work[t].at
      BY <1>2, <2>1, LiveSlotsType
    <2>3. QED
      BY <2>2 DEF Below
  <1>4. Keeps(work[t].bound, work[t].kept, all)
    BY <1>2, <1>3
  <1>5. IsFiniteSet(all) /\ Cardinality(all) <= Len(slots) /\ all \in SUBSET Candidate
    BY <1>2, CandidatesFinite, CandidatesType
  <1>6. \/ Call(t).filter = {} /\ Keeps(Call(t).k, work[t].kept, all)
        \/ Call(t).filter # {} /\ work[t].kept = all
    <2>1. CASE Call(t).filter = {}
      BY <1>2, <1>4, <2>1 DEF ExactFetch
    <2>2. CASE Call(t).filter # {}
      <3>1. PICK k \in Nat : k = Len(slots)
        BY <1>2
      <3>2. PICK C : C = all
        OBVIOUS
      <3>3. PICK K : K = work[t].kept
        OBVIOUS
      <3>4. Keeps(k, K, C)
        BY <1>2, <1>4, <2>2, <3>1, <3>2, <3>3 DEF ExactFetch
      <3>5. C \in SUBSET Candidate /\ IsFiniteSet(C) /\ Cardinality(C) <= k
        BY <1>5, <3>1, <3>2
      <3>6. K = C
        BY <3>4, <3>5, KeepsAll
      <3>7. QED
        BY <2>2, <3>2, <3>3, <3>6
    <2>3. QED
      BY <2>1, <2>2
  <1>7. work[t].kept \in SUBSET all
    BY <1>4 DEF Keeps
  <1>8. PICK K \in SUBSET all : K = work[t].kept
    BY <1>7
  <1>9. QED
    BY <1>1, <1>6, <1>8, SearchReturns

\* A graph search returns some of the live slots.
LEMMA SearchGraphPreserves ==
    ASSUME CInv, NEW t \in Threads, SearchGraph(t)
    PROVE  CInv'
  <1>1. PICK found \in SUBSET LiveSlots(store.slots) :
            ReturnRead(t, "returns", Results(Call(t), {CandidateAt(t, s) : s \in found},
                                             IdAt, rows, hasMeta))
    BY DEF SearchGraph
  <1>2. pc[t] = "search" /\ ~UseExact(Call(t)) /\ UNCHANGED <<store, rows, hasMeta, nextId>>
    BY <1>1 DEF SearchGraph, ReturnRead, database
  <1>3. PICK K : K = {CandidateAt(t, s) : s \in found}
    OBVIOUS
  <1>4. K \in SUBSET CandidatesOf(Call(t).vec, store.slots, LiveSlots(store.slots))
    BY <1>3 DEF CandidateAt, CandidatesOf, CandidatesIn
  <1>5. QED
    BY <1>1, <1>2, <1>3, <1>4, SearchReturns

\* The entry that an id has in a version.
LEMMA EntryOfId ==
    ASSUME NEW s \in Store, StoreConsistent(s), NEW r, NEW id \in Ids
    PROVE  /\ ~Contains(s, id) => \A e \in Version(s, r) : e.id # id
           /\ Contains(s, id) =>
                  /\ \E e \in Version(s, r) : e.id = id
                  /\ \A e \in Version(s, r) :
                         e.id = id => e.vec = s.slots[s.idToLocal[id]].vec /\ e.meta = r[id]
  <1>1. s.slots \in Seq(Slot)
    BY DEF Store
  <1>2. \A i \in LiveSlots(s.slots) : i # 0 /\ s.slots[i].id \in Ids
    BY <1>1, LiveSlotsType
  <1>3. \A i \in LiveSlots(s.slots) : s.slots[i].id = id => Contains(s, id) /\ s.idToLocal[id] = i
    BY <1>2 DEF StoreConsistent, Contains
  <1>4. Contains(s, id) => /\ s.idToLocal[id] \in LiveSlots(s.slots)
                           /\ s.slots[s.idToLocal[id]].id = id
    BY DEF StoreConsistent
  <1>5. \A e \in Version(s, r) : \E i \in LiveSlots(s.slots) : e = EntryAt(s, r, i)
    BY VersionEntries
  <1>6. \A i : /\ EntryAt(s, r, i).id = s.slots[i].id /\ EntryAt(s, r, i).vec = s.slots[i].vec
               /\ EntryAt(s, r, i).meta = r[s.slots[i].id]
    BY DEF EntryAt
  <1>7. ASSUME Contains(s, id) PROVE \E e \in Version(s, r) : e.id = id
    <2>1. EntryAt(s, r, s.idToLocal[id]) \in Version(s, r)
      BY <1>4, <1>7, VersionEntries
    <2>2. QED
      BY <1>4, <1>6, <1>7, <2>1
  <1>8. ASSUME NEW e \in Version(s, r), e.id = id
        PROVE  Contains(s, id) /\ e.vec = s.slots[s.idToLocal[id]].vec /\ e.meta = r[id]
    <2>1. PICK i \in LiveSlots(s.slots) : e = EntryAt(s, r, i)
      BY <1>5
    <2>2. s.slots[i].id = id
      BY <1>6, <1>8, <2>1
    <2>3. QED
      BY <1>3, <1>6, <2>1, <2>2
  <1>9. QED
    BY <1>7, <1>8

\* What a get is about.
LEMMA GetState ==
    ASSUME CInv, NEW t \in Threads, pc[t] \in {"get", "getmeta"}
    PROVE  /\ Call(t) \in UNION Workloads /\ Call(t).kind = "get" /\ Call(t).id \in Ids
           /\ store \in Store /\ StoreConsistent(store) /\ pc[t] \in Reading
           /\ work[t] \in Progress
  <1>1. Call(t) \in UNION Workloads /\ work[t] \in Progress
    BY CallOfThread
  <1>2. Call(t).kind = "get"
    BY DEF CInv, ThreadInv
  <1>3. Call(t).id \in Ids
    BY <1>1, <1>2, DatabaseAssumption
  <1>4. QED
    BY <1>1, <1>2, <1>3 DEF CInv, Types, DatabaseInv, Reading

\* get finds the vector of the id, or returns nothing.
LEMMA FindPreserves ==
    ASSUME CInv, NEW t \in Threads, Find(t)
    PROVE  CInv'
  <1>1. pc[t] = "get"
    BY DEF Find
  <1>2. /\ Call(t) \in UNION Workloads /\ Call(t).kind = "get" /\ Call(t).id \in Ids
        /\ store \in Store /\ StoreConsistent(store) /\ pc[t] \in Reading
        /\ work[t] \in Progress
    BY <1>1, GetState
  <1>3. CASE ~Contains(store, Call(t).id)
    <2>1. ReturnRead(t, "returns", <<>>) /\ UNCHANGED <<store, rows, hasMeta, nextId>>
      BY <1>3 DEF Find, ReturnRead, database
    <2>2. PICK from : from = work[t].from
      OBVIOUS
    <2>3. PICK to : to = Len(log)
      OBVIOUS
    <2>4. PICK s \in Store : s = store
      BY <1>2
    <2>5. PICK id \in Ids : id = Call(t).id
      BY <1>2
    <2>6. PICK v : v = Version(store, rows)
      OBVIOUS
    <2>7. \A e \in v : e.id # id
      <3>1. PICK r : r = rows
        OBVIOUS
      <3>2. StoreConsistent(s) /\ ~Contains(s, id)
        BY <1>2, <1>3, <2>4, <2>5
      <3>3. \A e \in Version(s, r) : e.id # id
        BY <3>2, EntryOfId
      <3>4. v = Version(s, r)
        BY <2>4, <2>6, <3>1
      <3>5. QED
        BY <3>3, <3>4
    <2> DEFINE a == [call |-> Call(t), from |-> from, to |-> to, how |-> "returns", result |-> <<>>]
    <2>8. a.call.kind = "get" /\ a.call.id = id /\ a.result = <<>>
      BY <1>2, <2>5
    <2>9. Fits(a, v)
      <3> HIDE DEF a
      <3>1. QED
        BY <2>7, <2>8 DEF Fits
    <2>10. QED
      BY <1>2, <2>1, <2>2, <2>3, <2>6, <2>9, ReturnPreserves
  <1>4. CASE Contains(store, Call(t).id)
    <2> DEFINE vec == store.slots[store.idToLocal[Call(t).id]].vec
               w == [work[t] EXCEPT !.kept = {vec}]
    <2>1. vec \in Vecs
      <3>1. store.slots \in Seq(Slot) /\ store.idToLocal[Call(t).id] \in LiveSlots(store.slots)
        BY <1>2, <1>4 DEF Store, StoreConsistent
      <3>2. QED
        BY <3>1, LiveSlotsType DEF Slot
    <2>2. /\ pc' = [pc EXCEPT ![t] = "getmeta"] /\ work' = [work EXCEPT ![t] = w]
          /\ UNCHANGED <<store, rows, hasMeta, nextId, readers, writers, todo, call, answers, log>>
      BY <1>4 DEF Find, Goto, database, lock, CInv, Types
    <2>3. w \in Progress /\ w.kept = {vec} /\ w.from = work[t].from
      <3>1. PICK x \in Vecs : x = vec
        BY <2>1
      <3> HIDE DEF vec
      <3>2. QED
        BY <1>2, <3>1 DEF Progress
    <2> HIDE DEF w
    <2>4. Types'
      BY <2>2, <2>3 DEF CInv, Types
    <2>5. LockInv'
      BY <1>1, <2>2 DEF CInv, Types, LockInv, Reading, Writing
    <2>6. LogInv' /\ DatabaseInv' /\ AnswerInv'
      BY <2>2 DEF CInv, LogInv, DatabaseInv, AnswerInv
    <2>7. ASSUME NEW u \in Threads PROVE ThreadInv(u)'
      <3>1. CASE u = t
        <4>1. /\ pc'[t] = "getmeta" /\ call'[t] = {Call(t)} /\ work'[t] = w
              /\ work'[t].from \in 1 .. Len(log')
          BY <1>1, <2>2, <2>3, CallOfThread DEF CInv, Types
        <4>2. Call(t)' = Call(t)
          BY <2>2 DEF Call
        <4>3. /\ Contains(store', Call(t).id)
              /\ work'[t].kept = {store'.slots[store'.idToLocal[Call(t).id]].vec}
          BY <1>4, <2>2, <2>3, <4>1
        <4>4. QED
          BY <1>2, <3>1, <4>1, <4>2, <4>3 DEF ThreadInv, Writing
      <3>2. CASE u # t
        BY <2>2, <3>2, OtherThread DEF CInv, Types
      <3>3. QED
        BY <3>1, <3>2
    <2>8. QED
      BY <2>4, <2>5, <2>6, <2>7 DEF CInv
  <1>5. QED
    BY <1>3, <1>4

\* get returns the rows that belong to the vector it has found.
LEMMA GetMetadataPreserves ==
    ASSUME CInv, NEW t \in Threads, GetMetadata(t)
    PROVE  CInv'
  <1>1. PICK x \in work[t].kept :
            ReturnRead(t, "returns", <<[vec |-> x, meta |-> rows[Call(t).id]]>>)
    BY DEF GetMetadata
  <1>2. pc[t] = "getmeta" /\ UNCHANGED <<store, rows, hasMeta, nextId>>
    BY <1>1 DEF GetMetadata, ReturnRead, database
  <1>3. /\ Call(t).kind = "get" /\ Call(t).id \in Ids
        /\ store \in Store /\ StoreConsistent(store) /\ pc[t] \in Reading
    BY <1>2, GetState
  <1>4. Contains(store, Call(t).id) /\ x = store.slots[store.idToLocal[Call(t).id]].vec
    BY <1>1, <1>2 DEF CInv, ThreadInv
  <1>5. PICK from : from = work[t].from
    OBVIOUS
  <1>6. PICK to : to = Len(log)
    OBVIOUS
  <1>7. PICK s \in Store : s = store
    BY <1>3
  <1>8. PICK id \in Ids : id = Call(t).id
    BY <1>3
  <1>9. PICK r : r = rows
    OBVIOUS
  <1>10. PICK v : v = Version(store, rows)
    OBVIOUS
  <1>11. PICK res : res = <<[vec |-> x, meta |-> rows[Call(t).id]]>>
    OBVIOUS
  <1>12. /\ \E e \in v : e.id = id
         /\ \A e \in v : e.id = id => e.vec = x /\ e.meta = r[id]
    <2>1. StoreConsistent(s) /\ Contains(s, id) /\ x = s.slots[s.idToLocal[id]].vec
          /\ v = Version(s, r)
      BY <1>3, <1>4, <1>7, <1>8, <1>9, <1>10
    <2>2. /\ \E e \in Version(s, r) : e.id = id
          /\ \A e \in Version(s, r) :
                 e.id = id => e.vec = s.slots[s.idToLocal[id]].vec /\ e.meta = r[id]
      <3>1. StoreConsistent(s) /\ Contains(s, id)
        BY <2>1
      <3>2. QED
        BY <3>1, EntryOfId, Zenon
    <2>3. QED
      BY <2>1, <2>2
  <1> DEFINE a == [call |-> Call(t), from |-> from, to |-> to, how |-> "returns", result |-> res]
  <1>13. a.call.kind = "get" /\ a.call.id = id /\ a.result = <<[vec |-> x, meta |-> r[id]]>>
    BY <1>3, <1>8, <1>9, <1>11
  <1>14. Fits(a, v)
    <2> HIDE DEF a
    <2>1. QED
      BY <1>12, <1>13 DEF Fits
  <1>15. QED
    BY <1>1, <1>2, <1>3, <1>5, <1>6, <1>10, <1>11, <1>14, ReturnPreserves

\* A writer takes the lock when nobody has it.
LEMMA LockExclusivePreserves ==
    ASSUME CInv, NEW t \in Threads, LockExclusive(t)
    PROVE  CInv'
  <1>1. /\ pc[t] = "lock" /\ Call(t).kind = "write" /\ readers = {} /\ writers = {}
        /\ writers' = {t} /\ pc' = [pc EXCEPT ![t] = "body"]
        /\ UNCHANGED <<store, rows, hasMeta, nextId, readers, todo, call, answers, log>>
    BY DEF LockExclusive, Goto, database
  <1>2. Call(t) \in UNION Workloads /\ call[t] = {Call(t)} /\ work[t] \in Progress
        /\ work[t].from \in 1 .. Len(log) /\ Len(log) \in Nat
    BY <1>1, CallOfThread
  <1> DEFINE w == [work[t] EXCEPT !.at = 1]
  <1>3. w \in Progress /\ w.at = 1 /\ w.from = work[t].from
    BY <1>2 DEF Progress
  <1>4. work' = [work EXCEPT ![t] = w]
    BY DEF LockExclusive, CInv, Types
  <1> HIDE DEF w
  <1>5. Types'
    BY <1>1, <1>3, <1>4 DEF CInv, Types
  <1>6. LockInv'
    BY <1>1 DEF CInv, Types, LockInv, Reading, Writing
  <1>7. LogInv' /\ DatabaseInv' /\ AnswerInv'
    BY <1>1 DEF CInv, LogInv, DatabaseInv, AnswerInv
  <1>8. ASSUME NEW u \in Threads PROVE ThreadInv(u)'
    <2>1. CASE u = t
      <3>1. /\ pc'[t] = "body" /\ call'[t] = {Call(t)} /\ work'[t] = w
            /\ work'[t].from \in 1 .. Len(log')
        BY <1>1, <1>2, <1>3, <1>4 DEF CInv, Types
      <3>2. Call(t)' = Call(t)
        BY <1>1 DEF Call
      <3>3. QED
        BY <1>1, <1>3, <2>1, <3>1, <3>2 DEF ThreadInv, Writing
    <2>2. CASE u # t
      BY <1>1, <1>2, <1>4, <2>2, OtherThread DEF CInv, Types
    <2>3. QED
      BY <2>1, <2>2
  <1>9. QED
    BY <1>5, <1>6, <1>7, <1>8 DEF CInv

\* A write ends, and leaves a version behind; the answers fit what they fit.
LEMMA WriteReturns ==
    ASSUME CInv, NEW t \in Threads, pc[t] \in Writing, ReturnWrite(t),
           UNCHANGED <<store, rows, hasMeta, nextId>>
    PROVE  CInv'
  <1>1. /\ writers' = {} /\ log' = Append(log, Version(store, rows))
        /\ call' = [call EXCEPT ![t] = {}] /\ work' = [work EXCEPT ![t] = NoWork]
        /\ pc' = [pc EXCEPT ![t] = "idle"]
        /\ UNCHANGED <<store, rows, hasMeta, nextId, readers, todo, answers>>
    BY DEF ReturnWrite, Goto
  <1>2. readers = {} /\ \A u \in Threads \ {t} : pc[u] \notin Reading \cup Writing
    BY WriterIsAlone
  <1>3. PICK v \in SUBSET Entry : v = Version(store, rows)
    BY VersionType DEF CInv, Types
  <1>4. log \in Seq(SUBSET Entry) /\ Len(log) \in Nat /\ Len(log) >= 1
    BY DEF CInv, Types, LogInv
  <1>5. /\ log' \in Seq(SUBSET Entry) /\ Len(log') = Len(log) + 1 /\ log'[Len(log) + 1] = v
        /\ \A n \in 1 .. Len(log) : log'[n] = log[n]
    <2> HIDE DEF Entry
    <2>1. log' = Append(log, v)
      BY <1>1, <1>3
    <2>2. QED
      BY <1>4, <2>1
  <1>6. Types'
    BY <1>1, <1>5, NoWorkType DEF CInv, Types
  <1>7. LockInv'
    BY <1>1, <1>2 DEF CInv, Types, LockInv, Reading, Writing
  <1>8. LogInv'
    <2>1. Version(store, rows)' = v
      BY <1>1, <1>3
    <2>2. QED
      BY <1>4, <1>5, <2>1 DEF LogInv
  <1>9. DatabaseInv'
    BY <1>1 DEF CInv, DatabaseInv
  <1>10. ASSUME NEW u \in Threads PROVE ThreadInv(u)'
    <2>1. CASE u = t
      <3>1. pc'[t] = "idle"
        BY <1>1 DEF CInv, Types
      <3>2. QED
        BY <2>1, <3>1 DEF ThreadInv, Writing
    <2>2. CASE u # t
      BY <1>1, <1>4, <1>5, <2>2, OtherThread DEF CInv, Types
    <2>3. QED
      BY <2>1, <2>2
  <1>11. AnswerInv'
    <2>1. ASSUME NEW a \in answers
          PROVE  /\ a.from \in Nat \ {0} /\ a.to \in 1 .. Len(log')
                 /\ \E n \in a.from .. a.to : Fits(a, log'[n])
      <3>1. PICK n \in a.from .. a.to : Fits(a, log[n])
        BY DEF CInv, AnswerInv
      <3>2. a.from \in Nat \ {0} /\ a.to \in 1 .. Len(log)
        BY DEF CInv, AnswerInv
      <3>3. n \in 1 .. Len(log) /\ log'[n] = log[n]
        BY <1>4, <1>5, <3>2
      <3>4. QED
        BY <1>4, <1>5, <3>1, <3>2, <3>3
    <2>2. QED
      BY <1>1, <2>1 DEF AnswerInv
  <1>12. QED
    BY <1>6, <1>7, <1>8, <1>9, <1>10, <1>11 DEF CInv

\* A write ends with an exception, perhaps half-way.
LEMMA ThrowPreserves ==
    ASSUME CInv, NEW t \in Threads, Throw(t)
    PROVE  CInv'
  BY WriteReturns DEF Throw, database, Writing

\* A write ends.
LEMMA EndBodyPreserves ==
    ASSUME CInv, NEW t \in Threads, EndBody(t)
    PROVE  CInv'
  BY WriteReturns DEF EndBody, database, Writing


\* What a writer is about to do.
LEMMA OperationType ==
    ASSUME CInv, NEW t \in Threads, pc[t] \in Writing, work[t].at <= Len(Call(t).body)
    PROVE  /\ Operation(t).op \in {"insert", "remove", "compact", "flush"}
           /\ Operation(t).op \in {"insert", "remove"} => Operation(t).id \in Ids
           /\ Operation(t).op = "insert" => /\ Operation(t).vec \in Vecs
                                            /\ Operation(t).meta \in Metas
  <1>1. Call(t) \in UNION Workloads /\ work[t].at \in Nat \ {0} /\ Call(t).kind = "write"
    BY CallOfThread DEF CInv, ThreadInv, Writing
  <1>2. Call(t).body \in Seq(Operations)
    BY <1>1, DatabaseAssumption
  <1>3. PICK op \in Operations : op = Call(t).body[work[t].at]
    BY <1>1, <1>2
  <1>4. \/ /\ op.op \in {"insert", "auto"}
           /\ op = [op |-> op.op, id |-> op.id, vec |-> op.vec, meta |-> op.meta]
           /\ op.id \in Ids /\ op.vec \in Vecs
        \/ op.op = "remove" /\ op.id \in Ids
        \/ op.op \in {"compact", "flush"}
    BY DatabaseAssumption
  <1>5. op.meta \in Metas
    BY DEF Metas
  <1>6. nextId \in Ids
    BY DEF CInv, Types
  <1>7. Operation(t) = IF op.op = "auto" THEN [op EXCEPT !.op = "insert", !.id = nextId] ELSE op
    BY <1>3 DEF Operation
  <1>8. CASE op.op = "auto"
    <2>1. op = [op |-> op.op, id |-> op.id, vec |-> op.vec, meta |-> op.meta] /\ op.vec \in Vecs
      BY <1>4, <1>8
    <2>2. Operation(t) = [op |-> "insert", id |-> nextId, vec |-> op.vec, meta |-> op.meta]
      BY <1>7, <1>8, <2>1
    <2>3. QED
      BY <1>5, <1>6, <2>1, <2>2
  <1>9. CASE op.op # "auto"
    BY <1>4, <1>5, <1>7, <1>9
  <1>10. QED
    BY <1>8, <1>9

\* The store after an operation is as consistent as before.
LEMMA StoreAfterPreserves ==
    ASSUME store \in Store, StoreConsistent(store), NEW op,
           op.op \in {"insert", "remove", "compact", "flush"},
           op.op \in {"insert", "remove"} => op.id \in Ids,
           op.op = "insert" => op.vec \in Vecs,
           ~Rejected(op), NEW s \in StoreAfter(op)
    PROVE  s \in Store /\ StoreConsistent(s)
  <1>1. PICK old \in Store : old = store
    OBVIOUS
  <1>2. StoreConsistent(old)
    BY <1>1
  <1>3. CASE op.op = "insert"
    <2>1. s = StoreInsert(old, op.id, op.vec) /\ ~Contains(old, op.id)
      BY <1>1, <1>3 DEF StoreAfter, Rejected, CanInsert
    <2>2. op.id \in Ids /\ op.vec \in Vecs
      BY <1>3
    <2>3. QED
      BY <1>2, <2>1, <2>2, InsertConsistent
  <1>4. CASE op.op = "remove"
    <2>1. s = IF Contains(old, op.id) THEN StoreRemove(old, op.id) ELSE old
      BY <1>1, <1>4 DEF StoreAfter
    <2>2. op.id \in Ids
      BY <1>4
    <2>3. QED
      BY <1>2, <2>1, <2>2, RemoveConsistent
  <1>5. CASE op.op = "compact"
    <2>1. s = old \/ \E slots \in Compactions(old.slots) : s = StoreOf(slots)
      BY <1>1, <1>5 DEF StoreAfter
    <2>2. ASSUME NEW slots \in Compactions(old.slots), s = StoreOf(slots)
          PROVE  s \in Store /\ StoreConsistent(s)
      <3>1. old.slots \in Seq(Slot) /\ UniqueLiveIds(old.slots)
        BY <1>2, ConsistentImpliesUnique DEF Store
      <3>2. slots \in Seq(Slot) /\ UniqueLiveIds(slots)
        BY <3>1, CompactionUnique
      <3>3. QED
        BY <2>2, <3>2, StoreOfConsistent
    <2>3. QED
      BY <1>2, <2>1, <2>2
  <1>6. CASE op.op = "flush"
    BY <1>1, <1>2, <1>6 DEF StoreAfter
  <1>7. QED
    BY <1>3, <1>4, <1>5, <1>6

\* The next id keeps its width.
LEMMA CountedType ==
    ASSUME nextId \in Ids, NEW op, op.op = "insert" => op.id \in Ids, Counted(op)
    PROVE  nextId' \in Ids
  <1>1. MaxId \in Nat /\ nextId \in Nat /\ nextId <= MaxId
    BY StoreAssumption DEF Ids
  <1>2. \A n \in Nat : n % (MaxId + 1) \in 0 .. MaxId
    BY <1>1
  <1>3. ASSUME NEW id \in Ids PROVE NextAfter(id) \in Ids
    BY <1>1, <1>2 DEF NextAfter, Ids
  <1>4. QED
    BY <1>3 DEF Counted

\* A step of a writer: what is left to show is the database, and the writer.
LEMMA WriterSteps ==
    ASSUME CInv, NEW t \in Threads, pc[t] \in Writing, NEW place \in Writing, NEW at \in Nat \ {0},
           Continue(t, place, at),
           store' \in Store, StoreConsistent(store'), rows' \in [Ids -> Metas],
           hasMeta' \in BOOLEAN, nextId' \in Ids,
           ~hasMeta' => \A id \in Ids : rows'[id] = {},
           place = "rows" =>
               /\ UNCHANGED nextId
               /\ at = work[t].at /\ at <= Len(Call(t).body)
               /\ \/ Operation(t).op = "insert" /\ Operation(t).meta # {}
                  \/ Operation(t).op = "remove"
    PROVE  CInv'
  <1> DEFINE w == [work[t] EXCEPT !.at = at]
  <1>1. /\ pc' = [pc EXCEPT ![t] = place]
        /\ UNCHANGED <<readers, writers, todo, call, answers, log>>
    BY DEF Continue, Goto, lock
  <1>2. /\ call[t] = {Call(t)} /\ work[t] \in Progress /\ work[t].from \in 1 .. Len(log)
        /\ Len(log) \in Nat
    BY CallOfThread DEF Writing
  <1>3. work' = [work EXCEPT ![t] = w]
    BY DEF Continue, CInv, Types
  <1>4. w \in Progress /\ w.at = at /\ w.from = work[t].from
    BY <1>2 DEF Progress
  <1> HIDE DEF w
  <1>5. writers = {t} /\ \A u \in Threads \ {t} : pc[u] \notin Reading \cup Writing
    BY WriterIsAlone
  <1>6. Types'
    BY <1>1, <1>3, <1>4 DEF CInv, Types, Writing
  <1>7. LockInv'
    BY <1>1 DEF CInv, Types, LockInv, Reading, Writing
  <1>8. LogInv'
    BY <1>1, <1>5 DEF CInv, LogInv
  <1>9. DatabaseInv'
    BY DEF DatabaseInv
  <1>10. AnswerInv'
    BY <1>1 DEF CInv, AnswerInv
  <1>11. ASSUME NEW u \in Threads PROVE ThreadInv(u)'
    <2>1. CASE u = t
      <3>1. /\ pc'[t] = place /\ call'[t] = {Call(t)} /\ work'[t] = w /\ work'[t].at = at
            /\ work'[t].from \in 1 .. Len(log')
        BY <1>1, <1>2, <1>3, <1>4 DEF CInv, Types
      <3>2. Call(t)' = Call(t)
        BY <1>1 DEF Call
      <3>3. Call(t).kind = "write"
        BY DEF CInv, ThreadInv
      <3>4. place = "rows" => Operation(t)' = Operation(t)
        BY <3>1, <3>2 DEF Operation
      <3>5. QED
        BY <2>1, <3>1, <3>2, <3>3, <3>4 DEF ThreadInv, Writing
    <2>2. CASE u # t
      BY <1>1, <1>2, <1>3, <1>5, <2>2, OtherThread DEF CInv, Types
    <2>3. QED
      BY <2>1, <2>2
  <1>12. QED
    BY <1>6, <1>7, <1>8, <1>9, <1>10, <1>11 DEF CInv

\* An operation changes the store.
LEMMA ApplyPreserves ==
    ASSUME CInv, NEW t \in Threads, Apply(t)
    PROVE  CInv'
  <1>1. /\ pc[t] = "body" /\ pc[t] \in Writing /\ work[t].at <= Len(Call(t).body)
        /\ ~Rejected(Operation(t)) /\ store' \in StoreAfter(Operation(t))
        /\ UNCHANGED <<rows, hasMeta>>
    BY DEF Apply, Writing
  <1>2. /\ Operation(t).op \in {"insert", "remove", "compact", "flush"}
        /\ Operation(t).op \in {"insert", "remove"} => Operation(t).id \in Ids
        /\ Operation(t).op = "insert" => Operation(t).vec \in Vecs
    BY <1>1, OperationType
  <1>3. work[t].at \in Nat \ {0}
    BY <1>1 DEF CInv, ThreadInv
  <1>4. store' \in Store /\ StoreConsistent(store')
    <2>1. PICK op : op = Operation(t)
      OBVIOUS
    <2>2. PICK s : s = store'
      OBVIOUS
    <2>3. /\ op.op \in {"insert", "remove", "compact", "flush"}
          /\ op.op \in {"insert", "remove"} => op.id \in Ids
          /\ op.op = "insert" => op.vec \in Vecs
          /\ ~Rejected(op) /\ s \in StoreAfter(op)
      BY <1>1, <1>2, <2>1, <2>2
    <2>4. store \in Store /\ StoreConsistent(store)
      BY DEF CInv, Types, DatabaseInv
    <2>5. s \in Store /\ StoreConsistent(s)
      BY <2>3, <2>4, StoreAfterPreserves
    <2>6. QED
      BY <2>2, <2>5
  <1>5. /\ rows' \in [Ids -> Metas] /\ hasMeta' \in BOOLEAN /\ nextId \in Ids
        /\ ~hasMeta' => \A id \in Ids : rows'[id] = {}
    BY <1>1 DEF CInv, Types, DatabaseInv
  <1>6. PICK n \in Nat \ {0} : n = work[t].at
    BY <1>3
  <1>7. CASE WritesRows(Operation(t))
    <2>1. Continue(t, "rows", n) /\ UNCHANGED nextId
      BY <1>6, <1>7 DEF Apply
    <2>2. /\ \/ Operation(t).op = "insert" /\ Operation(t).meta # {}
             \/ Operation(t).op = "remove"
          /\ n = work[t].at /\ n <= Len(Call(t).body)
      BY <1>1, <1>6, <1>7 DEF WritesRows
    <2>3. "rows" \in Writing /\ nextId' \in Ids
      BY <1>5, <2>1 DEF Writing
    <2>4. QED
      BY <1>1, <1>4, <1>5, <2>1, <2>2, <2>3, WriterSteps
  <1>8. CASE ~WritesRows(Operation(t))
    <2>1. PICK m \in Nat \ {0} : m = n + 1
      OBVIOUS
    <2>2. Continue(t, "body", m) /\ Counted(Operation(t))
      BY <1>6, <1>8, <2>1 DEF Apply
    <2>3. nextId' \in Ids
      <3>1. PICK op : op = Operation(t)
        OBVIOUS
      <3>2. (op.op = "insert" => op.id \in Ids) /\ Counted(op)
        BY <1>2, <2>2, <3>1
      <3>3. QED
        BY <1>5, <3>2, CountedType
    <2>4. "body" \in Writing
      BY DEF Writing
    <2>5. QED
      BY <1>1, <1>4, <1>5, <2>2, <2>3, <2>4, WriterSteps
  <1>9. QED
    BY <1>7, <1>8

\* An operation changes the rows, and with them the hint.
LEMMA WriteRowsPreserves ==
    ASSUME CInv, NEW t \in Threads, WriteRows(t)
    PROVE  CInv'
  <1>1. PICK op : op = Operation(t)
    OBVIOUS
  <1>2. /\ pc[t] = "rows" /\ pc[t] \in Writing
        /\ rows' = [rows EXCEPT ![op.id] = IF op.op = "remove" THEN {} ELSE op.meta]
        /\ hasMeta' = Raised(op) /\ Counted(op)
        /\ Continue(t, "body", work[t].at + 1) /\ UNCHANGED store
    BY <1>1 DEF WriteRows, Writing
  <1>3. /\ work[t].at \in Nat \ {0} /\ work[t].at <= Len(Call(t).body)
        /\ \/ op.op = "insert" /\ op.meta # {}
           \/ op.op = "remove"
    BY <1>1, <1>2 DEF CInv, ThreadInv
  <1>4. op.id \in Ids /\ (op.op = "insert" => op.meta \in Metas)
    BY <1>1, <1>2, <1>3, OperationType
  <1>5. /\ store \in Store /\ StoreConsistent(store) /\ rows \in [Ids -> Metas]
        /\ hasMeta \in BOOLEAN /\ nextId \in Ids
        /\ ~hasMeta => \A id \in Ids : rows[id] = {}
    BY DEF CInv, Types, DatabaseInv
  <1>6. rows' \in [Ids -> Metas]
    <2>1. {} \in Metas
      BY DEF Metas
    <2>2. QED
      BY <1>2, <1>3, <1>4, <1>5, <2>1
  <1>7. hasMeta' \in BOOLEAN /\ (~hasMeta' => \A id \in Ids : rows'[id] = {})
    <2>1. hasMeta' <=> hasMeta \/ (op.op # "remove" /\ op.meta # {})
      BY <1>2, <1>5 DEF Raised
    <2>2. hasMeta' \in BOOLEAN
      BY <1>2, <1>5 DEF Raised
    <2>3. ~hasMeta' => op.op = "remove" /\ ~hasMeta
      BY <1>3, <2>1
    <2>4. QED
      BY <1>2, <1>4, <1>5, <2>2, <2>3
  <1>8. nextId' \in Ids
    BY <1>2, <1>4, <1>5, CountedType
  <1>9. PICK m \in Nat \ {0} : m = work[t].at + 1
    BY <1>3
  <1>10. "body" \in Writing /\ Continue(t, "body", m) /\ store' \in Store /\ StoreConsistent(store')
    BY <1>2, <1>5, <1>9 DEF Writing
  <1>11. QED
    BY <1>2, <1>6, <1>7, <1>8, <1>10, WriterSteps

\* A step that changes nothing.
LEMMA StutterPreserves ==
    ASSUME CInv, UNCHANGED vars
    PROVE  CInv'
  <1>1. /\ UNCHANGED <<store, rows, hasMeta, nextId, readers, writers>>
        /\ UNCHANGED <<todo, pc, call, work, answers, log>>
    BY DEF vars, database, lock
  <1>2. Types' /\ LockInv' /\ LogInv' /\ DatabaseInv' /\ AnswerInv'
    BY <1>1 DEF CInv, Types, LockInv, LogInv, DatabaseInv, AnswerInv
  <1>3. \A t \in Threads : ThreadInv(t)'
    BY <1>1, OtherThread DEF CInv, Types
  <1>4. QED
    BY <1>2, <1>3 DEF CInv

\* The invariant is inductive.
LEMMA CInvNext == CInv /\ [Next]_vars => CInv'
  <1> SUFFICES ASSUME CInv, [Next]_vars PROVE CInv'
    OBVIOUS
  <1>1. ASSUME NEW t \in Threads, Step(t) PROVE CInv'
    BY <1>1, StartPreserves, LockSharedPreserves, RefusePreserves, ScanPreserves,
       ReturnScannedPreserves, SearchGraphPreserves, FindPreserves, GetMetadataPreserves,
       LockExclusivePreserves, ApplyPreserves, WriteRowsPreserves, ThrowPreserves,
       EndBodyPreserves DEF Step
  <1>2. CASE Next
    BY <1>1, <1>2 DEF Next
  <1>3. CASE UNCHANGED vars
    BY <1>3, StutterPreserves
  <1>4. QED
    BY <1>2, <1>3

\* What holds between any two steps of the threads.
THEOREM DatabaseInvariant == Spec => []CInv
  BY CInvInit, CInvNext, PTL DEF Spec

\* A thread's search keeps no more candidates than it was asked for, and the
\* database, the lock and the threads have their types.
THEOREM DatabaseTypes == Spec => []TypeOK
  BY DatabaseInvariant, CInvTypeOK, PTL

\* Every read is atomic: a search or a get answers from the database as one
\* write left it, during the call, and an exact answer is the k best matches.
THEOREM ReadsAtomic == Spec => []ReadsAreAtomic
  BY DatabaseInvariant, CInvAtomic, PTL

\* Parts of a store, searched one by one, merge to the search of all of it.
THEOREM MergesAreExact == Spec => []MergeIsExact
  <1>1. CInv => MergeIsExact
    BY MergeExact DEF CInv, Types
  <1>2. QED
    BY <1>1, DatabaseInvariant, PTL
==============================================================================
