----------------------------- MODULE MCDatabase ------------------------------
EXTENDS Database, TLC

\* The vectors are interchangeable.
VecSymmetry == Permutations(Vecs)

\* Every vector has a place of its own, or all share one.
OwnPlace == [v \in Vecs |-> v]
OnePlace == [v \in Vecs |-> "here"]
=============================================================================
