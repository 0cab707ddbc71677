--------------------------- MODULE MCMetadataStore ---------------------------
EXTENDS MetadataStore, TLC

\* The empty metadata, and one with two keys, one of them a NaN.
TwoKeys == {{}, {[key |-> "a", value |-> 1], [key |-> "b", value |-> NaN]}}
ThreadSymmetry == Permutations(Threads)
=============================================================================
