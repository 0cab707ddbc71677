---------------------------- MODULE MCThreadPool -----------------------------
EXTENDS ThreadPool, TLC

\* Workers are interchangeable, and so are callers.
ThreadSymmetry == Permutations(Workers) \cup Permutations(Callers)
=============================================================================
