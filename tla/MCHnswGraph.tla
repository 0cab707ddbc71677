---------------------------- MODULE MCHnswGraph ------------------------------
EXTENDS HnswGraph

\* Vectors of dimension one under the squared L2 distance.
SquaredDistance(p, q) == (p - q) * (p - q)
=============================================================================
