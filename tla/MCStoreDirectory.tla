-------------------------- MODULE MCStoreDirectory --------------------------
EXTENDS StoreDirectory, TLC

CONSTANTS w1, w2

\* One schema, and others that differ from it in one field each.
SomeSchemas ==
  {[dim |-> 2, metric |-> "l2", kind |-> "flat"],
   [dim |-> 3, metric |-> "l2", kind |-> "flat"],
   [dim |-> 2, metric |-> "cosine", kind |-> "flat"],
   [dim |-> 2, metric |-> "l2", kind |-> "hnsw"]}

Symmetry == Permutations({w1, w2})
=============================================================================
