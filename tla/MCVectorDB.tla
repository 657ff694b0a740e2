----------------------------- MODULE MCVectorDB -----------------------------
(* VectorDB with a few ids and vectors on the integer line.                *)
EXTENDS VectorDB, TLC

Line  == {0, 2, 5}
Short == {0, 2}

\* Ids and paths are only compared.
Symmetry == Permutations(Ids) \cup Permutations(Paths)
=============================================================================
