--------------------------- MODULE MCDurableStore ---------------------------
(* DurableStore on small instances: two or three ids, one or two vectors.  *)
EXTENDS DurablePromise, TLC

\* Vectors are only compared.
VecSymmetry == Permutations(Vecs)

\* Ids are only compared too.
Symmetry == Permutations(Ids) \cup Permutations(Vecs)
=============================================================================
