---------------------------- MODULE MCHnswIndex -----------------------------
(* HnswIndex in one dimension, with the kernel of L2 and with that of the  *)
(* inner product, whose distance is the negated product.                   *)
EXTENDS HnswIndex

RulerThree == {0, 1, 3}
OneToFour  == {1, 2, 3, 4}

LineDistance == [p \in Points \X Points |-> (p[1] - p[2]) * (p[1] - p[2])]
InnerProduct == [p \in Points \X Points |-> -(p[1] * p[2])]
=============================================================================
