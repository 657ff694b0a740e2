----------------------------- MODULE MCHnswBulk -----------------------------
(* HnswBulk in one dimension, with the kernel of L2.                       *)
EXTENDS HnswBulk

RulerThree == {0, 1, 3}

LineDistance == [p \in Points \X Points |-> (p[1] - p[2]) * (p[1] - p[2])]
=============================================================================
