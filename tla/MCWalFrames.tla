---------------------------- MODULE MCWalFrames -----------------------------
EXTENDS WalFrames

\* One record of each kind, and a batch beyond the limit.  The vector of the
\* insertion is its own frame's length.
Logged ==
  {[op |-> kWalInsert, ids |-> <<1>>, vecs |-> <<20>>],
   [op |-> kWalRemove, ids |-> <<1>>, vecs |-> <<>>],
   [op |-> kWalBulk, ids |-> <<1, 2>>, vecs |-> <<1, 2>>],
   [op |-> kWalBulk, ids |-> <<1, 2, 3>>, vecs |-> <<1, 2, 3>>]}
=============================================================================
