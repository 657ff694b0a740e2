----------------------------- MODULE MCSharedDB -----------------------------
EXTENDS SharedDB, TLC

CONSTANTS a, b, v, w, x, y, z

Workload ==
  {[op |-> "insert", rows |-> <<[id |-> b, vec |-> v]>>],
   [op |-> "insert", rows |-> <<[id |-> a, vec |-> w], [id |-> b, vec |-> w]>>],
   [op |-> "remove", id |-> a], [op |-> "get", id |-> a],
   [op |-> "search"], [op |-> "size"], [op |-> "save"],
   [op |-> "checkpoint"], [op |-> "close"],
   [op |-> "set", field |-> "wal_sync", value |-> "always"],
   [op |-> "read", field |-> "wal_sync"]}

\* A database with one row.
Buffers == {<<[id |-> a, vec |-> v]>>}
=============================================================================
