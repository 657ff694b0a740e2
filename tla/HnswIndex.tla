----------------------------- MODULE HnswIndex ------------------------------
(***************************************************************************)
(* The life of one HnswIndex behind a VectorDB: rows are added one by one  *)
(* or in bulk, ids are soft-deleted (which the graph never learns: the     *)
(* tombstones are passed to each search as a skip set), and the graph is   *)
(* saved and loaded with the database.                                     *)
(*                                                                         *)
(* The level generator is seeded when the object is built: "stream" is the *)
(* sequence of levels that this seed yields, "drawn" how many were taken.  *)
(***************************************************************************)
EXTENDS HnswOps

CONSTANTS
  Wave,      \* kBulkWave
  MaxLevel,  \* bound: levels the generator yields
  MaxRows,   \* bound: rows in the graph
  MaxBatch,  \* bound: rows of one add_rows_bulk
  MaxTwins,  \* bound: rows whose vector another row has
  MaxReload, \* bound: rows of a graph that is reloaded
  Ops        \* subset of {"insert", "bulk", "remove", "reload"}

ASSUME SizesAssumption ==
         /\ Wave \in Nat \ {0} /\ MaxLevel \in Nat
         /\ MaxRows \in Nat /\ MaxBatch \in Nat
         /\ MaxTwins \in Nat /\ MaxReload \in Nat

VARIABLES graph, deleted, stream, drawn

vars == <<graph, deleted, stream, drawn>>

Stored == [r \in Rows(graph) |-> graph.nodes[r].at]
Live   == Rows(graph) \ deleted
Twins  == Len(graph.nodes) - Cardinality({Stored[r] : r \in Rows(graph)})

Init ==
  /\ graph = EmptyGraph
  /\ deleted = {}
  /\ stream \in [1 .. MaxRows -> 0 .. MaxLevel]
  /\ drawn = 0

\* Mutant of Draw: a level is counted from 1.
DrawFromOne(points) ==
  [i \in DOMAIN points |-> <<points[i], stream[drawn + i] + 1>>]

\* Levels are drawn in row order, whatever the path.
Draw(points) ==
  [i \in DOMAIN points |-> <<points[i], stream[drawn + i]>>]

Insert ==
  /\ "insert" \in Ops
  /\ Len(graph.nodes) < MaxRows /\ drawn < MaxRows
  /\ \E p \in Points : graph' = AddRow(graph, p, stream[drawn + 1])
  /\ Twins' <= MaxTwins
  /\ drawn' = drawn + 1
  /\ UNCHANGED <<deleted, stream>>

InsertBulk ==
  /\ "bulk" \in Ops
  /\ \E n \in 2 .. MaxBatch :
       /\ Len(graph.nodes) + n <= MaxRows /\ drawn + n <= MaxRows
       /\ \E points \in [1 .. n -> Points] :
            graph' = AddBulk(graph, Draw(points), Wave)
       /\ drawn' = drawn + n
  /\ Twins' <= MaxTwins
  /\ UNCHANGED <<deleted, stream>>

SoftDelete ==
  /\ "remove" \in Ops
  /\ \E r \in Live : deleted' = deleted \cup {r}
  /\ UNCHANGED <<graph, stream, drawn>>

\* save() and load(): the graph goes through the word stream into a fresh
\* object whose generator starts over; a refused load changes nothing.
Reload ==
  /\ "reload" \in Ops /\ Len(graph.nodes) <= MaxReload
  /\ LET loaded == Deserialize(Serialize(graph), Stored)
     IN  loaded.ok /\ graph' = loaded.graph
  /\ drawn' = 0
  /\ UNCHANGED <<deleted, stream>>

Next ==
  \/ Insert
  \/ InsertBulk
  \/ SoftDelete
  \/ Reload

Spec == Init /\ [][Next]_vars

-----------------------------------------------------------------------------
TypeOK ==
  /\ graph.entry \in 0 .. Len(graph.nodes)
  /\ graph.top \in -1 .. MaxLevel
  /\ \A r \in Rows(graph) :
       /\ graph.nodes[r].at \in Points
       /\ graph.nodes[r].level \in 0 .. MaxLevel
       /\ graph.nodes[r].links \in
            [0 .. graph.nodes[r].level -> Seq(Rows(graph))]
  /\ deleted \subseteq Rows(graph)
  /\ stream \in [1 .. MaxRows -> 0 .. MaxLevel]
  /\ drawn \in 0 .. MaxRows

\* What every walk indexes without checking: a link on layer l leads to another
\* row, one that takes part in layer l; the entry row takes part in the top
\* layer, and no row is higher; a link list stays within the degree that the
\* shrinking keeps.  Whatever the metric and however often a vector is inserted.
GraphSound ==
  /\ graph.nodes # <<>> =>
       /\ graph.entry \in Rows(graph)
       /\ graph.nodes[graph.entry].level = graph.top
  /\ \A r \in Rows(graph) :
       /\ graph.nodes[r].level <= graph.top
       /\ \A l \in 0 .. graph.nodes[r].level :
            /\ \A n \in ToSet(Links(graph, r, l)) :
                 n # r /\ graph.nodes[n].level >= l
            /\ Len(Links(graph, r, l)) <= Cap(l)

\* Every row is nearer to itself than any other row is: so it is for L2 and
\* cosine as long as no vector is inserted twice, not for the inner product.
SelfNearest ==
  \A r, s \in Rows(graph) :
    r # s => Dist(graph, Stored[r], r) < Dist(graph, Stored[s], r)

\* The search queues the entry row twice, and only the diversity test of
\* select_heuristic keeps it from being linked twice: with a metric that puts
\* every row nearest to itself, no link list names a row twice.
LinksOnce ==
  SelfNearest =>
    \A r \in Rows(graph) : \A l \in 0 .. graph.nodes[r].level :
      IsInjective(Links(graph, r, l))

\* The rows that layer-0 links reach from where the greedy descent ends,
\* without passing a row of "skip": those in every set that holds the start
\* and is closed under such links.
Reachable(q, skip) ==
  LET start     == {Descend(graph, q, 1)} \ skip
      Closed(S) == \A r \in S : ToSet(Links(graph, r, 0)) \ skip \subseteq S
  IN  {r \in Rows(graph) :
         \A S \in SUBSET Rows(graph) : start \subseteq S /\ Closed(S) => r \in S}

\* Wider than the beam ever gets: the entry row is queued twice.
Wide == Len(graph.nodes) + 2

\* The best-first walk of search_layer is graph search: whatever the width of
\* the beam, a query names only live rows that layer-0 links reach through
\* live rows from where the greedy descent ended, the nearest first; and when
\* the beam never filled, it has found every one of them.
SearchIsReachability ==
  graph.nodes # <<>> =>
    \A q \in Points :
      LET reachable == Reachable(q, deleted)
      IN  \A ef \in 1 .. Wide :
            LET hits == Search(graph, q, ef, ef, deleted)
            IN  /\ ToSet(hits) \subseteq reachable
                /\ Len(hits) < ef => ToSet(hits) = reachable
                /\ \A i, j \in DOMAIN hits :
                     i < j => Dist(graph, q, hits[i]) <= Dist(graph, q, hits[j])

\* However narrow the beam, the search does not give up early: the row it
\* names first has no live neighbour that is nearer, and a search comes back
\* empty only if the greedy descent, which does not look at tombstones, ended
\* on a deleted row.
NoNearerNeighbour ==
  graph.nodes # <<>> =>
    \A q \in Points, ef \in 1 .. Wide :
      LET hits == Search(graph, q, ef, ef, deleted)
      IN  /\ hits = <<>> <=> Descend(graph, q, 1) \in deleted
          /\ hits # <<>> =>
               \A n \in ToSet(Links(graph, hits[1], 0)) \ deleted :
                 Dist(graph, q, hits[1]) <= Dist(graph, q, n)

\* A saved graph is never loaded as another graph: what a search sees does not
\* depend on whether the database was restarted.  The loader takes no list that
\* is longer than the number of rows, so it takes the graph if its lists name a
\* row once, or if there are as many rows as a list can hold.
RoundTrip ==
  graph.nodes # <<>> =>
    LET loaded == Deserialize(Serialize(graph), Stored)
    IN  /\ loaded.ok => loaded.graph = graph
        /\ SelfNearest \/ Len(graph.nodes) >= 2 * M => loaded.ok

\* A database of pairwise different vectors that save() wrote is one that
\* load() takes.
Reloadable ==
  graph.nodes # <<>> /\ IsInjective(Stored) =>
    Deserialize(Serialize(graph), Stored).ok
=============================================================================
