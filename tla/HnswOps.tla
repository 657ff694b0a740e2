------------------------------ MODULE HnswOps -------------------------------
(***************************************************************************)
(* The algorithms of HnswIndex (hnsw_index.cpp) as pure operators on a     *)
(* graph value.  Rows are counted from 1 and stand in the order in which   *)
(* they were added; row 0 as entry point is the code's -1.                 *)
(*                                                                         *)
(* The kernel dist_ is a constant, for kL2 and for kInnerProduct alike: it *)
(* gives each pair of vectors a number, and a vector need not be nearest   *)
(* to itself.  Rows at equal distances stand in their order of arrival,    *)
(* where std::sort and the heaps of the code leave it open.                *)
(*                                                                         *)
(* The loops of the code are recursive functions over the number of turns, *)
(* so that the proofs can reason about them.                               *)
(***************************************************************************)
EXTENDS Integers, FiniteSets, SequencesExt

CONSTANTS
  M,        \* links per row and layer; layer 0 holds twice as many
  Ef,       \* ef_construction
  Points,   \* the vectors that are inserted and searched for
  Distance  \* dist_, as the constructor resolves it for the metric

ASSUME DegreeAssumption == M \in Nat \ {0} /\ Ef \in Nat

ASSUME DistanceAssumption == Distance \in [Points \X Points -> Int]

EmptyGraph == [nodes |-> <<>>, entry |-> 0, top |-> -1]

Rows(g)        == DOMAIN g.nodes
Links(g, r, l) == g.nodes[r].links[l]

Dist(g, q, r)  == Distance[q, g.nodes[r].at]

Cap(l) == IF l = 0 THEN 2 * M ELSE M

\* The beam width while building: max(ef_construction, M0).
BuildEf == IF Ef > 2 * M THEN Ef ELSE 2 * M

Lower(a, b) == IF a < b THEN a ELSE b

-----------------------------------------------------------------------------
(* Greedy descent: one layer, then from the top layer to a floor.          *)

\* The nearest of a row and its neighbours; the first of several.
Step(g, q, r, l) ==
  LET list == Links(g, r, l)
      nearest[i \in 0 .. Len(list)] ==
        IF i = 0 THEN r
        ELSE IF Dist(g, q, list[i]) < Dist(g, q, nearest[i - 1]) THEN list[i]
        ELSE nearest[i - 1]
  IN  nearest[Len(list)]

\* Every move is to a nearer row: there are fewer moves than rows.
Greedy(g, q, r, l) ==
  LET at[i \in 0 .. Len(g.nodes)] == IF i = 0 THEN r ELSE Step(g, q, at[i - 1], l)
  IN  at[Len(g.nodes)]

\* From the entry row on the top layer through the layers >= floor.
Descend(g, q, floor) ==
  LET from[l \in floor .. g.top + 1] ==
        IF l = g.top + 1 THEN g.entry ELSE Greedy(g, q, from[l + 1], l)
  IN  IF g.top < floor THEN g.entry ELSE from[floor]

-----------------------------------------------------------------------------
(* search_layer.  A beam is the priority queue of candidates (nearest      *)
(* first), the bounded list of results so far (nearest first), the visited *)
(* rows and the neighbours of the row being expanded that are still to do. *)
(* Entries are put into both queues without being marked visited.          *)

Place(g, q, s, r) ==
  InsertAt(s, 1 + Cardinality({i \in DOMAIN s : Dist(g, q, s[i]) <= Dist(g, q, r)}), r)

\* The rows of a list that are admitted, nearest first.
Sort(g, q, list, admitted) ==
  LET sorted[i \in 0 .. Len(list)] ==
        IF i = 0 THEN <<>>
        ELSE IF list[i] \in admitted THEN Place(g, q, sorted[i - 1], list[i])
        ELSE sorted[i - 1]
  IN  sorted[Len(list)]

\* Rows that fit the graph and are not in the skip set enter the beam.
EnterBeam(g, q, entries, skip) ==
  LET sorted == Sort(g, q, entries, Rows(g) \ skip)
  IN  [cands |-> sorted, best |-> sorted, visited |-> {}, todo |-> <<>>]

\* Mutant of Visit: a row to be skipped is queued like any other.
VisitUnfiltered(g, q, ef, skip, beam, r) ==
  LET seen  == [beam EXCEPT !.visited = @ \cup {r}, !.todo = Tail(@)]
      wider == Place(g, q, beam.best, r)
  IN  IF \/ r \in beam.visited
         \/ Len(beam.best) >= ef /\ Dist(g, q, r) >= Dist(g, q, Last(beam.best))
      THEN seen
      ELSE [seen EXCEPT
              !.cands = Place(g, q, @, r),
              !.best  = IF Len(wider) > ef THEN Front(wider) ELSE wider]

\* One neighbour of the row being expanded.
Visit(g, q, ef, skip, beam, r) ==
  LET seen  == [beam EXCEPT !.visited = @ \cup {r}, !.todo = Tail(@)]
      wider == Place(g, q, beam.best, r)
  IN  IF \/ r \in beam.visited
         \/ r \in skip
         \/ Len(beam.best) >= ef /\ Dist(g, q, r) >= Dist(g, q, Last(beam.best))
      THEN seen
      ELSE [seen EXCEPT
              !.cands = Place(g, q, @, r),
              !.best  = IF Len(wider) > ef THEN Front(wider) ELSE wider]

\* Mutant of Stopped: a full beam stops the search.
StoppedWhenFull(g, q, ef, beam) ==
  beam.cands = <<>> \/ Len(beam.best) >= ef

\* No candidate left, or the nearest is worse than the ef-th best so far.
Stopped(g, q, ef, beam) ==
  \/ beam.cands = <<>>
  \/ /\ beam.best # <<>> /\ Len(beam.best) >= ef
     /\ Dist(g, q, Head(beam.cands)) > Dist(g, q, Last(beam.best))

\* The nearest candidate is expanded, if it takes part in the layer.
Expand(g, l, beam) ==
  LET r == Head(beam.cands)
  IN  [beam EXCEPT !.cands = Tail(@),
         !.todo = IF g.nodes[r].level < l THEN <<>> ELSE Links(g, r, l)]

Turn(g, q, ef, skip, l, beam) ==
  IF beam.todo # <<>> THEN Visit(g, q, ef, skip, beam, Head(beam.todo))
  ELSE IF Stopped(g, q, ef, beam) THEN beam
  ELSE Expand(g, l, beam)

\* An entry is expanded once and a row once more when it is visited, each
\* with a list of at most 2M links: the search has stopped by then.
Turns(g, entries) == (Len(entries) + Len(g.nodes)) * (1 + 2 * M)

SearchLayer(g, q, ef, entries, skip, l) ==
  LET beam[i \in 0 .. Turns(g, entries)] ==
        IF i = 0 THEN EnterBeam(g, q, entries, skip)
                 ELSE Turn(g, q, ef, skip, l, beam[i - 1])
  IN  beam[Turns(g, entries)].best

\* HnswIndex::search: rows, nearest first.
Search(g, q, k, ef, skip) ==
  IF k = 0 \/ g.entry = 0
  THEN <<>>
  ELSE LET hits == SearchLayer(g, q, IF ef < k THEN k ELSE ef,
                               <<Descend(g, q, 1)>>, skip, 0)
       IN  SubSeq(hits, 1, Lower(k, Len(hits)))

-----------------------------------------------------------------------------
(* Building.  add_row and the bulk path share both halves: add_row plans   *)
(* against the graph as it is (its new slot has no links yet, so no search *)
(* reaches it) and links at once.                                          *)

\* Mutant of Keep: the nearest candidates are kept, however close together.
KeepNearest(g, q, m, kept, c) ==
  IF Len(kept) = m THEN kept ELSE Append(kept, c)

\* One turn of select_heuristic: a candidate that is closer to a row already
\* kept than to the base point is dropped.
Keep(g, q, m, kept, c) ==
  IF \/ Len(kept) = m
     \/ \E o \in ToSet(kept) : Dist(g, g.nodes[c].at, o) < Dist(g, q, c)
  THEN kept
  ELSE Append(kept, c)

\* select_heuristic: the candidates come nearest first.
Select(g, q, cands, m) ==
  LET kept[i \in 0 .. Len(cands)] ==
        IF i = 0 THEN <<>> ELSE Keep(g, q, m, kept[i - 1], cands[i])
  IN  kept[Len(cands)]

\* Where the next layer down is entered: at the results of this one.
Onward(g, hits) ==
  IF hits = <<>> THEN <<g.entry>> ELSE SubSeq(hits, 1, Lower(BuildEf, Len(hits)))

\* plan_row: everything a new row needs to know of the frozen graph.
PlanRow(g, q, level) ==
  LET high == Lower(level, g.top)
      hits[l \in 0 .. high] ==
        SearchLayer(g, q, BuildEf,
                    IF l = high THEN <<Descend(g, q, level + 1)>>
                                ELSE Onward(g, hits[l + 1]),
                    {}, l)
  IN  [at |-> q, level |-> level, frozen |-> g.top,
       layers |-> [l \in 0 .. level |->
                     IF g.entry # 0 /\ l <= high THEN hits[l] ELSE <<>>]]

\* Mutant of BackLink: an overfull list is never selected again.
BackLinkUnbounded(g, row, n, l, list) == Append(list, row)

\* The list of a neighbour that learns of the new row; an overfull list is
\* selected again.
BackLink(g, row, n, l, list) ==
  LET longer == Append(list, row)
      here   == g.nodes[n].at
  IN  IF Len(longer) > Cap(l)
      THEN Select(g, here, Sort(g, here, longer, Rows(g)), Cap(l))
      ELSE longer

\* The new row's own list: empty above the frozen prefix.
Chosen(g, plan, l) ==
  IF g.entry # 0 /\ l <= Lower(plan.level, plan.frozen)
  THEN Select(g, plan.at, plan.layers[l], M)
  ELSE <<>>

\* The new row's slot, with its own lists.
AddSlot(g, plan) ==
  [g EXCEPT !.nodes = Append(@, [at |-> plan.at, level |-> plan.level,
                                 links |-> [l \in 0 .. plan.level |-> Chosen(g, plan, l)]])]

\* The list of a row once it has learned of the new row as many times as the
\* new row has chosen it.
BackLinked(g, row, r, l) ==
  LET chosen == Links(g, row, l)
      list[i \in 0 .. Len(chosen)] ==
        IF i = 0 THEN Links(g, r, l)
        ELSE IF chosen[i] = r THEN BackLink(g, row, r, l, list[i - 1])
        ELSE list[i - 1]
  IN  list[Len(chosen)]

\* A node once the new row is linked to the neighbours it chose.
LinkNode(g, row, r) ==
  [at |-> g.nodes[r].at, level |-> g.nodes[r].level,
   links |-> [l \in 0 .. g.nodes[r].level |->
                IF l > g.nodes[row].level THEN Links(g, r, l)
                ELSE BackLinked(g, row, r, l)]]

\* link_row.  Lists of different rows or layers do not influence each other,
\* so the loops over layers and chosen neighbours are one step.
LinkRow(g, plan) ==
  LET row    == Len(g.nodes) + 1
      slot   == AddSlot(g, plan)
      higher == g.entry = 0 \/ plan.level > g.top
  IN  [nodes |-> [r \in 1 .. row |-> LinkNode(slot, row, r)],
       entry |-> IF higher THEN row ELSE g.entry,
       top   |-> IF higher THEN plan.level ELSE g.top]

AddRow(g, q, level) == LinkRow(g, PlanRow(g, q, level))

\* One row of a bulk call: planned against the graph that its wave found.  A
\* wave is over when it has its rows; the first row of an empty graph is alone.
AddToWave(build, row, wave) ==
  LET fresh == build.count = wave \/ build.frozen.entry = 0
      frozen == IF fresh THEN build.graph ELSE build.frozen
  IN  [graph  |-> LinkRow(build.graph, PlanRow(frozen, row[1], row[2])),
       frozen |-> frozen,
       count  |-> IF fresh THEN 1 ELSE build.count + 1]

\* add_rows_bulk; "batch" is a sequence of <<point, level>>.
AddBulk(g, batch, wave) ==
  LET build[i \in 0 .. Len(batch)] ==
        IF i = 0 THEN [graph |-> g, frozen |-> g, count |-> wave]
                 ELSE AddToWave(build[i - 1], batch[i], wave)
  IN  build[Len(batch)].graph

-----------------------------------------------------------------------------
(* Persistence of the graph: a stream of words.  A level is written before *)
(* its link lists, a list behind its length; the points are in the base    *)
(* storage and come back with it.                                          *)

ListWords(list) == <<Len(list)>> \o list

\* Mutant of NodeWords: only the lists of layer 0 are written.
NodeWordsBaseLayer(node) == <<node.level>> \o ListWords(node.links[0])

NodeWords(node) ==
  LET words[l \in 0 .. node.level + 1] ==
        IF l = 0 THEN <<node.level>> ELSE words[l - 1] \o ListWords(node.links[l - 1])
  IN  words[node.level + 1]

Serialize(g) ==
  LET words[r \in 0 .. Len(g.nodes)] ==
        IF r = 0 THEN <<Len(g.nodes), g.top, g.entry>>
                 ELSE words[r - 1] \o NodeWords(g.nodes[r])
  IN  words[Len(g.nodes)]

\* The reader: [ok, pos, lists]; "ok" is FALSE from the first bad word on.
ReadList(words, count, reader) ==
  LET len == words[reader.pos]
      end == reader.pos + len
  IN  IF \/ ~reader.ok \/ reader.pos > Len(words)
         \/ len \notin 0 .. count \/ end > Len(words)
         \/ \E i \in reader.pos + 1 .. end : words[i] \notin 1 .. count
      THEN [reader EXCEPT !.ok = FALSE]
      ELSE [reader EXCEPT !.pos = end + 1,
              !.lists = Append(@, SubSeq(words, reader.pos + 1, end))]

ReadNode(words, count, top, reader) ==
  LET level == words[reader.pos]
      read[i \in 0 .. level + 1] ==
        IF i = 0 THEN [ok |-> TRUE, pos |-> reader.pos + 1, lists |-> <<>>]
                 ELSE ReadList(words, count, read[i - 1])
      end == read[level + 1]
  IN  IF \/ ~reader.ok \/ reader.pos > Len(words)
         \/ level \notin 0 .. top \/ ~end.ok
      THEN [reader EXCEPT !.ok = FALSE]
      ELSE [ok |-> TRUE, pos |-> end.pos,
            nodes |-> Append(reader.nodes,
                             [level |-> level,
                              links |-> [l \in 0 .. level |-> end.lists[l + 1]]])]

\* deserialize for a base that holds the given points.
Deserialize(words, points) ==
  LET count == Len(points)
      read[r \in 0 .. count] ==
        IF r = 0 THEN [ok |-> TRUE, pos |-> 4, nodes |-> <<>>]
                 ELSE ReadNode(words, count, words[2], read[r - 1])
      end == read[count]
  IN  IF \/ Len(words) < 3 \/ words[1] # count \/ words[3] \notin 1 .. count
         \/ ~end.ok
      THEN [ok |-> FALSE, graph |-> EmptyGraph]
      ELSE [ok |-> TRUE,
            graph |-> [entry |-> words[3], top |-> words[2],
                       nodes |-> [r \in 1 .. count |->
                                    [at |-> points[r],
                                     level |-> end.nodes[r].level,
                                     links |-> end.nodes[r].links]]]]
=============================================================================
