------------------------------ MODULE HnswBulk ------------------------------
(***************************************************************************)
(* HnswIndex::add_rows_bulk with its threads.  Each wave is planned by the *)
(* calling thread and its helpers, which take slots from an atomic counter *)
(* and read the graph, and is linked by the caller alone once it has       *)
(* joined the helpers.  A planner reads the graph in several steps: the    *)
(* greedy descent, then one search per layer.                              *)
(*                                                                         *)
(* "called" is auxiliary: the graph before the call and what it has to add.*)
(***************************************************************************)
EXTENDS HnswOps

CONSTANTS
  Wave, MaxLevel, MaxRows, MaxBatch,   \* as in HnswIndex
  Caller, Helpers                      \* the threads

ASSUME BulkAssumption ==
         /\ Wave \in Nat \ {0} /\ MaxLevel \in Nat
         /\ MaxRows \in Nat /\ MaxBatch \in Nat
         /\ Caller \notin Helpers

Workers == {Caller} \cup Helpers

VARIABLES graph, stream, drawn,
          phase,      \* of the caller: "idle", "wave", "work", "link"
          pool,       \* the helpers of this call
          rest,       \* points of the call that are in no wave yet
          wave,       \* the wave: <<point, level>>
          plans,      \* one slot for each row of the wave
          next,       \* the atomic counter
          pc, local,  \* of each worker
          linked,     \* rows of the wave that are linked
          called

vars == <<graph, stream, drawn, phase, pool, rest, wave, plans, next, pc,
          local, linked, called>>

Idle == [slot |-> 0, layer |-> -1, entries |-> <<>>]

Init ==
  /\ graph = EmptyGraph
  /\ stream \in [1 .. MaxRows -> 0 .. MaxLevel]
  /\ drawn = 0
  /\ phase = "idle"
  /\ pool = {} /\ rest = <<>> /\ wave = <<>> /\ plans = <<>>
  /\ next = 1 /\ linked = 0
  /\ pc = [t \in Workers |-> "off"]
  /\ local = [t \in Workers |-> Idle]
  /\ called = [graph |-> EmptyGraph, batch |-> <<>>]

Draw(points) == [i \in DOMAIN points |-> <<points[i], stream[drawn + i]>>]

-----------------------------------------------------------------------------
(* The calling thread.                                                     *)

\* An empty graph gets its entry row before any wave.
Call ==
  /\ phase = "idle"
  /\ phase' = "wave"
  /\ pool' \in SUBSET Helpers
  /\ \E n \in 2 .. MaxBatch :
       /\ Len(graph.nodes) + n <= MaxRows
       /\ \E points \in [1 .. n -> Points] :
            /\ called' = [graph |-> graph, batch |-> Draw(points)]
            /\ IF graph.entry = 0
               THEN /\ graph' = AddRow(graph, points[1], stream[drawn + 1])
                    /\ drawn' = drawn + 1
                    /\ rest' = Tail(points)
               ELSE rest' = points /\ UNCHANGED <<graph, drawn>>
  /\ UNCHANGED <<stream, wave, plans, next, pc, local, linked>>

\* Draw the levels of the wave in row order and start the workers; a wave of
\* one row has no helpers.
StartWave ==
  LET n == Lower(Wave, Len(rest))
  IN  /\ phase = "wave" /\ rest # <<>>
      /\ phase' = "work"
      /\ wave' = Draw(SubSeq(rest, 1, n))
      /\ drawn' = drawn + n
      /\ rest' = SubSeq(rest, n + 1, Len(rest))
      /\ plans' = [i \in 1 .. n |-> [at |-> rest[i], level |-> 0,
                                     frozen |-> -1, layers |-> <<>>]]
      /\ next' = 1 /\ linked' = 0
      /\ pc' = [t \in Workers |->
                  IF t = Caller \/ (t \in pool /\ n > 1) THEN "take" ELSE "off"]
      /\ UNCHANGED <<graph, stream, pool, local, called>>

\* Mutant of Join: the helpers are not joined.
JoinNobody ==
  /\ phase = "work"
  /\ pc[Caller] = "left"
  /\ phase' = "link"
  /\ UNCHANGED <<graph, stream, drawn, pool, rest, wave, plans, next, pc,
                 local, linked, called>>

\* Mutant of Join: helpers that were never started are joined as well.
JoinUnstarted ==
  /\ phase = "work"
  /\ pc[Caller] = "left" /\ \A t \in pool : pc[t] = "left"
  /\ phase' = "link"
  /\ UNCHANGED <<graph, stream, drawn, pool, rest, wave, plans, next, pc,
                 local, linked, called>>

Join ==
  /\ phase = "work"
  /\ pc[Caller] = "left" /\ \A t \in pool : pc[t] \in {"left", "off"}
  /\ phase' = "link"
  /\ UNCHANGED <<graph, stream, drawn, pool, rest, wave, plans, next, pc,
                 local, linked, called>>

LinkNext ==
  /\ phase = "link"
  /\ graph' = LinkRow(graph, plans[linked + 1])
  /\ linked' = linked + 1
  /\ phase' = IF linked' = Len(wave) THEN "wave" ELSE "link"
  /\ UNCHANGED <<stream, drawn, pool, rest, wave, plans, next, pc, local,
                 called>>

FinishCall ==
  /\ phase = "wave" /\ rest = <<>>
  /\ phase' = "idle"
  /\ called' = [graph |-> EmptyGraph, batch |-> <<>>]
  /\ pool' = {} /\ wave' = <<>> /\ plans' = <<>> /\ next' = 1 /\ linked' = 0
  /\ pc' = [t \in Workers |-> "off"]
  /\ local' = [t \in Workers |-> Idle]
  /\ UNCHANGED <<graph, stream, drawn, rest>>

-----------------------------------------------------------------------------
(* A worker.                                                               *)

\* Mutant of Take: the counter is read and never advanced.
TakeNoAdvance(t) ==
  /\ pc[t] = "take"
  /\ pc' = [pc EXCEPT ![t] = IF next > Len(wave) THEN "left" ELSE "descend"]
  /\ local' = [local EXCEPT ![t] = [Idle EXCEPT !.slot = next]]
  /\ UNCHANGED <<graph, stream, drawn, phase, pool, rest, wave, plans, next,
                 linked, called>>

\* Mutant of Take: one slot too many.
TakePastEnd(t) ==
  /\ pc[t] = "take"
  /\ pc' = [pc EXCEPT ![t] = IF next > Len(wave) + 1 THEN "left" ELSE "descend"]
  /\ local' = [local EXCEPT ![t] = [Idle EXCEPT !.slot = next]]
  /\ next' = next + 1
  /\ UNCHANGED <<graph, stream, drawn, phase, pool, rest, wave, plans, linked,
                 called>>

\* next.fetch_add(1)
Take(t) ==
  /\ pc[t] = "take"
  /\ pc' = [pc EXCEPT ![t] = IF next > Len(wave) THEN "left" ELSE "descend"]
  /\ local' = [local EXCEPT ![t] = [Idle EXCEPT !.slot = next]]
  /\ next' = next + 1
  /\ UNCHANGED <<graph, stream, drawn, phase, pool, rest, wave, plans, linked,
                 called>>

\* plan_row up to the first layer that takes candidates.
DescendForPlan(t) ==
  LET i     == local[t].slot
      at    == wave[i][1]
      level == wave[i][2]
  IN  /\ pc[t] = "descend"
      /\ pc' = [pc EXCEPT ![t] = "layer"]
      /\ plans' = [plans EXCEPT ![i] =
                     [at |-> at, level |-> level, frozen |-> graph.top,
                      layers |-> [l \in 0 .. level |-> <<>>]]]
      /\ local' = [local EXCEPT ![t] =
                     [slot |-> i, layer |-> Lower(level, graph.top),
                      entries |-> <<Descend(graph, at, level + 1)>>]]
      /\ UNCHANGED <<graph, stream, drawn, phase, pool, rest, wave, next,
                     linked, called>>

\* One search_layer of plan_row.
PlanLayer(t) ==
  LET i    == local[t].slot
      l    == local[t].layer
      hits == SearchLayer(graph, wave[i][1], BuildEf, local[t].entries, {}, l)
  IN  /\ pc[t] = "layer"
      /\ plans' = [plans EXCEPT ![i].layers[l] = hits]
      /\ pc' = [pc EXCEPT ![t] = IF l = 0 THEN "take" ELSE "layer"]
      /\ local' = [local EXCEPT ![t] = [slot |-> i, layer |-> l - 1,
                                        entries |-> Onward(graph, hits)]]
      /\ UNCHANGED <<graph, stream, drawn, phase, pool, rest, wave, next,
                     linked, called>>

-----------------------------------------------------------------------------
CallerStep == StartWave \/ Join \/ LinkNext \/ FinishCall

WorkerStep(t) == Take(t) \/ DescendForPlan(t) \/ PlanLayer(t)

Next == Call \/ CallerStep \/ \E t \in Workers : WorkerStep(t)

\* Every thread that can run is run; nobody has to call.  Planning and linking
\* are never blocked, so fairness of their steps says that they come to an end
\* (WF of those actions would have TLC search the graph to see this).
Fairness ==
  /\ WF_vars(StartWave \/ Join \/ FinishCall) /\ []<>(phase # "link")
  /\ \A t \in Workers : WF_vars(Take(t)) /\ []<>(pc[t] \notin {"descend", "layer"})

Spec == Init /\ [][Next]_vars /\ Fairness

-----------------------------------------------------------------------------
TypeOK ==
  /\ phase \in {"idle", "wave", "work", "link"}
  /\ pool \subseteq Helpers
  /\ next \in Nat /\ linked \in 0 .. Len(wave)
  /\ DOMAIN plans = DOMAIN wave
  /\ pc \in [Workers -> {"off", "take", "descend", "layer", "left"}]
  /\ \A t \in Workers :
       pc[t] \in {"descend", "layer"} => local[t].slot \in DOMAIN wave

\* Whatever the number of threads and their scheduling, a call builds the
\* graph that add_rows_bulk builds alone (HnswIndex): a function of the graph
\* before it, the points in their order and the seed.
ScheduleUnseen ==
  phase = "wave" /\ rest = <<>> => graph = AddBulk(called.graph, called.batch, Wave)

\* "Every write goes to the worker's own plan slot" (hnsw_index.cpp): two
\* workers never fill one slot, and when linking starts none is being filled.
OwnSlot ==
  \A t \in Workers :
    pc[t] \in {"descend", "layer"} =>
      /\ phase = "work"
      /\ \A u \in Workers \ {t} :
           pc[u] \in {"descend", "layer"} => local[u].slot # local[t].slot

\* Every bulk call returns.
CallReturns == phase # "idle" ~> phase = "idle"
=============================================================================
