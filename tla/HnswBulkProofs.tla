--------------------------- MODULE HnswBulkProofs ---------------------------
(***************************************************************************)
(* Proofs about HnswBulk: no two planners share a slot, and the graph that *)
(* the threads build is the one the call builds alone.                     *)
(***************************************************************************)
EXTENDS HnswBulk, SequenceTheorems, WellFoundedInduction, TLAPS

-----------------------------------------------------------------------------
(* Counting up to a number.                                                *)

LEMMA LeastNumber ==
  ASSUME NEW T \in SUBSET Nat, T # {}
  PROVE  \E x \in T : \A y \in T : x <= y
<1> DEFINE R == OpToRel(<, Nat)
<1>1. \E x \in T : \A y \in T : ~ (<<y, x>> \in R)
  <2>1. IsWellFoundedOn(R, Nat)
    BY NatLessThanWellFounded
  <2> HIDE DEF R
  <2> QED  BY <2>1, WFMin
<1>2. \A x, y \in Nat : y < x => <<y, x>> \in R
  BY DEF OpToRel
<1> HIDE DEF R
<1>3. PICK x \in T : \A y \in T : ~ (<<y, x>> \in R)
  BY <1>1
<1>4. ASSUME NEW y \in T
      PROVE  x <= y
  <2>1. x \in Nat /\ y \in Nat /\ ~(y < x)
    BY <1>2, <1>3
  <2> QED  BY <2>1
<1> QED  BY <1>4

LEMMA UpTo ==
  ASSUME NEW last \in Nat, NEW S, 0 \in S,
         \A n \in 0 .. last - 1 : n \in S => n + 1 \in S
  PROVE  \A n \in 0 .. last : n \in S
<1> SUFFICES ASSUME NEW bad \in 0 .. last, bad \notin S
             PROVE  FALSE
  OBVIOUS
<1> DEFINE Bad == {n \in 0 .. last : n \notin S}
<1>1. Bad \in SUBSET Nat /\ Bad # {}
  OBVIOUS
<1> HIDE DEF Bad
<1>2. PICK m \in Bad : \A n \in Bad : m <= n
  BY <1>1, LeastNumber
<1>3. m \in 0 .. last /\ m \notin S /\ m # 0
  BY <1>2 DEF Bad
<1>4. m - 1 \in 0 .. last /\ m - 1 \in 0 .. last - 1
  BY <1>3
<1>5. m - 1 \in S
  BY <1>2, <1>3, <1>4 DEF Bad
<1> QED  BY <1>3, <1>4, <1>5

-----------------------------------------------------------------------------
(* The recursive functions behind AddBulk and PlanRow.                     *)

Built(g, batch) ==
  LET build[i \in 0 .. Len(batch)] ==
        IF i = 0 THEN [graph |-> g, frozen |-> g, count |-> Wave]
                 ELSE AddToWave(build[i - 1], batch[i], Wave)
  IN  build

LEMMA AddBulkIs ==
  ASSUME NEW g, NEW batch
  PROVE  AddBulk(g, batch, Wave) = Built(g, batch)[Len(batch)].graph
BY DEF AddBulk, Built

\* What add_rows_bulk has built after i rows.
LEMMA BuiltIs ==
  ASSUME NEW g, NEW batch, Len(batch) \in Nat
  PROVE  /\ Built(g, batch)[0] = [graph |-> g, frozen |-> g, count |-> Wave]
         /\ \A i \in 1 .. Len(batch) :
              Built(g, batch)[i] = AddToWave(Built(g, batch)[i - 1], batch[i], Wave)
<1> DEFINE n == Len(batch)
           base == [graph |-> g, frozen |-> g, count |-> Wave]
           Next1(b, i) == AddToWave(b, batch[i], Wave)
           F(h, m) == [i \in 0 .. m |-> IF i = 0 THEN base ELSE Next1(h[i - 1], i)]
           Runs == {m \in 0 .. n : \E h : h = F(h, m)}
<1>0. Built(g, batch) = CHOOSE h : h = F(h, n)
  BY DEF Built
<1> HIDE DEF base, Next1
<1>1. 0 \in Runs
  <2> DEFINE h == [i \in 0 .. 0 |-> base]
  <2>1. h = F(h, 0)
    <3>1. \A i \in 0 .. 0 : i = 0
      OBVIOUS
    <3> QED  BY <3>1
  <2>2. 0 \in 0 .. n
    OBVIOUS
  <2> HIDE DEF h, F
  <2> QED  BY <2>1, <2>2
<1>2. ASSUME NEW m \in 0 .. n - 1, m \in Runs
      PROVE  m + 1 \in Runs
  <2>1. PICK h : h = F(h, m)
    BY <1>2
  <2> DEFINE v == Next1(h[m], m + 1)
             k == [i \in 0 .. m + 1 |-> IF i = m + 1 THEN v ELSE h[i]]
  <2>2. m + 1 \in 0 .. n /\ m \in Nat /\ m + 1 - 1 = m
    OBVIOUS
  <2> HIDE DEF v
  <2>3. \A i \in 0 .. m + 1 : k[i] = IF i = m + 1 THEN v ELSE h[i]
    OBVIOUS
  <2>4. \A i \in 0 .. m + 1 : i = m + 1 \/ i \in 0 .. m
    BY <2>2
  <2>5. \A i \in 0 .. m + 1 : k[i] = F(k, m + 1)[i]
    <3> TAKE i \in 0 .. m + 1
    <3>1. CASE i = m + 1
      <4>1. k[m] = h[m] /\ i # 0 /\ i - 1 = m
        BY <2>2, <2>3, <3>1
      <4> QED  BY <4>1, <3>1, <2>3 DEF v
    <3>2. CASE i \in 0 .. m
      <4>1. k[i] = h[i] /\ h[i] = IF i = 0 THEN base ELSE Next1(h[i - 1], i)
        BY <2>1, <2>2, <2>3, <3>2
      <4>2. i # 0 => k[i - 1] = h[i - 1]
        BY <2>2, <2>3, <3>2
      <4> QED  BY <4>1, <4>2
    <3> QED  BY <3>1, <3>2, <2>4
  <2>6. k = F(k, m + 1)
    <3>1. k = [i \in 0 .. m + 1 |-> k[i]]
      OBVIOUS
    <3> HIDE DEF k
    <3> QED  BY <3>1, <2>5
  <2> HIDE DEF k, F
  <2> QED  BY <2>2, <2>6
<1>3. n \in Runs
  <2> HIDE DEF Runs
  <2>1. \A m \in 0 .. n : m \in Runs
    BY <1>1, <1>2, UpTo
  <2> QED  BY <2>1
<1>4. PICK h : h = F(h, n)
  BY <1>3
<1>5. Built(g, batch) = F(Built(g, batch), n)
  <2> HIDE DEF F
  <2> QED  BY <1>0, <1>4
<1> QED  BY <1>5 DEF base, Next1

High(g, level) == Lower(level, g.top)

Entries(g, q, level, hits, l) ==
  IF l = High(g, level) THEN <<Descend(g, q, level + 1)>> ELSE Onward(g, hits[l + 1])

Hits(g, q, level) ==
  LET high == Lower(level, g.top)
      hits[l \in 0 .. high] ==
        SearchLayer(g, q, BuildEf,
                    IF l = high THEN <<Descend(g, q, level + 1)>>
                                ELSE Onward(g, hits[l + 1]),
                    {}, l)
  IN  hits

LEMMA PlanIs ==
  ASSUME NEW g, NEW q, NEW level
  PROVE  PlanRow(g, q, level) =
           [at |-> q, level |-> level, frozen |-> g.top,
            layers |-> [l \in 0 .. level |->
                          IF g.entry # 0 /\ l <= High(g, level)
                          THEN Hits(g, q, level)[l] ELSE <<>>]]
BY DEF PlanRow, Hits, High

\* The candidates that plan_row finds on each layer.
LEMMA HitsAre ==
  ASSUME NEW g, NEW q, NEW level, High(g, level) \in Nat
  PROVE  \A l \in 0 .. High(g, level) :
           Hits(g, q, level)[l] =
             SearchLayer(g, q, BuildEf, Entries(g, q, level, Hits(g, q, level), l), {}, l)
<1> DEFINE n == High(g, level)
           Next1(h, l) == SearchLayer(g, q, BuildEf, Entries(g, q, level, h, l), {}, l)
           F(h, m) == [l \in n - m .. n |-> Next1(h, l)]
           Runs == {m \in 0 .. n : \E h : h = F(h, m)}
<1>0. Hits(g, q, level) = CHOOSE h : h = F(h, n)
  <2> DEFINE G(h) == [l \in 0 .. n |-> Next1(h, l)]
  <2>1. Hits(g, q, level) = CHOOSE h : h = G(h)
    BY DEF Hits, High, Entries
  <2>2. n - n = 0
    OBVIOUS
  <2> HIDE DEF n, Next1
  <2> QED  BY <2>1, <2>2
<1>a. \A h, k, l : l = n \/ h[l + 1] = k[l + 1] => Next1(h, l) = Next1(k, l)
  BY DEF Entries
<1> HIDE DEF Next1
<1>1. 0 \in Runs
  <2> DEFINE h == F(<<>>, 0)
  <2>1. h = F(h, 0)
    <3>1. \A l \in n - 0 .. n : l = n
      OBVIOUS
    <3>2. \A l \in n - 0 .. n : Next1(<<>>, l) = Next1(h, l)
      BY <3>1, <1>a
    <3> QED  BY <3>2
  <2>2. 0 \in 0 .. n
    OBVIOUS
  <2> HIDE DEF h, F, n
  <2> QED  BY <2>1, <2>2
<1>2. ASSUME NEW m \in 0 .. n - 1, m \in Runs
      PROVE  m + 1 \in Runs
  <2>1. PICK h : h = F(h, m)
    BY <1>2
  <2> DEFINE low == n - (m + 1)
             v == Next1(h, low)
             k == [l \in low .. n |-> IF l = low THEN v ELSE h[l]]
  <2>2. m + 1 \in 0 .. n /\ low \in Nat /\ low + 1 = n - m /\ n \in Nat
    OBVIOUS
  <2> HIDE DEF v, low, n
  <2>3. \A l \in low .. n : k[l] = IF l = low THEN v ELSE h[l]
    OBVIOUS
  <2>4. \A l \in low .. n : l = low \/ l \in n - m .. n
    BY <2>2
  <2>5. \A l \in low .. n : k[l] = Next1(k, l)
    <3> TAKE l \in low .. n
    <3>1. l = n \/ k[l + 1] = h[l + 1]
      BY <2>2, <2>3
    <3>2. Next1(k, l) = Next1(h, l)
      BY <3>1, <1>a
    <3>3. CASE l = low
      BY <3>3, <3>2, <2>3 DEF v
    <3>4. CASE l # low
      <4>1. l \in n - m .. n
        BY <3>4, <2>4
      <4>2. h[l] = Next1(h, l)
        BY <4>1, <2>1
      <4> QED  BY <4>2, <3>2, <3>4, <2>3
    <3> QED  BY <3>3, <3>4
  <2>6. k = F(k, m + 1)
    <3>1. k = [l \in low .. n |-> k[l]]
      OBVIOUS
    <3> HIDE DEF k
    <3> QED  BY <3>1, <2>5 DEF low
  <2> HIDE DEF k, F
  <2> QED  BY <2>2, <2>6
<1>3. n \in Runs
  <2> HIDE DEF Runs
  <2> HIDE DEF n
  <2>1. n \in Nat
    BY DEF n
  <2>2. \A m \in 0 .. n : m \in Runs
    BY <1>1, <1>2, <2>1, UpTo
  <2> QED  BY <2>1, <2>2
<1>4. PICK h : h = F(h, n)
  BY <1>3
<1>5. Hits(g, q, level) = F(Hits(g, q, level), n)
  <2> HIDE DEF F
  <2> QED  BY <1>0, <1>4
<1>6. n - n = 0
  OBVIOUS
<1> QED  BY <1>5, <1>6 DEF Next1

\* link_row adds one row, and from then on there is an entry row.
LEMMA LinkRowShape ==
  ASSUME NEW g, NEW plan, Len(g.nodes) \in Nat, plan.level \in Nat,
         g.entry # 0 => g.top \in Nat
  PROVE  /\ Len(LinkRow(g, plan).nodes) = Len(g.nodes) + 1
         /\ LinkRow(g, plan).entry # 0
         /\ LinkRow(g, plan).top \in Nat
<1> DEFINE node(r) == LinkNode(AddSlot(g, plan), Len(g.nodes) + 1, r)
<1>1. LinkRow(g, plan).nodes = [r \in 1 .. Len(g.nodes) + 1 |-> node(r)]
  BY DEF LinkRow
<1> HIDE DEF node
<1>2. Len([r \in 1 .. Len(g.nodes) + 1 |-> node(r)]) = Len(g.nodes) + 1
  OBVIOUS
<1>3. /\ LinkRow(g, plan).entry = IF g.entry = 0 \/ plan.level > g.top
                                  THEN Len(g.nodes) + 1 ELSE g.entry
      /\ LinkRow(g, plan).top = IF g.entry = 0 \/ plan.level > g.top
                                THEN plan.level ELSE g.top
  BY DEF LinkRow
<1> QED  BY <1>1, <1>2, <1>3

-----------------------------------------------------------------------------
(* The inductive invariant, part by part.                                  *)

Busy == {"descend", "layer"}

\* What each worker keeps: its slot, its layer and where that is entered.
Locals(f) ==
  /\ f = [t \in Workers |-> f[t]]
  /\ \A t \in Workers :
       /\ f[t] = [slot |-> f[t].slot, layer |-> f[t].layer, entries |-> f[t].entries]
       /\ f[t].slot \in Nat /\ f[t].layer \in Int

LEMMA LocalsPut ==
  ASSUME NEW f, Locals(f), NEW t \in Workers, NEW a \in Nat, NEW b \in Int, NEW c
  PROVE  Locals([f EXCEPT ![t] = [slot |-> a, layer |-> b, entries |-> c]])
<1> DEFINE s == [slot |-> a, layer |-> b, entries |-> c]
           h == [f EXCEPT ![t] = s]
<1>1. s = [slot |-> s.slot, layer |-> s.layer, entries |-> s.entries]
      /\ s.slot \in Nat /\ s.layer \in Int
  OBVIOUS
<1> HIDE DEF s
<1>2. f = [u \in Workers |-> f[u]]
  BY DEF Locals
<1>3. h = [u \in Workers |-> IF u = t THEN s ELSE f[u]]
  BY <1>2
<1>4. \A u \in Workers : h[u] = IF u = t THEN s ELSE f[u]
  BY <1>3
<1>5. h = [u \in Workers |-> h[u]]
  BY <1>3, <1>4
<1> HIDE DEF h
<1>6. Locals(h)
  BY <1>1, <1>4, <1>5 DEF Locals
<1> QED  BY <1>6 DEF h, s

\* Types of the threads' state.
Threads ==
  /\ phase \in {"idle", "wave", "work", "link"}
  /\ pool \subseteq Helpers
  /\ next \in Nat \ {0}
  /\ pc \in [Workers -> {"off", "take", "descend", "layer", "left"}]
  /\ Locals(local)

\* A plan for each row of the wave.
Slotted(p, w) ==
  /\ p = [i \in DOMAIN w |-> p[i]]
  /\ \A i \in DOMAIN w :
       /\ p[i] = [at |-> p[i].at, level |-> p[i].level, frozen |-> p[i].frozen,
                  layers |-> p[i].layers]
       /\ p[i].level \in Nat

LEMMA SlottedPut ==
  ASSUME NEW p, NEW w, Slotted(p, w), NEW i, NEW a, NEW v \in Nat, NEW f, NEW y
  PROVE  Slotted([p EXCEPT ![i] = [at |-> a, level |-> v, frozen |-> f, layers |-> y]], w)
<1> DEFINE s == [at |-> a, level |-> v, frozen |-> f, layers |-> y]
           h == [p EXCEPT ![i] = s]
<1>1. s = [at |-> s.at, level |-> s.level, frozen |-> s.frozen, layers |-> s.layers]
      /\ s.level \in Nat
  OBVIOUS
<1> HIDE DEF s
<1>2. p = [j \in DOMAIN w |-> p[j]]
  BY DEF Slotted
<1>3. h = [j \in DOMAIN w |-> IF j = i THEN s ELSE p[j]]
  BY <1>2
<1>4. \A j \in DOMAIN w : h[j] = IF j = i THEN s ELSE p[j]
  BY <1>3
<1>5. h = [j \in DOMAIN w |-> h[j]]
  BY <1>3, <1>4
<1> HIDE DEF h
<1>6. Slotted(h, w)
  BY <1>1, <1>4, <1>5 DEF Slotted
<1> QED  BY <1>6 DEF h, s

\* A wave is as long as kBulkWave, or the call ends with it.
Waves ==
  /\ wave \in Seq(Points \X (0 .. MaxLevel)) /\ rest \in Seq(Points)
  /\ Slotted(plans, wave)
  /\ linked \in 0 .. Len(wave)
  /\ phase = "idle" => rest = <<>>
  /\ phase \in {"work", "link"} =>
       /\ wave # <<>> /\ Len(wave) <= Wave
       /\ Len(wave) = Wave \/ rest = <<>>
  /\ phase = "work" => linked = 0
  /\ phase = "link" => linked < Len(wave)

\* Rows of the wave whose levels are drawn and which are not linked yet.
Pending == IF phase = "work" THEN Len(wave)
           ELSE IF phase = "link" THEN Len(wave) - linked ELSE 0

\* A level is drawn for each row, and the stream does not run out.
Counted ==
  /\ stream \in [1 .. MaxRows -> 0 .. MaxLevel]
  /\ Len(graph.nodes) \in Nat
  /\ graph.entry # 0 => graph.top \in Nat
  /\ phase # "idle" => graph.entry # 0
  /\ drawn = Len(graph.nodes) + Pending
  /\ drawn + Len(rest) <= MaxRows

\* Who plans, and on which slots.
Slots ==
  \A t \in Workers :
    /\ pc[t] \notin {"off", "left"} => phase = "work"
    /\ phase = "work" /\ pc[t] = "off" => t # Caller
    /\ phase = "idle" \/ t \notin pool \cup {Caller} => pc[t] = "off"
    /\ phase = "work" /\ pc[t] = "left" => next > Len(wave)
    /\ pc[t] \in Busy =>
         /\ local[t].slot \in DOMAIN wave /\ local[t].slot < next
         /\ \A u \in Workers \ {t} :
              pc[u] \in Busy => local[u].slot # local[t].slot

Safe == Threads /\ Waves /\ Counted /\ Slots

LEMMA SafeImplies == Safe => TypeOK /\ OwnSlot
<1> SUFFICES ASSUME Safe PROVE TypeOK /\ OwnSlot
  OBVIOUS
<1> USE DEF Safe
<1>1. TypeOK
  <2>1. DOMAIN plans = DOMAIN wave
    BY DEF Waves, Slotted
  <2>2. phase \in {"idle", "wave", "work", "link"} /\ pool \subseteq Helpers
        /\ next \in Nat /\ pc \in [Workers -> {"off", "take", "descend", "layer", "left"}]
    BY DEF Threads
  <2>3. \A t \in Workers :
          pc[t] \in {"descend", "layer"} => local[t].slot \in DOMAIN wave
    BY DEF Slots, Busy
  <2>4. linked \in 0 .. Len(wave)
    BY DEF Waves
  <2> QED  BY <2>1, <2>2, <2>3, <2>4 DEF TypeOK
<1>2. OwnSlot
  <2>1. \A t \in Workers : pc[t] \in Busy => phase = "work"
    BY DEF Slots, Busy
  <2>2. \A t \in Workers, u \in Workers :
          t # u /\ pc[t] \in Busy /\ pc[u] \in Busy => local[u].slot # local[t].slot
    BY DEF Slots
  <2> QED  BY <2>1, <2>2 DEF OwnSlot, Busy
<1> QED  BY <1>1, <1>2

LEMMA SafeInit == Init => Safe
<1> SUFFICES ASSUME Init PROVE Safe
  OBVIOUS
<1> USE BulkAssumption DEF Init
<1>1. Threads
  BY DEF Threads, Idle, Locals
<1>2. Waves
  BY DEF Waves, Slotted
<1>3. Counted
  BY DEF Counted, Pending, EmptyGraph
<1>4. Slots
  BY DEF Slots, Busy
<1> QED  BY <1>1, <1>2, <1>3, <1>4 DEF Safe

\* The part of a call that goes into a wave, with its levels.
LEMMA DrawIs ==
  ASSUME NEW points \in Seq(Points), drawn \in Nat, drawn + Len(points) <= MaxRows,
         stream \in [1 .. MaxRows -> 0 .. MaxLevel]
  PROVE  /\ Draw(points) \in Seq(Points \X (0 .. MaxLevel))
         /\ Len(Draw(points)) = Len(points)
         /\ \A i \in 1 .. Len(points) : Draw(points)[i] = <<points[i], stream[drawn + i]>>
<1> DEFINE n == Len(points)
<1>1. n \in Nat /\ DOMAIN points = 1 .. n /\ \A i \in 1 .. n : points[i] \in Points
  OBVIOUS
<1>2. Draw(points) = [i \in 1 .. n |-> <<points[i], stream[drawn + i]>>]
  BY <1>1 DEF Draw
<1>3. MaxRows \in Nat
  BY BulkAssumption
<1> HIDE DEF n
<1>4. drawn + n <= MaxRows
  BY DEF n
<1>5. \A i \in 1 .. n : drawn + i \in 1 .. MaxRows
  BY <1>1, <1>3, <1>4
<1>6. \A i \in 1 .. n : <<points[i], stream[drawn + i]>> \in Points \X (0 .. MaxLevel)
  BY <1>1, <1>5
<1>7. Draw(points) \in Seq(Points \X (0 .. MaxLevel)) /\ Len(Draw(points)) = n
  BY <1>1, <1>2, <1>6
<1> QED  BY <1>2, <1>7 DEF n

LEMMA Split ==
  ASSUME NEW S, NEW s \in Seq(S), NEW n \in 0 .. Len(s)
  PROVE  /\ SubSeq(s, 1, n) \in Seq(S) /\ Len(SubSeq(s, 1, n)) = n
         /\ \A i \in 1 .. n : SubSeq(s, 1, n)[i] = s[i]
         /\ SubSeq(s, n + 1, Len(s)) \in Seq(S)
         /\ Len(SubSeq(s, n + 1, Len(s))) = Len(s) - n
         /\ \A i \in 1 .. Len(s) - n : SubSeq(s, n + 1, Len(s))[i] = s[n + i]
OBVIOUS

\* What StartWave does, in plain terms.
LEMMA Started ==
  ASSUME Safe, StartWave
  PROVE  LET n == Lower(Wave, Len(rest))
         IN  /\ n \in 1 .. Len(rest) /\ n <= Wave
             /\ n = Wave \/ n = Len(rest)
             /\ wave' \in Seq(Points \X (0 .. MaxLevel)) /\ Len(wave') = n
             /\ \A i \in 1 .. n : wave'[i] = <<rest[i], stream[drawn + i]>>
             /\ rest' \in Seq(Points) /\ Len(rest') = Len(rest) - n
             /\ \A i \in 1 .. Len(rest) - n : rest'[i] = rest[n + i]
<1> DEFINE n == Lower(Wave, Len(rest))
<1>1. rest \in Seq(Points) /\ rest # <<>> /\ Len(rest) \in Nat \ {0}
  BY DEF Safe, Waves, StartWave
<1>2. Wave \in Nat \ {0} /\ MaxRows \in Nat
  BY BulkAssumption
<1>3. n \in 1 .. Len(rest) /\ n <= Wave /\ (n = Wave \/ n = Len(rest))
  BY <1>1, <1>2 DEF Lower
<1>4. wave' = Draw(SubSeq(rest, 1, n)) /\ rest' = SubSeq(rest, n + 1, Len(rest))
  BY DEF StartWave
<1> HIDE DEF n
<1>5. /\ drawn \in Nat /\ drawn + Len(rest) <= MaxRows
      /\ stream \in [1 .. MaxRows -> 0 .. MaxLevel]
  BY DEF Safe, StartWave, Counted, Pending
<1>6. /\ SubSeq(rest, 1, n) \in Seq(Points) /\ Len(SubSeq(rest, 1, n)) = n
      /\ \A i \in 1 .. n : SubSeq(rest, 1, n)[i] = rest[i]
      /\ rest' \in Seq(Points) /\ Len(rest') = Len(rest) - n
      /\ \A i \in 1 .. Len(rest) - n : rest'[i] = rest[n + i]
  BY <1>1, <1>3, <1>4, Split
<1>7. drawn + Len(SubSeq(rest, 1, n)) <= MaxRows
  BY <1>1, <1>2, <1>3, <1>5, <1>6
<1>8. /\ wave' \in Seq(Points \X (0 .. MaxLevel)) /\ Len(wave') = n
      /\ \A i \in 1 .. n : wave'[i] = <<SubSeq(rest, 1, n)[i], stream[drawn + i]>>
  BY <1>4, <1>5, <1>6, <1>7, DrawIs
<1>9. \A i \in 1 .. n : wave'[i] = <<rest[i], stream[drawn + i]>>
  BY <1>6, <1>8
<1> QED  BY <1>3, <1>6, <1>8, <1>9 DEF n

\* What Call does, in plain terms.
LEMMA CallIs ==
  ASSUME Safe, Call
  PROVE  \E points \in Seq(Points) :
           /\ Len(points) \in Nat \ {0} /\ drawn + Len(points) <= MaxRows
           /\ drawn = Len(graph.nodes) /\ drawn \in Nat
           /\ called' = [graph |-> graph, batch |-> Draw(points)]
           /\ IF graph.entry = 0
              THEN /\ graph' = AddRow(graph, points[1], stream[drawn + 1])
                   /\ drawn' = drawn + 1
                   /\ rest' = Tail(points)
              ELSE rest' = points /\ graph' = graph /\ drawn' = drawn
<1>1. PICK n \in 2 .. MaxBatch :
        /\ Len(graph.nodes) + n <= MaxRows
        /\ \E points \in [1 .. n -> Points] :
             /\ called' = [graph |-> graph, batch |-> Draw(points)]
             /\ IF graph.entry = 0
                THEN /\ graph' = AddRow(graph, points[1], stream[drawn + 1])
                     /\ drawn' = drawn + 1
                     /\ rest' = Tail(points)
                ELSE rest' = points /\ UNCHANGED <<graph, drawn>>
  BY DEF Call
<1>2. PICK points \in [1 .. n -> Points] :
        /\ called' = [graph |-> graph, batch |-> Draw(points)]
        /\ IF graph.entry = 0
           THEN /\ graph' = AddRow(graph, points[1], stream[drawn + 1])
                /\ drawn' = drawn + 1
                /\ rest' = Tail(points)
           ELSE rest' = points /\ UNCHANGED <<graph, drawn>>
  BY <1>1
<1>3. n \in Nat \ {0}
  OBVIOUS
<1>4. points \in Seq(Points) /\ Len(points) = n
  BY <1>3
<1>5. drawn = Len(graph.nodes) /\ drawn \in Nat
  BY DEF Safe, Counted, Pending, Call
<1> QED  BY <1>1, <1>2, <1>3, <1>4, <1>5

\* A row that is added by the caller alone.
LEMMA AddRowShape ==
  ASSUME NEW g, NEW q, NEW level \in Nat, Len(g.nodes) \in Nat,
         g.entry # 0 => g.top \in Nat
  PROVE  /\ Len(AddRow(g, q, level).nodes) = Len(g.nodes) + 1
         /\ AddRow(g, q, level).entry # 0
         /\ AddRow(g, q, level).top \in Nat
<1>1. PlanRow(g, q, level).level = level
  BY PlanIs
<1> QED  BY <1>1, LinkRowShape DEF AddRow

LEMMA ThreadsStep == Safe /\ [Next]_vars => Threads'
<1> SUFFICES ASSUME Safe, [Next]_vars PROVE Threads'
  OBVIOUS
<1>0. Threads
  BY DEF Safe
<1> USE DEF Threads
<1>1. CASE Call
  BY <1>0, <1>1 DEF Call
<1>2. CASE StartWave
  BY <1>0, <1>2 DEF StartWave
<1>3. CASE Join
  BY <1>0, <1>3 DEF Join
<1>4. CASE LinkNext
  BY <1>0, <1>4 DEF LinkNext
<1>5. CASE FinishCall
  BY <1>0, <1>5 DEF FinishCall, Idle, Locals
<1>6. ASSUME NEW t \in Workers, Take(t)
      PROVE  Threads'
  <2>1. local' = [local EXCEPT ![t] = [slot |-> next, layer |-> -1, entries |-> <<>>]]
    <3>1. [Idle EXCEPT !.slot = next] = [slot |-> next, layer |-> -1, entries |-> <<>>]
      BY DEF Idle
    <3> QED  BY <1>6, <3>1 DEF Take
  <2>2. Locals(local) /\ next \in Nat /\ -1 \in Int
    BY <1>0
  <2>3. Locals(local')
    BY <2>1, <2>2, LocalsPut
  <2> QED  BY <1>0, <1>6, <2>3 DEF Take
<1>7. ASSUME NEW t \in Workers, DescendForPlan(t)
      PROVE  Threads'
  <2> DEFINE i == local[t].slot
             e == <<Descend(graph, wave[i][1], wave[i][2] + 1)>>
             l == Lower(wave[i][2], graph.top)
  <2>1. local' = [local EXCEPT ![t] = [slot |-> i, layer |-> l, entries |-> e]]
    BY <1>7 DEF DescendForPlan
  <2>2. i \in DOMAIN wave /\ phase = "work"
    BY <1>7 DEF Safe, Slots, Busy, DescendForPlan
  <2>3. wave[i][2] \in 0 .. MaxLevel
    BY <2>2 DEF Safe, Waves
  <2>4. graph.top \in Nat
    BY <2>2 DEF Safe, Counted
  <2>5. l \in Int
    BY <2>3, <2>4 DEF Lower
  <2> HIDE DEF e, l
  <2>6. Locals(local) /\ i \in Nat
    BY <1>0 DEF Locals
  <2> HIDE DEF i
  <2>7. Locals(local')
    BY <2>1, <2>5, <2>6, LocalsPut
  <2>8. pc' \in [Workers -> {"off", "take", "descend", "layer", "left"}]
    BY <1>0, <1>7 DEF DescendForPlan
  <2> QED  BY <1>0, <1>7, <2>7, <2>8 DEF DescendForPlan
<1>8. ASSUME NEW t \in Workers, PlanLayer(t)
      PROVE  Threads'
  <2> DEFINE l == local[t].layer
             hits == SearchLayer(graph, wave[local[t].slot][1], BuildEf,
                                 local[t].entries, {}, l)
             e == Onward(graph, hits)
  <2>1. local' = [local EXCEPT ![t] = [slot |-> local[t].slot, layer |-> l - 1, entries |-> e]]
    BY <1>8 DEF PlanLayer
  <2> HIDE DEF e
  <2>2. Locals(local) /\ l - 1 \in Int /\ local[t].slot \in Nat
    BY <1>0 DEF Locals
  <2> HIDE DEF l
  <2>3. Locals(local')
    BY <2>1, <2>2, LocalsPut
  <2>4. pc' \in [Workers -> {"off", "take", "descend", "layer", "left"}]
    BY <1>0, <1>8 DEF PlanLayer
  <2> QED  BY <1>0, <1>8, <2>3, <2>4 DEF PlanLayer
<1>9. CASE UNCHANGED vars
  BY <1>0, <1>9 DEF vars
<1> QED  BY <1>1, <1>2, <1>3, <1>4, <1>5, <1>6, <1>7, <1>8, <1>9
         DEF Next, CallerStep, WorkerStep

LEMMA WavesStep == Safe /\ [Next]_vars => Waves'
<1> SUFFICES ASSUME Safe, [Next]_vars PROVE Waves'
  OBVIOUS
<1>0. Waves /\ phase \in {"idle", "wave", "work", "link"}
  BY DEF Safe, Threads
<1> USE DEF Waves
<1>1. CASE Call
  <2>1. PICK points \in Seq(Points) :
          Len(points) \in Nat \ {0} /\ (rest' = Tail(points) \/ rest' = points)
    BY <1>1, CallIs
  <2>2. rest' \in Seq(Points)
    BY <2>1
  <2> QED  BY <1>0, <1>1, <2>2 DEF Call
<1>2. CASE StartWave
  <2> DEFINE n == Lower(Wave, Len(rest))
  <2>1. /\ n \in 1 .. Len(rest) /\ n <= Wave /\ (n = Wave \/ n = Len(rest))
        /\ wave' \in Seq(Points \X (0 .. MaxLevel)) /\ Len(wave') = n
        /\ rest' \in Seq(Points) /\ Len(rest') = Len(rest) - n
    BY <1>2, Started
  <2>2. /\ phase' = "work" /\ linked' = 0
        /\ plans' = [i \in 1 .. n |-> [at |-> rest[i], level |-> 0,
                                       frozen |-> -1, layers |-> <<>>]]
    BY <1>2 DEF StartWave
  <2> HIDE DEF n
  <2>3. DOMAIN wave' = 1 .. n /\ wave' # <<>>
    BY <2>1
  <2>4. n = Wave \/ rest' = <<>>
    BY <2>1
  <2>5. Slotted(plans', wave')
    BY <2>2, <2>3 DEF Slotted
  <2> QED  BY <2>1, <2>2, <2>3, <2>4, <2>5
<1>3. CASE Join
  <2>1. Len(wave) \in Nat \ {0}
    BY <1>0, <1>3 DEF Join
  <2> QED  BY <1>0, <1>3, <2>1 DEF Join
<1>4. CASE LinkNext
  <2>1. Len(wave) \in Nat \ {0}
    BY <1>0, <1>4 DEF LinkNext
  <2> QED  BY <1>0, <1>4, <2>1 DEF LinkNext
<1>5. CASE FinishCall
  BY <1>0, <1>5 DEF FinishCall, Slotted
<1>6. ASSUME NEW t \in Workers, WorkerStep(t)
      PROVE  Waves'
  <2>1. UNCHANGED <<phase, rest, wave, linked>>
    BY <1>6 DEF WorkerStep, Take, DescendForPlan, PlanLayer
  <2>2. CASE Take(t)
    BY <1>0, <2>1, <2>2 DEF Take
  <2>3. CASE DescendForPlan(t)
    <3> DEFINE i == local[t].slot
               y == [l \in 0 .. wave[i][2] |-> <<>>]
    <3>1. plans' = [plans EXCEPT ![i] = [at |-> wave[i][1], level |-> wave[i][2],
                                         frozen |-> graph.top, layers |-> y]]
      BY <2>3 DEF DescendForPlan
    <3>2. i \in DOMAIN wave
      BY <2>3 DEF Safe, Slots, Busy, DescendForPlan
    <3>3. wave[i][2] \in Nat
      BY <3>2, <1>0, BulkAssumption
    <3> HIDE DEF i, y
    <3>4. Slotted(plans', wave)
      BY <1>0, <3>1, <3>3, SlottedPut
    <3> QED  BY <1>0, <2>1, <3>4
  <2>4. CASE PlanLayer(t)
    <3> DEFINE i == local[t].slot
               l == local[t].layer
               hits == SearchLayer(graph, wave[i][1], BuildEf, local[t].entries, {}, l)
    <3>1. plans' = [plans EXCEPT ![i].layers[l] = hits]
      BY <2>4 DEF PlanLayer
    <3>2. i \in DOMAIN wave
      BY <2>4 DEF Safe, Slots, Busy, PlanLayer
    <3> HIDE DEF i, l, hits
    <3>3. plans[i].level \in Nat
      BY <1>0, <3>2 DEF Slotted
    <3>a. Slotted(plans, wave)
      BY <1>0
    <3>4. plans' = [plans EXCEPT ![i] =
                      [at |-> plans[i].at, level |-> plans[i].level, frozen |-> plans[i].frozen,
                       layers |-> [plans[i].layers EXCEPT ![l] = hits]]]
      <4> DEFINE r == [at |-> plans[i].at, level |-> plans[i].level,
                       frozen |-> plans[i].frozen, layers |-> plans[i].layers]
      <4>1. plans[i] = r
        BY <3>2, <3>a DEF Slotted
      <4>2. [r EXCEPT !.layers[l] = hits]
              = [at |-> plans[i].at, level |-> plans[i].level, frozen |-> plans[i].frozen,
                 layers |-> [plans[i].layers EXCEPT ![l] = hits]]
        OBVIOUS
      <4> HIDE DEF r
      <4> QED  BY <3>1, <4>1, <4>2
    <3>5. Slotted(plans', wave)
      BY <1>0, <3>3, <3>4, SlottedPut
    <3> QED  BY <1>0, <2>1, <3>5
  <2> QED  BY <1>6, <2>2, <2>3, <2>4 DEF WorkerStep
<1>7. CASE UNCHANGED vars
  BY <1>0, <1>7 DEF vars
<1> QED  BY <1>1, <1>2, <1>3, <1>4, <1>5, <1>6, <1>7 DEF Next, CallerStep

LEMMA CountedStep == Safe /\ [Next]_vars => Counted'
<1> SUFFICES ASSUME Safe, [Next]_vars PROVE Counted'
  OBVIOUS
<1>0. Counted /\ Waves
  BY DEF Safe
<1>a. Len(rest) \in Nat /\ Len(wave) \in Nat /\ MaxRows \in Nat /\ linked \in Nat
  BY <1>0, BulkAssumption DEF Waves
<1>1. CASE Call
  <2>1. PICK points \in Seq(Points) :
          /\ Len(points) \in Nat \ {0} /\ drawn + Len(points) <= MaxRows
          /\ drawn = Len(graph.nodes) /\ drawn \in Nat
          /\ IF graph.entry = 0
             THEN /\ graph' = AddRow(graph, points[1], stream[drawn + 1])
                  /\ drawn' = drawn + 1
                  /\ rest' = Tail(points)
             ELSE rest' = points /\ graph' = graph /\ drawn' = drawn
    BY <1>1, CallIs
  <2>2. Len(Tail(points)) = Len(points) - 1
    BY <2>1
  <2>3. phase' = "wave" /\ stream' = stream
    BY <1>1 DEF Call
  <2>4. CASE graph.entry = 0
    <3>1. drawn + 1 \in 1 .. MaxRows
      BY <2>1, <1>a
    <3>2. stream[drawn + 1] \in Nat
      BY <1>0, <3>1, BulkAssumption DEF Counted
    <3> DEFINE level == stream[drawn + 1]
               g == AddRow(graph, points[1], level)
    <3>3. graph' = g
      BY <2>1, <2>4
    <3>4. Len(graph.nodes) \in Nat /\ (graph.entry # 0 => graph.top \in Nat)
      BY <1>0 DEF Counted
    <3>5. Len(g.nodes) = Len(graph.nodes) + 1 /\ g.entry # 0 /\ g.top \in Nat
      <4>1. level \in Nat
        BY <3>2
      <4> HIDE DEF level
      <4> QED  BY <3>4, <4>1, AddRowShape
    <3> HIDE DEF g
    <3>6. Len(graph'.nodes) = Len(graph.nodes) + 1 /\ graph'.entry # 0 /\ graph'.top \in Nat
      BY <3>3, <3>5
    <3>7. /\ drawn' = Len(graph'.nodes) /\ drawn' + Len(rest') <= MaxRows
          /\ Len(graph'.nodes) \in Nat
      BY <1>a, <2>1, <2>2, <2>4, <3>4, <3>6
    <3>8. stream' \in [1 .. MaxRows -> 0 .. MaxLevel]
      BY <1>0, <2>3 DEF Counted
    <3> QED  BY <2>3, <3>6, <3>7, <3>8 DEF Counted, Pending
  <2>5. CASE graph.entry # 0
    BY <1>0, <2>1, <2>3, <2>5 DEF Counted, Pending
  <2> QED  BY <2>4, <2>5
<1>2. CASE StartWave
  <2> DEFINE n == Lower(Wave, Len(rest))
  <2>1. n \in 1 .. Len(rest) /\ Len(wave') = n /\ Len(rest') = Len(rest) - n
    BY <1>2, Started
  <2>2. /\ phase = "wave" /\ phase' = "work" /\ drawn' = drawn + n
        /\ stream' = stream /\ graph' = graph
    BY <1>2 DEF StartWave
  <2> HIDE DEF n
  <2> QED  BY <1>0, <1>a, <2>1, <2>2 DEF Counted, Pending
<1>3. CASE Join
  <2>1. /\ phase = "work" /\ phase' = "link"
        /\ UNCHANGED <<graph, stream, drawn, rest, wave, linked>>
    BY <1>3 DEF Join
  <2>2. linked = 0
    BY <1>0, <2>1 DEF Waves
  <2>3. Pending' = Pending
    BY <1>a, <2>1, <2>2 DEF Pending
  <2> QED  BY <1>0, <2>1, <2>3 DEF Counted
<1>4. CASE LinkNext
  <2>1. linked < Len(wave) /\ linked + 1 \in DOMAIN wave
    BY <1>0, <1>4, <1>a DEF LinkNext, Waves
  <2> DEFINE plan == plans[linked + 1]
             g == LinkRow(graph, plan)
  <2>2. plan.level \in Nat
    BY <1>0, <2>1 DEF Waves, Slotted
  <2>3. /\ Len(graph.nodes) \in Nat /\ (graph.entry # 0 => graph.top \in Nat)
        /\ drawn = Len(graph.nodes) + (Len(wave) - linked)
        /\ drawn + Len(rest) <= MaxRows /\ stream \in [1 .. MaxRows -> 0 .. MaxLevel]
    BY <1>0, <1>4 DEF LinkNext, Counted, Pending
  <2>4. /\ graph' = g /\ linked' = linked + 1 /\ phase = "link"
        /\ phase' = IF linked + 1 = Len(wave) THEN "wave" ELSE "link"
        /\ UNCHANGED <<stream, drawn, wave, rest>>
    BY <1>4 DEF LinkNext
  <2>5. Len(g.nodes) = Len(graph.nodes) + 1 /\ g.entry # 0 /\ g.top \in Nat
    <3> HIDE DEF plan
    <3> QED  BY <2>2, <2>3, LinkRowShape
  <2> HIDE DEF g
  <2>6. Pending' = Len(wave) - (linked + 1)
    <3>1. CASE linked + 1 = Len(wave)
      BY <1>a, <2>4, <3>1 DEF Pending
    <3>2. CASE linked + 1 # Len(wave)
      BY <1>a, <2>4, <3>2 DEF Pending
    <3> QED  BY <3>1, <3>2
  <2>7. drawn' = Len(graph'.nodes) + Pending' /\ Len(graph'.nodes) \in Nat
    BY <1>a, <2>3, <2>4, <2>5, <2>6
  <2> QED  BY <2>3, <2>4, <2>5, <2>7 DEF Counted
<1>5. CASE FinishCall
  <2>1. /\ phase = "wave" /\ phase' = "idle"
        /\ UNCHANGED <<graph, stream, drawn, rest>>
    BY <1>5 DEF FinishCall
  <2>2. Pending' = Pending
    BY <2>1 DEF Pending
  <2> QED  BY <1>0, <2>1, <2>2 DEF Counted
<1>6. ASSUME NEW t \in Workers, WorkerStep(t)
      PROVE  Counted'
  <2>1. UNCHANGED <<graph, stream, drawn, phase, rest, wave, linked>>
    BY <1>6 DEF WorkerStep, Take, DescendForPlan, PlanLayer
  <2> QED  BY <1>0, <2>1 DEF Counted, Pending
<1>7. CASE UNCHANGED vars
  BY <1>0, <1>7 DEF vars, Counted, Pending
<1> QED  BY <1>1, <1>2, <1>3, <1>4, <1>5, <1>6, <1>7 DEF Next, CallerStep

LEMMA SlotsStep == Safe /\ [Next]_vars => Slots'
<1> SUFFICES ASSUME Safe, [Next]_vars PROVE Slots'
  OBVIOUS
<1>0. /\ Slots
      /\ phase \in {"idle", "wave", "work", "link"} /\ next \in Nat \ {0}
      /\ pc \in [Workers -> {"off", "take", "descend", "layer", "left"}]
      /\ Locals(local)
      /\ wave \in Seq(Points \X (0 .. MaxLevel))
  BY DEF Safe, Threads, Waves
<1>a. Len(wave) \in Nat /\ DOMAIN wave = 1 .. Len(wave) /\ Caller \in Workers
  BY <1>0 DEF Workers
<1> USE DEF Slots, Busy
<1>1. CASE Call
  <2>1. phase = "idle" /\ phase' = "wave" /\ UNCHANGED <<pc, next, wave, local>>
    BY <1>1 DEF Call
  <2>2. \A t \in Workers : pc[t] = "off"
    BY <1>0, <2>1
  <2> QED  BY <2>1, <2>2
<1>2. CASE StartWave
  <2>1. /\ phase' = "work" /\ pool' = pool
        /\ \A t \in Workers : pc'[t] \in {"take", "off"}
        /\ \A t \in Workers : t \notin pool \cup {Caller} => pc'[t] = "off"
        /\ pc'[Caller] = "take"
    BY <1>2, <1>a DEF StartWave
  <2> QED  BY <2>1
<1>3. CASE Join
  <2>1. /\ phase = "work" /\ phase' = "link" /\ UNCHANGED <<pc, next, wave, local, pool>>
        /\ pc[Caller] = "left" /\ \A t \in pool : pc[t] \in {"left", "off"}
    BY <1>3 DEF Join
  <2>2. \A t \in Workers : pc[t] \in {"left", "off"}
    BY <1>0, <2>1
  <2> QED  BY <1>0, <2>1, <2>2
<1>4. CASE LinkNext
  <2>1. /\ phase = "link" /\ phase' \in {"link", "wave"}
        /\ UNCHANGED <<pc, next, wave, local, pool>>
    BY <1>4 DEF LinkNext
  <2>2. \A t \in Workers : pc[t] \in {"left", "off"}
    BY <1>0, <2>1
  <2> QED  BY <1>0, <2>1, <2>2
<1>5. CASE FinishCall
  <2>1. phase' = "idle" /\ \A t \in Workers : pc'[t] = "off"
    BY <1>5 DEF FinishCall
  <2> QED  BY <2>1
<1>6. ASSUME NEW t \in Workers, Take(t)
      PROVE  Slots'
  <2>1. /\ pc[t] = "take" /\ UNCHANGED <<phase, wave, pool>> /\ next' = next + 1
        /\ pc' = [pc EXCEPT ![t] = IF next > Len(wave) THEN "left" ELSE "descend"]
        /\ local' = [local EXCEPT ![t] = [Idle EXCEPT !.slot = next]]
    BY <1>6 DEF Take
  <2>2. phase = "work" /\ t \in pool \cup {Caller}
    BY <1>0, <2>1
  <2>3. [Idle EXCEPT !.slot = next].slot = next
    BY DEF Idle
  <2>4. local'[t].slot = next /\ \A u \in Workers \ {t} : local'[u] = local[u]
    BY <1>0, <2>1, <2>3 DEF Locals
  <2>5. /\ pc'[t] = IF next > Len(wave) THEN "left" ELSE "descend"
        /\ \A u \in Workers \ {t} : pc'[u] = pc[u]
    BY <1>0, <2>1
  <2>6. pc'[t] \in Busy => next \in DOMAIN wave
    BY <1>0, <1>a, <2>5
  <2>7. \A u \in Workers \ {t} : pc'[u] \in Busy =>
           /\ local'[u].slot \in DOMAIN wave /\ local'[u].slot < next + 1
           /\ local'[u].slot # next
    BY <1>0, <1>a, <2>4, <2>5
  <2>8. \A u \in Workers \ {t}, v \in Workers \ {t} : u # v /\ pc'[u] \in Busy /\ pc'[v] \in Busy
           => local'[u].slot # local'[v].slot
    BY <1>0, <2>4, <2>5
  <2>9. \A u \in Workers : pc'[u] = "left" => next + 1 > Len(wave)
    <3> TAKE u \in Workers
    <3>1. CASE u = t
      BY <1>0, <1>a, <2>5, <3>1
    <3>2. CASE u # t
      BY <1>0, <1>a, <2>2, <2>5, <3>2
    <3> QED  BY <3>1, <3>2
  <2>10. \A u \in Workers :
           /\ pc'[u] = "off" => u # Caller
           /\ u \notin pool \cup {Caller} => pc'[u] = "off"
    <3> TAKE u \in Workers
    <3>1. CASE u = t
      BY <2>2, <2>5, <3>1
    <3>2. CASE u # t
      BY <1>0, <2>2, <2>5, <3>2
    <3> QED  BY <3>1, <3>2
  <2>11. \A u \in Workers : pc'[u] \in Busy =>
           /\ local'[u].slot \in DOMAIN wave /\ local'[u].slot < next + 1
           /\ \A v \in Workers \ {u} :
                pc'[v] \in Busy => local'[v].slot # local'[u].slot
    BY <1>0, <2>4, <2>6, <2>7, <2>8
  <2>12. \A u \in Workers : pc'[u] \in {"off", "take", "descend", "layer", "left"}
    BY <1>0, <2>5
  <2>13. phase' = "work" /\ wave' = wave /\ pool' = pool
    BY <2>1, <2>2
  <2>14. \A u \in Workers : pc'[u] \in Busy =>
           /\ local'[u].slot \in DOMAIN wave' /\ local'[u].slot < next'
           /\ \A v \in Workers \ {u} :
                pc'[v] \in Busy => local'[v].slot # local'[u].slot
    BY <2>1, <2>11, <2>13
  <2>15. \A u \in Workers : pc'[u] = "left" => next' > Len(wave')
    BY <2>1, <2>9, <2>13
  <2> QED  BY <2>10, <2>13, <2>14, <2>15
<1>7. ASSUME NEW t \in Workers, DescendForPlan(t) \/ PlanLayer(t)
      PROVE  Slots'
  <2>1. UNCHANGED <<phase, wave, pool, next>> /\ pc[t] \in Busy
    BY <1>7 DEF DescendForPlan, PlanLayer
  <2>2. /\ pc'[t] \in {"take", "layer"}
        /\ \A u \in Workers \ {t} : pc'[u] = pc[u]
    BY <1>0, <1>7 DEF DescendForPlan, PlanLayer
  <2>3. \A u \in Workers : local'[u].slot = local[u].slot
    <3>1. CASE DescendForPlan(t)
      <4> DEFINE r == [slot |-> local[t].slot,
                       layer |-> Lower(wave[local[t].slot][2], graph.top),
                       entries |-> <<Descend(graph, wave[local[t].slot][1],
                                             wave[local[t].slot][2] + 1)>>]
      <4>1. local' = [local EXCEPT ![t] = r]
        BY <3>1 DEF DescendForPlan
      <4>2. r.slot = local[t].slot
        OBVIOUS
      <4> HIDE DEF r
      <4> QED  BY <1>0, <4>1, <4>2 DEF Locals
    <3>2. CASE PlanLayer(t)
      <4> DEFINE e == Onward(graph, SearchLayer(graph, wave[local[t].slot][1], BuildEf,
                                                local[t].entries, {}, local[t].layer))
                 r == [slot |-> local[t].slot, layer |-> local[t].layer - 1, entries |-> e]
      <4>1. local' = [local EXCEPT ![t] = r]
        BY <3>2 DEF PlanLayer
      <4>2. r.slot = local[t].slot
        OBVIOUS
      <4> HIDE DEF r
      <4> QED  BY <1>0, <4>1, <4>2 DEF Locals
    <3> QED  BY <1>7, <3>1, <3>2
  <2>4. phase = "work" /\ t \in pool \cup {Caller}
    BY <1>0, <2>1
  <2>5. \A u \in Workers : pc'[u] \in Busy => pc[u] \in Busy
    BY <2>1, <2>2
  <2>6. \A u \in Workers : pc'[u] \in {"left", "off"} <=> pc[u] \in {"left", "off"}
    BY <2>1, <2>2
  <2>7. \A u \in Workers : pc'[u] = pc[u] \/ u = t
    BY <2>2
  <2> QED  BY <1>0, <2>1, <2>2, <2>3, <2>4, <2>5, <2>6, <2>7
<1>8. CASE UNCHANGED vars
  BY <1>0, <1>8 DEF vars
<1> QED  BY <1>1, <1>2, <1>3, <1>4, <1>5, <1>6, <1>7, <1>8
         DEF Next, CallerStep, WorkerStep

LEMMA SafeStep == Safe /\ [Next]_vars => Safe'
BY ThreadsStep, WavesStep, CountedStep, SlotsStep DEF Safe

THEOREM BulkTypes == Spec => []TypeOK
<1>1. Safe => TypeOK
  BY SafeImplies
<1> QED  BY SafeInit, SafeStep, <1>1, PTL DEF Spec

\* Two planners never fill one slot, and none is at work once linking starts.
THEOREM SlotsAreOwned == Spec => []OwnSlot
<1>1. Safe => OwnSlot
  BY SafeImplies
<1> QED  BY SafeInit, SafeStep, <1>1, PTL DEF Spec

-----------------------------------------------------------------------------
(* Plans.  A plan in the making has the layers above the one that is next. *)

InTheMaking(g, row, plan, work) ==
  LET high == High(g, row[2])
      hits == Hits(g, row[1], row[2])
  IN  /\ work.layer \in 0 .. high
      /\ work.entries = Entries(g, row[1], row[2], hits, work.layer)
      /\ plan = [at |-> row[1], level |-> row[2], frozen |-> g.top,
                 layers |-> [l \in 0 .. row[2] |->
                               IF work.layer < l /\ l <= high THEN hits[l] ELSE <<>>]]

Finished(g, row, plan) == plan = PlanRow(g, row[1], row[2])

LEMMA HighIs ==
  ASSUME NEW g, NEW level \in Nat, g.top \in Nat
  PROVE  High(g, level) \in Nat /\ High(g, level) <= level
BY DEF High, Lower

\* A plan once the greedy descent is done.
LEMMA PlanBegins ==
  ASSUME NEW g, NEW row, row[2] \in Nat, g.top \in Nat, NEW slot
  PROVE  InTheMaking(g, row,
           [at |-> row[1], level |-> row[2], frozen |-> g.top,
            layers |-> [l \in 0 .. row[2] |-> <<>>]],
           [slot |-> slot, layer |-> Lower(row[2], g.top),
            entries |-> <<Descend(g, row[1], row[2] + 1)>>])
<1> DEFINE high == High(g, row[2])
           hits == Hits(g, row[1], row[2])
           work == [slot |-> slot, layer |-> Lower(row[2], g.top),
                    entries |-> <<Descend(g, row[1], row[2] + 1)>>]
<1>1. high \in Nat
  BY HighIs
<1>2. work.layer = high /\ work.entries = Entries(g, row[1], row[2], hits, high)
  BY DEF High, Entries
<1>3. [l \in 0 .. row[2] |-> <<>>]
        = [l \in 0 .. row[2] |-> IF high < l /\ l <= high THEN hits[l] ELSE <<>>]
  <2> HIDE DEF high, hits
  <2> QED  BY <1>1
<1> HIDE DEF work
<1> QED  BY <1>1, <1>2, <1>3 DEF InTheMaking, work

\* A plan once one more layer is searched.
LEMMA PlanGoesOn ==
  ASSUME NEW g, NEW row, row[2] \in Nat, g.top \in Nat, g.entry # 0,
         NEW plan, NEW work, InTheMaking(g, row, plan, work), NEW slot
  PROVE  LET l    == work.layer
             hits == SearchLayer(g, row[1], BuildEf, work.entries, {}, l)
             then == [at |-> plan.at, level |-> plan.level, frozen |-> plan.frozen,
                      layers |-> [plan.layers EXCEPT ![l] = hits]]
         IN  IF l = 0
             THEN Finished(g, row, then)
             ELSE InTheMaking(g, row, then,
                              [slot |-> slot, layer |-> l - 1, entries |-> Onward(g, hits)])
<1> DEFINE l == work.layer
           hits == SearchLayer(g, row[1], BuildEf, work.entries, {}, l)
           layers == [plan.layers EXCEPT ![l] = hits]
           then == [at |-> plan.at, level |-> plan.level, frozen |-> plan.frozen,
                    layers |-> layers]
           high == High(g, row[2])
           all == Hits(g, row[1], row[2])
<1>1. high \in Nat /\ high <= row[2]
  BY HighIs
<1>2. /\ l \in 0 .. high /\ work.entries = Entries(g, row[1], row[2], all, l)
      /\ plan = [at |-> row[1], level |-> row[2], frozen |-> g.top,
                 layers |-> [k \in 0 .. row[2] |->
                               IF l < k /\ k <= high THEN all[k] ELSE <<>>]]
  BY DEF InTheMaking
<1>3. hits = all[l]
  BY <1>1, <1>2, HitsAre
<1>4. plan.layers = [k \in 0 .. row[2] |-> IF l < k /\ k <= high THEN all[k] ELSE <<>>]
  BY <1>2
<1> HIDE DEF high, all, hits
<1>5. layers = [k \in 0 .. row[2] |-> IF l <= k /\ k <= high THEN all[k] ELSE <<>>]
  <2> HIDE DEF l
  <2>1. l \in 0 .. row[2] /\ l <= high
    BY <1>1, <1>2
  <2>2. layers = [k \in 0 .. row[2] |->
                    IF k = l THEN hits ELSE IF l < k /\ k <= high THEN all[k] ELSE <<>>]
    BY <1>4, <2>1
  <2>3. \A k \in 0 .. row[2] :
          (IF k = l THEN hits ELSE IF l < k /\ k <= high THEN all[k] ELSE <<>>)
            = IF l <= k /\ k <= high THEN all[k] ELSE <<>>
    BY <1>1, <1>3, <2>1
  <2> HIDE DEF layers
  <2> QED  BY <2>2, <2>3
<1>6. then = [at |-> row[1], level |-> row[2], frozen |-> g.top, layers |-> layers]
  <2> HIDE DEF layers
  <2> QED  BY <1>2
<1> HIDE DEF layers, then
<1>7. CASE l = 0
  <2>1. layers = [k \in 0 .. row[2] |-> IF g.entry # 0 /\ k <= high THEN all[k] ELSE <<>>]
    <3>1. \A k \in 0 .. row[2] :
            (IF l <= k /\ k <= high THEN all[k] ELSE <<>>)
              = IF g.entry # 0 /\ k <= high THEN all[k] ELSE <<>>
      BY <1>7
    <3> QED  BY <1>5, <3>1
  <2>2. then = PlanRow(g, row[1], row[2])
    BY <1>6, <2>1, PlanIs DEF high, all
  <2> QED  BY <1>7, <2>2 DEF Finished, then, layers, hits
<1>8. CASE l # 0
  <2> DEFINE next1 == [slot |-> slot, layer |-> l - 1, entries |-> Onward(g, hits)]
  <2>1. next1.layer = l - 1 /\ next1.entries = Onward(g, hits)
    OBVIOUS
  <2>2. l \in Int /\ l - 1 \in 0 .. high /\ l - 1 # high /\ l - 1 + 1 = l
    BY <1>1, <1>2, <1>8
  <2>3. next1.entries = Entries(g, row[1], row[2], all, next1.layer)
    BY <1>3, <2>1, <2>2 DEF Entries, high
  <2>4. layers = [k \in 0 .. row[2] |->
                    IF next1.layer < k /\ k <= high THEN all[k] ELSE <<>>]
    <3>1. \A k \in 0 .. row[2] : l <= k <=> l - 1 < k
      BY <2>2
    <3> QED  BY <1>5, <2>1, <3>1
  <2> HIDE DEF next1
  <2>5. InTheMaking(g, row, then, next1)
    BY <1>6, <2>1, <2>2, <2>3, <2>4 DEF InTheMaking, high, all
  <2> QED  BY <1>8, <2>5 DEF then, layers, hits, next1
<1> QED  BY <1>7, <1>8

\* While a wave is planned: slots not taken yet, slots being filled, and plans.
Planned ==
  phase = "work" =>
    /\ \A i \in 1 .. Len(wave) :
         \/ i >= next
         \/ \E t \in Workers : pc[t] \in Busy /\ local[t].slot = i
         \/ Finished(graph, wave[i], plans[i])
    /\ \A t \in Workers :
         pc[t] = "layer" =>
           InTheMaking(graph, wave[local[t].slot], plans[local[t].slot], local[t])

LEMMA PlannedStep == Safe /\ Planned /\ [Next]_vars => Planned'
<1> SUFFICES ASSUME Safe, Planned, [Next]_vars PROVE Planned'
  OBVIOUS
<1>0. /\ next \in Nat \ {0}
      /\ pc \in [Workers -> {"off", "take", "descend", "layer", "left"}]
      /\ local = [t \in Workers |-> local[t]]
      /\ wave \in Seq(Points \X (0 .. MaxLevel))
      /\ Slotted(plans, wave)
  BY DEF Safe, Threads, Waves, Locals
<1>a. Len(wave) \in Nat /\ DOMAIN wave = 1 .. Len(wave)
  BY <1>0
<1>b. \A i \in 1 .. Len(wave) : wave[i][2] \in Nat
  BY <1>0, <1>a, BulkAssumption
<1>c. Slots /\ Counted
  BY DEF Safe
<1>1. CASE Call \/ Join \/ LinkNext \/ FinishCall
  <2>1. phase' # "work"
    BY <1>1 DEF Call, Join, LinkNext, FinishCall
  <2> QED  BY <2>1 DEF Planned
<1>2. CASE StartWave
  <2>1. next' = 1 /\ \A t \in Workers : pc'[t] \in {"take", "off"}
    BY <1>2 DEF StartWave
  <2>2. \A i \in 1 .. Len(wave') : i >= next'
    <3>1. Len(wave') \in Nat
      BY <1>2, Started
    <3> QED  BY <2>1, <3>1
  <2> QED  BY <2>1, <2>2 DEF Planned
<1>3. ASSUME NEW t \in Workers, Take(t)
      PROVE  Planned'
  <2>1. /\ pc[t] = "take" /\ UNCHANGED <<phase, wave, plans, graph>> /\ next' = next + 1
        /\ pc' = [pc EXCEPT ![t] = IF next > Len(wave) THEN "left" ELSE "descend"]
        /\ local' = [local EXCEPT ![t] = [Idle EXCEPT !.slot = next]]
    BY <1>3 DEF Take
  <2>2. phase = "work"
    BY <1>c, <2>1 DEF Slots
  <2>3. [Idle EXCEPT !.slot = next].slot = next
    BY DEF Idle
  <2>4. local'[t].slot = next /\ \A u \in Workers \ {t} : local'[u] = local[u]
    BY <1>0, <2>1, <2>3
  <2>5. /\ pc'[t] = IF next > Len(wave) THEN "left" ELSE "descend"
        /\ \A u \in Workers \ {t} : pc'[u] = pc[u]
    BY <1>0, <2>1
  <2>6. ASSUME NEW i \in 1 .. Len(wave), ~(i >= next + 1)
        PROVE  \/ \E u \in Workers : pc'[u] \in Busy /\ local'[u].slot = i
               \/ Finished(graph, wave[i], plans[i])
    <3>1. CASE i = next
      <4>1. pc'[t] \in Busy
        BY <1>0, <1>a, <2>5, <3>1 DEF Busy
      <4> QED  BY <4>1, <3>1, <2>4
    <3>2. CASE i # next
      <4>1. \/ \E u \in Workers : pc[u] \in Busy /\ local[u].slot = i
            \/ Finished(graph, wave[i], plans[i])
        <5>1. ~(i >= next)
          BY <1>0, <2>6, <3>2
        <5> QED  BY <2>2, <5>1 DEF Planned
      <4>2. pc[t] \notin Busy
        BY <2>1 DEF Busy
      <4> QED  BY <4>1, <4>2, <2>4, <2>5
    <3> QED  BY <3>1, <3>2
  <2>7. ASSUME NEW u \in Workers, pc'[u] = "layer"
        PROVE  InTheMaking(graph, wave[local'[u].slot], plans[local'[u].slot], local'[u])
    <3>1. u # t
      BY <2>5, <2>7
    <3> QED  BY <3>1, <2>2, <2>4, <2>5, <2>7 DEF Planned
  <2> QED  BY <2>1, <2>6, <2>7 DEF Planned
<1>4. ASSUME NEW t \in Workers, DescendForPlan(t)
      PROVE  Planned'
  <2> DEFINE i == local[t].slot
             row == wave[i]
             plan == [at |-> row[1], level |-> row[2], frozen |-> graph.top,
                      layers |-> [l \in 0 .. row[2] |-> <<>>]]
             work == [slot |-> i, layer |-> Lower(row[2], graph.top),
                      entries |-> <<Descend(graph, row[1], row[2] + 1)>>]
  <2>1. /\ pc[t] = "descend" /\ UNCHANGED <<phase, wave, graph, next>>
        /\ pc' = [pc EXCEPT ![t] = "layer"]
        /\ plans' = [plans EXCEPT ![i] = plan]
        /\ local' = [local EXCEPT ![t] = work]
    BY <1>4 DEF DescendForPlan
  <2>2. /\ phase = "work" /\ i \in 1 .. Len(wave)
        /\ \A u \in Workers \ {t} : pc[u] \in Busy => local[u].slot # i
    BY <1>c, <1>a, <2>1 DEF Slots, Busy
  <2>3. graph.top \in Nat /\ row[2] \in Nat
    BY <1>c, <1>b, <2>2 DEF Counted
  <2>4. InTheMaking(graph, row, plan, work)
    <3> HIDE DEF row, i
    <3> QED  BY <2>3, PlanBegins
  <2>5. work.slot = i
    OBVIOUS
  <2> HIDE DEF i, row, plan, work
  <2>6. local'[t] = work /\ \A u \in Workers \ {t} : local'[u] = local[u]
    BY <1>0, <2>1
  <2>7. pc'[t] = "layer" /\ \A u \in Workers \ {t} : pc'[u] = pc[u]
    BY <1>0, <2>1
  <2>8. plans'[i] = plan /\ \A j \in 1 .. Len(wave) : j # i => plans'[j] = plans[j]
    BY <1>0, <1>a, <2>1, <2>2 DEF Slotted
  <2>9. ASSUME NEW j \in 1 .. Len(wave), ~(j >= next)
        PROVE  \/ \E u \in Workers : pc'[u] \in Busy /\ local'[u].slot = j
               \/ Finished(graph, wave[j], plans'[j])
    <3>1. CASE j = i
      BY <3>1, <2>5, <2>6, <2>7 DEF Busy
    <3>2. CASE j # i
      <4>1. \/ \E u \in Workers : pc[u] \in Busy /\ local[u].slot = j
            \/ Finished(graph, wave[j], plans[j])
        BY <2>2, <2>9 DEF Planned
      <4>2. local[t].slot # j
        BY <3>2 DEF i
      <4> QED  BY <4>1, <4>2, <2>6, <2>7, <2>8, <3>2
    <3> QED  BY <3>1, <3>2
  <2>10. ASSUME NEW u \in Workers, pc'[u] = "layer"
         PROVE  InTheMaking(graph, wave[local'[u].slot], plans'[local'[u].slot], local'[u])
    <3>1. CASE u = t
      BY <3>1, <2>4, <2>5, <2>6, <2>8 DEF row
    <3>2. CASE u # t
      <4>1. pc[u] = "layer" /\ local'[u] = local[u] /\ local[u].slot # i
        BY <2>2, <2>6, <2>7, <2>10, <3>2 DEF Busy
      <4>2. local[u].slot \in 1 .. Len(wave)
        BY <4>1, <1>c, <1>a DEF Slots, Busy
      <4> QED  BY <4>1, <4>2, <2>2, <2>8 DEF Planned
    <3> QED  BY <3>1, <3>2
  <2> QED  BY <2>1, <2>9, <2>10 DEF Planned
<1>5. ASSUME NEW t \in Workers, PlanLayer(t)
      PROVE  Planned'
  <2> DEFINE i == local[t].slot
             row == wave[i]
             l == local[t].layer
             hits == SearchLayer(graph, row[1], BuildEf, local[t].entries, {}, l)
             plan == [at |-> plans[i].at, level |-> plans[i].level,
                      frozen |-> plans[i].frozen,
                      layers |-> [plans[i].layers EXCEPT ![l] = hits]]
             work == [slot |-> i, layer |-> l - 1, entries |-> Onward(graph, hits)]
  <2>1. /\ pc[t] = "layer" /\ UNCHANGED <<phase, wave, graph, next>>
        /\ pc' = [pc EXCEPT ![t] = IF l = 0 THEN "take" ELSE "layer"]
        /\ plans' = [plans EXCEPT ![i].layers[l] = hits]
        /\ local' = [local EXCEPT ![t] = work]
    BY <1>5 DEF PlanLayer
  <2>2. /\ phase = "work" /\ i \in 1 .. Len(wave)
        /\ \A u \in Workers \ {t} : pc[u] \in Busy => local[u].slot # i
    BY <1>c, <1>a, <2>1 DEF Slots, Busy
  <2>3. graph.entry # 0 /\ graph.top \in Nat /\ row[2] \in Nat
    BY <1>c, <1>b, <2>2 DEF Counted
  <2>4. InTheMaking(graph, row, plans[i], local[t])
    BY <2>1, <2>2 DEF Planned
  <2>5. IF l = 0 THEN Finished(graph, row, plan) ELSE InTheMaking(graph, row, plan, work)
    <3> HIDE DEF row, i
    <3> QED  BY <2>3, <2>4, PlanGoesOn
  <2>6. work.slot = i
    OBVIOUS
  <2>7. plans' = [plans EXCEPT ![i] = plan]
    <3> DEFINE r == [at |-> plans[i].at, level |-> plans[i].level,
                     frozen |-> plans[i].frozen, layers |-> plans[i].layers]
    <3>1. plans[i] = r
      BY <1>0, <1>a, <2>2 DEF Slotted
    <3>2. [r EXCEPT !.layers[l] = hits] = plan
      <4> HIDE DEF hits, l
      <4> QED  OBVIOUS
    <3> HIDE DEF r, hits, l, plan
    <3> QED  BY <2>1, <3>1, <3>2
  <2> HIDE DEF i, row, plan, work, l, hits
  <2>8. local'[t] = work /\ \A u \in Workers \ {t} : local'[u] = local[u]
    BY <1>0, <2>1
  <2>9. /\ pc'[t] = IF l = 0 THEN "take" ELSE "layer"
        /\ \A u \in Workers \ {t} : pc'[u] = pc[u]
    BY <1>0, <2>1
  <2>10. plans'[i] = plan /\ \A j \in 1 .. Len(wave) : j # i => plans'[j] = plans[j]
    BY <1>0, <1>a, <2>2, <2>7 DEF Slotted
  <2>11. ASSUME NEW j \in 1 .. Len(wave), ~(j >= next)
         PROVE  \/ \E u \in Workers : pc'[u] \in Busy /\ local'[u].slot = j
                \/ Finished(graph, wave[j], plans'[j])
    <3>1. CASE j = i /\ l = 0
      BY <3>1, <2>5, <2>10 DEF row
    <3>2. CASE j = i /\ l # 0
      BY <3>2, <2>6, <2>8, <2>9 DEF Busy
    <3>3. CASE j # i
      <4>1. \/ \E u \in Workers : pc[u] \in Busy /\ local[u].slot = j
            \/ Finished(graph, wave[j], plans[j])
        BY <2>2, <2>11 DEF Planned
      <4>2. local[t].slot # j
        BY <3>3 DEF i
      <4> QED  BY <4>1, <4>2, <2>8, <2>9, <2>10, <3>3
    <3> QED  BY <3>1, <3>2, <3>3
  <2>12. ASSUME NEW u \in Workers, pc'[u] = "layer"
         PROVE  InTheMaking(graph, wave[local'[u].slot], plans'[local'[u].slot], local'[u])
    <3>1. CASE u = t
      BY <3>1, <2>5, <2>6, <2>8, <2>9, <2>10, <2>12 DEF row
    <3>2. CASE u # t
      <4>1. pc[u] = "layer" /\ local'[u] = local[u] /\ local[u].slot # i
        BY <2>2, <2>8, <2>9, <2>12, <3>2 DEF Busy
      <4>2. local[u].slot \in 1 .. Len(wave)
        BY <4>1, <1>c, <1>a DEF Slots, Busy
      <4> QED  BY <4>1, <4>2, <2>2, <2>10 DEF Planned
    <3> QED  BY <3>1, <3>2
  <2> QED  BY <2>1, <2>11, <2>12 DEF Planned
<1>6. CASE UNCHANGED vars
  BY <1>6 DEF vars, Planned
<1> QED  BY <1>1, <1>2, <1>3, <1>4, <1>5, <1>6 DEF Next, CallerStep, WorkerStep

-----------------------------------------------------------------------------
(* The call: how far it is in what it would build alone.                   *)

Builds == Built(called.graph, called.batch)

\* Rows of the call that were linked before the present wave.
Start == Len(called.batch) - Len(rest)
         - (IF phase \in {"work", "link"} THEN Len(wave) ELSE 0)

\* The next row starts a wave.
Fresh(build) == build.count = Wave \/ build.frozen.entry = 0

\* What the call has not linked yet.
Remaining ==
  /\ called.batch \in Seq(Points \X (0 .. MaxLevel))
  /\ Start \in Nat
  /\ \A j \in 1 .. Len(rest) :
       called.batch[Len(called.batch) - Len(rest) + j] = <<rest[j], stream[drawn + j]>>
  /\ phase \in {"work", "link"} =>
       \A i \in 1 .. Len(wave) : called.batch[Start + i] = wave[i]

Progress ==
  /\ phase = "wave" => graph = Builds[Start].graph /\ (rest # <<>> => Fresh(Builds[Start]))
  /\ phase = "work" => graph = Builds[Start].graph /\ Fresh(Builds[Start])
  /\ phase = "link" =>
       /\ graph = Builds[Start + linked].graph
       /\ IF linked = 0
          THEN Fresh(Builds[Start])
          ELSE /\ Builds[Start + linked].frozen = Builds[Start].graph
               /\ Builds[Start + linked].count = linked
       /\ Builds[Start].graph.entry # 0
       /\ \A i \in 1 .. Len(wave) : Finished(Builds[Start].graph, wave[i], plans[i])

OnCourse == phase # "idle" => Remaining /\ Progress

LEMMA BuildGoesOn ==
  ASSUME NEW g, NEW batch, Len(batch) \in Nat, NEW i \in 1 .. Len(batch)
  PROVE  LET b == Built(g, batch)[i - 1]
             c == Built(g, batch)[i]
             frozen == IF Fresh(b) THEN b.graph ELSE b.frozen
         IN  /\ c.graph = LinkRow(b.graph, PlanRow(frozen, batch[i][1], batch[i][2]))
             /\ c.frozen = frozen
             /\ c.count = IF Fresh(b) THEN 1 ELSE b.count + 1
<1> DEFINE b == Built(g, batch)[i - 1]
           c == Built(g, batch)[i]
<1>1. c = AddToWave(b, batch[i], Wave)
  BY BuiltIs
<1> HIDE DEF b, c
<1>2. LET frozen == IF Fresh(b) THEN b.graph ELSE b.frozen
      IN  c = [graph  |-> LinkRow(b.graph, PlanRow(frozen, batch[i][1], batch[i][2])),
               frozen |-> frozen,
               count  |-> IF Fresh(b) THEN 1 ELSE b.count + 1]
  BY <1>1 DEF AddToWave, Fresh
<1> QED  BY <1>2 DEF b, c

LEMMA OnCourseCall ==
  ASSUME Safe, Call
  PROVE  OnCourse'
<1>1. PICK points \in Seq(Points) :
        /\ Len(points) \in Nat \ {0} /\ drawn + Len(points) <= MaxRows
        /\ drawn = Len(graph.nodes) /\ drawn \in Nat
        /\ called' = [graph |-> graph, batch |-> Draw(points)]
        /\ IF graph.entry = 0
           THEN /\ graph' = AddRow(graph, points[1], stream[drawn + 1])
                /\ drawn' = drawn + 1
                /\ rest' = Tail(points)
           ELSE rest' = points /\ graph' = graph /\ drawn' = drawn
  BY CallIs
<1> DEFINE n == Len(points)
           batch == Draw(points)
           B == Built(graph, batch)
<1>2. /\ batch \in Seq(Points \X (0 .. MaxLevel)) /\ Len(batch) = n
      /\ \A i \in 1 .. n : batch[i] = <<points[i], stream[drawn + i]>>
  BY <1>1, DrawIs DEF Safe, Counted
<1>3. phase' = "wave" /\ stream' = stream /\ called'.graph = graph /\ called'.batch = batch
  BY <1>1 DEF Call
<1> HIDE DEF batch
<1>4. Builds' = B /\ Start' = n - Len(rest')
  BY <1>2, <1>3 DEF Builds, Start
<1>5. B[0].graph = graph /\ Fresh(B[0])
  <2>1. B[0] = [graph |-> graph, frozen |-> graph, count |-> Wave]
    BY <1>1, <1>2, BuiltIs
  <2> HIDE DEF B
  <2> QED  BY <2>1 DEF Fresh
<1>6. CASE graph.entry = 0
  <2>1. /\ rest' = Tail(points) /\ Len(rest') = n - 1 /\ drawn' = drawn + 1
        /\ \A j \in 1 .. n - 1 : rest'[j] = points[j + 1]
    <3>1. rest' = Tail(points) /\ drawn' = drawn + 1
      BY <1>1, <1>6
    <3>2. points # <<>>
      BY <1>1
    <3>3. Len(Tail(points)) = n - 1 /\ \A j \in 1 .. n - 1 : Tail(points)[j] = points[j + 1]
      BY <3>2
    <3> QED  BY <3>1, <3>3
  <2>2. Start' = 1 /\ n \in Nat /\ drawn \in Nat
    <3>1. n \in Nat /\ drawn \in Nat
      BY <1>1
    <3>2. Start' = n - Len(rest')
      BY <1>4
    <3> HIDE DEF n
    <3> QED  BY <2>1, <3>1, <3>2
  <2>3. B[1].graph = graph' /\ Fresh(B[1])
    <3>1. 1 \in 1 .. Len(batch) /\ 1 - 1 = 0 /\ Len(batch) \in Nat
      BY <1>1, <1>2
    <3>2. /\ B[1].graph = LinkRow(B[0].graph, PlanRow(B[0].graph, batch[1][1], batch[1][2]))
          /\ B[1].frozen = B[0].graph
      BY <3>1, <1>5, BuildGoesOn
    <3>3. batch[1][1] = points[1] /\ batch[1][2] = stream[drawn + 1]
      BY <3>1, <1>2
    <3> HIDE DEF B
    <3>4. graph' = LinkRow(graph, PlanRow(graph, points[1], stream[drawn + 1]))
      BY <1>1, <1>6 DEF AddRow
    <3> QED  BY <3>2, <3>3, <3>4, <1>5, <1>6 DEF Fresh
  <2> HIDE DEF B
  <2>4. Progress'
    BY <1>3, <1>4, <2>2, <2>3 DEF Progress
  <2>5. \A j \in 1 .. Len(rest') : batch[n - Len(rest') + j] = <<rest'[j], stream[drawn' + j]>>
    <3> TAKE j \in 1 .. Len(rest')
    <3> HIDE DEF n
    <3>1. Len(rest') = n - 1 /\ drawn' = drawn + 1
      BY <2>1
    <3>2. n \in Nat /\ drawn \in Nat /\ j \in 1 .. n - 1
      BY <2>2, <3>1
    <3>3. /\ j + 1 \in 1 .. n /\ n - Len(rest') + j = j + 1
          /\ drawn' + j = drawn + (j + 1)
      BY <3>1, <3>2
    <3> QED  BY <3>2, <3>3, <1>2, <2>1
  <2>6. Remaining'
    BY <1>2, <1>3, <2>2, <2>5 DEF Remaining
  <2> QED  BY <2>4, <2>6 DEF OnCourse
<1>7. CASE graph.entry # 0
  <2>1. rest' = points /\ graph' = graph /\ drawn' = drawn
    BY <1>1, <1>7
  <2>2. Start' = 0
    BY <1>1, <1>4, <2>1
  <2> HIDE DEF B
  <2>3. Progress'
    BY <1>3, <1>4, <1>5, <2>1, <2>2 DEF Progress
  <2>4. \A j \in 1 .. Len(rest') : batch[n - Len(rest') + j] = <<rest'[j], stream[drawn' + j]>>
    <3> TAKE j \in 1 .. Len(rest')
    <3>1. /\ j \in 1 .. n /\ n - Len(rest') + j = j /\ drawn' + j = drawn + j
      BY <1>1, <2>1
    <3> QED  BY <3>1, <1>2, <2>1
  <2>5. Remaining'
    BY <1>2, <1>3, <2>2, <2>4 DEF Remaining
  <2> QED  BY <2>3, <2>5 DEF OnCourse
<1> QED  BY <1>6, <1>7

LEMMA OnCourseStart ==
  ASSUME Safe, OnCourse, StartWave
  PROVE  OnCourse'
<1> DEFINE n == Lower(Wave, Len(rest))
           batch == called.batch
           m == Len(batch)
<1>1. /\ n \in 1 .. Len(rest)
      /\ wave' \in Seq(Points \X (0 .. MaxLevel)) /\ Len(wave') = n
      /\ \A i \in 1 .. n : wave'[i] = <<rest[i], stream[drawn + i]>>
      /\ rest' \in Seq(Points) /\ Len(rest') = Len(rest) - n
      /\ \A i \in 1 .. Len(rest) - n : rest'[i] = rest[n + i]
  BY Started
<1>2. /\ phase = "wave" /\ rest # <<>> /\ phase' = "work" /\ linked' = 0
      /\ UNCHANGED <<graph, stream, called>> /\ drawn' = drawn + n
  BY DEF StartWave
<1>3. /\ Len(rest) \in Nat /\ drawn \in Nat
  BY <1>2 DEF Safe, Waves, Counted, Pending
<1>4. /\ batch \in Seq(Points \X (0 .. MaxLevel)) /\ m - Len(rest) \in Nat
      /\ Start = m - Len(rest)
      /\ \A j \in 1 .. Len(rest) : batch[m - Len(rest) + j] = <<rest[j], stream[drawn + j]>>
  BY <1>2, <1>3 DEF OnCourse, Remaining, Start
<1>5. m \in Nat
  BY <1>4
<1> HIDE DEF n, m
<1>6. Start' = Start /\ Start \in Nat
  BY <1>1, <1>2, <1>3, <1>4, <1>5 DEF Start, m
<1>7. \A i \in 1 .. Len(wave') : batch[Start + i] = wave'[i]
  <2> TAKE i \in 1 .. Len(wave')
  <2>1. i \in 1 .. n /\ i \in 1 .. Len(rest)
    BY <1>1, <1>3
  <2> QED  BY <2>1, <1>1, <1>4
<1>8. \A j \in 1 .. Len(rest') : batch[m - Len(rest') + j] = <<rest'[j], stream[drawn' + j]>>
  <2> TAKE j \in 1 .. Len(rest')
  <2>1. /\ n + j \in 1 .. Len(rest) /\ m - Len(rest') + j = m - Len(rest) + (n + j)
        /\ drawn' + j = drawn + (n + j) /\ rest'[j] = rest[n + j]
    BY <1>1, <1>2, <1>3, <1>5
  <2> QED  BY <2>1, <1>4
<1>9. Remaining'
  BY <1>2, <1>4, <1>6, <1>7, <1>8 DEF Remaining, m
<1>10. Progress'
  BY <1>2, <1>6 DEF OnCourse, Progress, Builds
<1> QED  BY <1>9, <1>10 DEF OnCourse

LEMMA OnCourseJoin ==
  ASSUME Safe, OnCourse, Planned, Join
  PROVE  OnCourse'
<1>1. /\ phase = "work" /\ phase' = "link"
      /\ UNCHANGED <<graph, stream, drawn, rest, wave, plans, linked, called>>
      /\ pc[Caller] = "left" /\ \A t \in pool : pc[t] \in {"left", "off"}
  BY DEF Join
<1>2. Remaining'
  BY <1>1 DEF OnCourse, Remaining, Start
<1>3. \A t \in Workers : pc[t] \notin Busy
  BY <1>1 DEF Safe, Slots, Busy
<1>4. next > Len(wave) /\ next \in Nat /\ Len(wave) \in Nat
  <2>1. Caller \in Workers
    BY DEF Workers
  <2> QED  BY <1>1, <2>1 DEF Safe, Slots, Threads, Waves
<1>5. \A i \in 1 .. Len(wave) : Finished(graph, wave[i], plans[i])
  BY <1>1, <1>3, <1>4 DEF Planned
<1>6. linked = 0 /\ graph.entry # 0
  BY <1>1 DEF Safe, Waves, Counted
<1>7. graph = Builds[Start].graph /\ Fresh(Builds[Start]) /\ Start \in Nat
  BY <1>1 DEF OnCourse, Progress, Remaining
<1>8. Start' = Start /\ Builds' = Builds
  BY <1>1 DEF Start, Builds
<1>9. Start + linked = Start
  BY <1>6, <1>7
<1>10. Progress'
  BY <1>1, <1>5, <1>6, <1>7, <1>8, <1>9 DEF Progress
<1> QED  BY <1>2, <1>10 DEF OnCourse

LEMMA OnCourseLink ==
  ASSUME Safe, OnCourse, LinkNext
  PROVE  OnCourse'
<1> DEFINE g == called.graph
           batch == called.batch
           m == Len(batch)
           B == Built(g, batch)
           s == Start
           G == B[s].graph
           b == B[s + linked]
           c == B[s + linked + 1]
<1>1. /\ phase = "link" /\ graph' = LinkRow(graph, plans[linked + 1]) /\ linked' = linked + 1
      /\ phase' = (IF linked + 1 = Len(wave) THEN "wave" ELSE "link")
      /\ UNCHANGED <<stream, drawn, rest, wave, plans, called>>
  BY DEF LinkNext
<1>2. /\ Len(wave) \in Nat /\ Len(rest) \in Nat /\ linked \in Nat /\ linked < Len(wave)
      /\ Len(wave) <= Wave /\ (Len(wave) = Wave \/ rest = <<>>) /\ Wave \in Nat
  BY <1>1, BulkAssumption DEF Safe, Waves
<1>3. /\ batch \in Seq(Points \X (0 .. MaxLevel)) /\ m \in Nat /\ s \in Nat
      /\ s = m - Len(rest) - Len(wave)
      /\ \A j \in 1 .. Len(rest) : batch[m - Len(rest) + j] = <<rest[j], stream[drawn + j]>>
      /\ \A i \in 1 .. Len(wave) : batch[s + i] = wave[i]
  BY <1>1 DEF OnCourse, Remaining, Start
<1>4. /\ graph = b.graph /\ G.entry # 0
      /\ IF linked = 0 THEN Fresh(B[s]) ELSE b.frozen = G /\ b.count = linked
      /\ \A i \in 1 .. Len(wave) : Finished(G, wave[i], plans[i])
  BY <1>1 DEF OnCourse, Progress, Builds
<1> HIDE DEF m, B, s
<1>a. m \in Nat /\ s \in Nat /\ s = m - Len(rest) - Len(wave)
  BY <1>3
<1>5. /\ s + linked + 1 \in 1 .. m /\ s + linked + 1 - 1 = s + linked
      /\ linked + 1 \in 1 .. Len(wave) /\ s + (linked + 1) = s + linked + 1
  BY <1>2, <1>3
<1>6. (IF Fresh(b) THEN b.graph ELSE b.frozen) = G
  <2>1. CASE linked = 0
    <3>1. s + linked = s
      BY <2>1, <1>3
    <3> QED  BY <2>1, <3>1, <1>4
  <2>2. CASE linked # 0
    <3>1. b.frozen = G /\ b.count # Wave
      BY <2>2, <1>2, <1>4
    <3> QED  BY <3>1, <1>4 DEF Fresh
  <2> QED  BY <2>1, <2>2
<1>7. (IF Fresh(b) THEN 1 ELSE b.count + 1) = linked + 1
  <2>1. CASE linked = 0
    <3>1. s + linked = s
      BY <2>1, <1>3
    <3> QED  BY <2>1, <3>1, <1>4
  <2>2. CASE linked # 0
    <3>1. b.frozen = G /\ b.count # Wave /\ b.count = linked
      BY <2>2, <1>2, <1>4
    <3> QED  BY <3>1, <1>4 DEF Fresh
  <2> QED  BY <2>1, <2>2
<1>8. /\ c.graph = LinkRow(b.graph, PlanRow(G, batch[s + linked + 1][1], batch[s + linked + 1][2]))
      /\ c.frozen = G /\ c.count = linked + 1
  <2>1. LET frozen == IF Fresh(b) THEN b.graph ELSE b.frozen
        IN  /\ c.graph = LinkRow(b.graph, PlanRow(frozen, batch[s + linked + 1][1],
                                                          batch[s + linked + 1][2]))
            /\ c.frozen = frozen
            /\ c.count = IF Fresh(b) THEN 1 ELSE b.count + 1
    <3>0. PICK i : i = s + linked + 1
      OBVIOUS
    <3>1. Len(batch) \in Nat /\ i \in 1 .. Len(batch) /\ i - 1 = s + linked
      <4>1. s \in Nat /\ linked \in Nat /\ m \in Nat
        BY <1>a, <1>2
      <4>2. i \in 1 .. m
        BY <1>5, <3>0, Zenon
      <4>3. i - 1 = s + linked
        BY <3>0, <4>1
      <4> QED  BY <4>1, <4>2, <4>3 DEF m
    <3> HIDE DEF batch, g
    <3>2. LET x == Built(g, batch)[i - 1]
              y == Built(g, batch)[i]
              frozen == IF Fresh(x) THEN x.graph ELSE x.frozen
          IN  /\ y.graph = LinkRow(x.graph, PlanRow(frozen, batch[i][1], batch[i][2]))
              /\ y.frozen = frozen
              /\ y.count = IF Fresh(x) THEN 1 ELSE x.count + 1
      BY <3>1, BuildGoesOn
    <3> QED  BY <3>0, <3>1, <3>2 DEF B
  <2> HIDE DEF b, c, G, batch
  <2> QED  BY <2>1, <1>6, <1>7
<1>9. c.graph = graph'
  <2>1. batch[s + linked + 1] = wave[linked + 1]
    BY <1>3, <1>5
  <2>2. plans[linked + 1] = PlanRow(G, wave[linked + 1][1], wave[linked + 1][2])
    BY <1>4, <1>5 DEF Finished
  <2> HIDE DEF b, c, G, batch
  <2> QED  BY <1>1, <1>4, <1>8, <2>1, <2>2
<1>10. Builds' = B
  BY <1>1 DEF Builds, B
<1>11. CASE linked + 1 = Len(wave)
  <2>1. phase' = "wave"
    BY <1>1, <1>11
  <2>2. Start' = s + linked + 1
    <3>1. rest' = rest /\ called' = called /\ m \in Nat /\ Len(rest) \in Nat
      BY <1>1, <1>2, <1>3
    <3>2. Start' = m - Len(rest)
      BY <2>1, <3>1 DEF Start, m
    <3>3. s + linked + 1 = m - Len(rest)
      BY <1>2, <1>a, <1>11
    <3> QED  BY <3>2, <3>3
  <2>3. rest # <<>> => Fresh(c)
    BY <1>2, <1>8, <1>11 DEF Fresh
  <2> HIDE DEF b, c, G
  <2>4. Progress'
    BY <1>1, <1>9, <1>10, <2>1, <2>2, <2>3 DEF Progress, c
  <2>5. Remaining'
    <3>1. Start' \in Nat
      BY <1>2, <1>3, <2>2
    <3> QED  BY <1>1, <1>3, <2>1, <3>1 DEF Remaining, m
  <2> QED  BY <2>4, <2>5 DEF OnCourse
<1>12. CASE linked + 1 # Len(wave)
  <2>1. phase' = "link"
    BY <1>1, <1>12
  <2>2. Start' = s
    BY <1>1, <1>3, <2>1 DEF Start, m
  <2>3. s + linked' = s + linked + 1 /\ linked' = linked + 1 /\ linked' # 0
    BY <1>1, <1>2, <1>5
  <2> HIDE DEF b, c, G
  <2>4. /\ graph' = B[s + linked'].graph
        /\ B[s + linked'].frozen = B[s].graph
        /\ B[s + linked'].count = linked'
    BY <1>8, <1>9, <2>3 DEF c, G
  <2>5. B[s].graph.entry # 0
        /\ \A i \in 1 .. Len(wave') : Finished(B[s].graph, wave'[i], plans'[i])
    BY <1>1, <1>4 DEF G
  <2>6. Progress'
    BY <1>10, <2>1, <2>2, <2>3, <2>4, <2>5 DEF Progress
  <2>7. Remaining'
    BY <1>1, <1>3, <2>1, <2>2 DEF Remaining, m
  <2> QED  BY <2>6, <2>7 DEF OnCourse
<1> QED  BY <1>11, <1>12

LEMMA OnCourseStep == Safe /\ OnCourse /\ Planned /\ [Next]_vars => OnCourse'
<1> SUFFICES ASSUME Safe, OnCourse, Planned, [Next]_vars PROVE OnCourse'
  OBVIOUS
<1>1. CASE Call
  BY <1>1, OnCourseCall
<1>2. CASE StartWave
  BY <1>2, OnCourseStart
<1>3. CASE Join
  BY <1>3, OnCourseJoin
<1>4. CASE LinkNext
  BY <1>4, OnCourseLink
<1>5. CASE FinishCall
  BY <1>5 DEF FinishCall, OnCourse
<1>6. ASSUME NEW t \in Workers, WorkerStep(t)
      PROVE  OnCourse'
  <2>1. UNCHANGED <<graph, stream, drawn, phase, rest, wave, linked, called>>
    BY <1>6 DEF WorkerStep, Take, DescendForPlan, PlanLayer
  <2>2. phase = "work"
    BY <1>6 DEF WorkerStep, Take, DescendForPlan, PlanLayer, Safe, Slots
  <2>3. Start' = Start /\ Builds' = Builds
    BY <2>1 DEF Start, Builds
  <2>4. Remaining'
    BY <2>1, <2>2, <2>3 DEF OnCourse, Remaining
  <2>5. Progress'
    BY <2>1, <2>2, <2>3 DEF OnCourse, Progress
  <2> QED  BY <2>4, <2>5 DEF OnCourse
<1>7. CASE UNCHANGED vars
  BY <1>7 DEF vars, OnCourse, Remaining, Progress, Start, Builds
<1> QED  BY <1>1, <1>2, <1>3, <1>4, <1>5, <1>6, <1>7 DEF Next, CallerStep

LEMMA OnCourseImplies == Safe /\ OnCourse => ScheduleUnseen
<1> SUFFICES ASSUME Safe, OnCourse, phase = "wave", rest = <<>>
             PROVE  graph = AddBulk(called.graph, called.batch, Wave)
  BY DEF ScheduleUnseen
<1>1. graph = Builds[Start].graph /\ Start = Len(called.batch)
  <2>1. Len(called.batch) \in Nat
    BY DEF OnCourse, Remaining
  <2> QED  BY <2>1 DEF OnCourse, Progress, Start
<1> QED  BY <1>1, AddBulkIs DEF Builds

\* Whatever the threads do, a bulk call builds the graph that it builds alone.
THEOREM ScheduleIsUnseen == Spec => []ScheduleUnseen
<1> DEFINE Inv == Safe /\ OnCourse /\ Planned
<1>1. Init => Inv
  <2>1. Init => OnCourse /\ Planned
    BY DEF Init, OnCourse, Planned
  <2> QED  BY <2>1, SafeInit
<1>2. Inv /\ [Next]_vars => Inv'
  BY SafeStep, OnCourseStep, PlannedStep
<1>3. Inv => ScheduleUnseen
  BY OnCourseImplies
<1> HIDE DEF Inv
<1> QED  BY <1>1, <1>2, <1>3, PTL DEF Spec
=============================================================================
