-------------------------- MODULE HnswIndexProofs ---------------------------
(***************************************************************************)
(* Proofs about HnswIndex, for any points, seed, degree, width and number  *)
(* of rows.                                                                *)
(***************************************************************************)
EXTENDS HnswIndex, SequenceTheorems, FiniteSetTheorems, WellFoundedInduction, TLAPS

-----------------------------------------------------------------------------
(* Counting, and recursion over a range of numbers.                        *)

LEMMA LeastNumber ==
  ASSUME NEW T \in SUBSET Nat, T # {}
  PROVE  \E x \in T : \A y \in T : x <= y
<1> DEFINE R == OpToRel(<, Nat)
<1>1. \E x \in T : \A y \in T : ~ (<<y, x>> \in R)
  <2>1. IsWellFoundedOn(R, Nat)
    BY NatLessThanWellFounded
  <2> HIDE DEF R
  <2> QED  BY <2>1, WFMin
<1>2. \A x, y \in Nat : y < x => <<y, x>> \in R
  BY DEF OpToRel
<1> HIDE DEF R
<1>3. PICK x \in T : \A y \in T : ~ (<<y, x>> \in R)
  BY <1>1
<1>4. ASSUME NEW y \in T
      PROVE  x <= y
  <2>1. x \in Nat /\ y \in Nat /\ ~(y < x)
    BY <1>2, <1>3
  <2> QED  BY <2>1
<1> QED  BY <1>4

LEMMA UpTo ==
  ASSUME NEW last \in Nat, NEW S, 0 \in S,
         \A n \in 0 .. last - 1 : n \in S => n + 1 \in S
  PROVE  \A n \in 0 .. last : n \in S
<1> SUFFICES ASSUME NEW bad \in 0 .. last, bad \notin S
             PROVE  FALSE
  OBVIOUS
<1> DEFINE Bad == {n \in 0 .. last : n \notin S}
<1>1. Bad \in SUBSET Nat /\ Bad # {}
  OBVIOUS
<1> HIDE DEF Bad
<1>2. PICK m \in Bad : \A n \in Bad : m <= n
  BY <1>1, LeastNumber
<1>3. m \in 0 .. last /\ m \notin S /\ m # 0
  BY <1>2 DEF Bad
<1>4. m - 1 \in 0 .. last /\ m - 1 \in 0 .. last - 1
  BY <1>3
<1>5. m - 1 \in S
  BY <1>2, <1>3, <1>4 DEF Bad
<1> QED  BY <1>3, <1>4, <1>5

\* Turn i of a loop takes D[i - 1] into D[i].
Takes(last, D, step) == \A i \in 1 .. last : \A x \in D[i - 1] : step[i][x] \in D[i]

\* What a loop does in "last" turns.
Run(last, D, base, step, h) ==
  /\ h[0] = base
  /\ \A i \in 1 .. last : h[i] = step[i][h[i - 1]]
  /\ \A i \in 0 .. last : h[i] \in D[i]

\* Every such loop has a run, and it stays in D.
LEMMA Iterates ==
  ASSUME NEW last \in Nat, NEW D, NEW base, base \in D[0],
         NEW step, Takes(last, D, step)
  PROVE  \E T, h : h \in [0 .. last -> T] /\ Run(last, D, base, step, h)
<1> USE DEF Takes, Run
<1> DEFINE F(h, m) == [i \in 0 .. m |-> IF i = 0 THEN base ELSE step[i][h[i - 1]]]
           Within(h, m) == \A i \in 0 .. m : h[i] \in D[i]
           Runs == {m \in 0 .. last : \E h : h = F(h, m) /\ Within(h, m)}
<1>1. 0 \in Runs
  <2> DEFINE h == [i \in 0 .. 0 |-> base]
  <2>1. h = F(h, 0)
    <3>1. \A i \in 0 .. 0 : i = 0
      OBVIOUS
    <3> QED  BY <3>1
  <2>2. 0 \in 0 .. last
    OBVIOUS
  <2>3. Within(h, 0)
    <3>1. \A i \in 0 .. 0 : i = 0
      OBVIOUS
    <3> QED  BY <3>1
  <2> HIDE DEF h, F, Within
  <2> QED  BY <2>1, <2>2, <2>3
<1>2. ASSUME NEW m \in 0 .. last - 1, m \in Runs
      PROVE  m + 1 \in Runs
  <2>1. PICK h : h = F(h, m) /\ Within(h, m)
    BY <1>2
  <2> DEFINE v == step[m + 1][h[m]]
             k == [i \in 0 .. m + 1 |-> IF i = m + 1 THEN v ELSE h[i]]
  <2>2. m + 1 \in 1 .. last /\ m + 1 \in 0 .. last /\ m \in Nat /\ m + 1 - 1 = m
    OBVIOUS
  <2>3. v \in D[m + 1]
    <3>1. h[m] \in D[m]
      BY <2>1, <2>2
    <3> HIDE DEF F, Within
    <3> QED  BY <3>1, <2>2
  <2> HIDE DEF v
  <2>4. \A i \in 0 .. m + 1 : k[i] = IF i = m + 1 THEN v ELSE h[i]
    OBVIOUS
  <2>5. \A i \in 0 .. m + 1 : i = m + 1 \/ i \in 0 .. m
    BY <2>2
  <2>6. \A i \in 0 .. m + 1 : k[i] = IF i = 0 THEN base ELSE step[i][k[i - 1]]
    <3> TAKE i \in 0 .. m + 1
    <3>1. CASE i = m + 1
      <4>1. k[m] = h[m] /\ i # 0 /\ i - 1 = m
        BY <2>2, <2>4, <3>1
      <4> QED  BY <4>1, <3>1, <2>4 DEF v
    <3>2. CASE i \in 0 .. m
      <4>1. k[i] = h[i]
        BY <2>2, <2>4, <3>2
      <4>2. h[i] = IF i = 0 THEN base ELSE step[i][h[i - 1]]
        BY <2>1, <3>2
      <4>3. i # 0 => k[i - 1] = h[i - 1]
        BY <2>2, <2>4, <3>2
      <4> QED  BY <4>1, <4>2, <4>3
    <3> QED  BY <3>1, <3>2, <2>5
  <2>7. k = F(k, m + 1)
    <3>1. k = [i \in 0 .. m + 1 |-> k[i]]
      OBVIOUS
    <3> HIDE DEF k
    <3> QED  BY <3>1, <2>6
  <2>8. Within(k, m + 1)
    <3> SUFFICES ASSUME NEW i \in 0 .. m + 1
                 PROVE  k[i] \in D[i]
      OBVIOUS
    <3>1. CASE i = m + 1
      BY <3>1, <2>3, <2>4
    <3>2. CASE i # m + 1
      <4>1. k[i] = h[i] /\ i \in 0 .. m
        BY <3>2, <2>4, <2>5
      <4> QED  BY <4>1, <2>1
    <3> QED  BY <3>1, <3>2
  <2> HIDE DEF k, F, Within
  <2> QED  BY <2>2, <2>7, <2>8
<1>3. last \in Runs
  <2> HIDE DEF Runs
  <2>1. \A m \in 0 .. last : m \in Runs
    BY <1>1, <1>2, UpTo
  <2> QED  BY <2>1
<1>4. PICK h : h = F(h, last) /\ Within(h, last)
  BY <1>3
<1> DEFINE T == {h[i] : i \in 0 .. last}
<1>5. h \in [0 .. last -> T]
  BY <1>4
<1>6. h[0] = base /\ \A i \in 1 .. last : h[i] = step[i][h[i - 1]]
  <2>1. \A i \in 0 .. last : h[i] = IF i = 0 THEN base ELSE step[i][h[i - 1]]
    BY <1>4
  <2> HIDE DEF F, Within
  <2> QED  BY <2>1
<1> HIDE DEF T, F
<1> QED  BY <1>4, <1>5, <1>6

LEMMA Stays ==
  ASSUME NEW last \in Nat, NEW D, NEW h, h[0] \in D[0],
         \A i \in 1 .. last : h[i - 1] \in D[i - 1] => h[i] \in D[i]
  PROVE  \A i \in 0 .. last : h[i] \in D[i]
<1> DEFINE S == {i \in 0 .. last : h[i] \in D[i]}
<1>1. 0 \in S
  OBVIOUS
<1>2. ASSUME NEW n \in 0 .. last - 1, n \in S
      PROVE  n + 1 \in S
  <2>1. n + 1 \in 1 .. last /\ n + 1 - 1 = n /\ n + 1 \in 0 .. last
    OBVIOUS
  <2> QED  BY <1>2, <2>1
<1> HIDE DEF S
<1>3. \A n \in 0 .. last : n \in S
  BY <1>1, <1>2, UpTo
<1> QED  BY <1>3 DEF S

\* The same for a loop that counts down.
TakesDown(low, high, D, step) ==
  \A l \in low .. high - 1 : \A x \in D[l + 1] : step[l][x] \in D[l]

RunDown(low, high, D, base, step, h) ==
  /\ h[high] = base
  /\ \A l \in low .. high - 1 : h[l] = step[l][h[l + 1]]
  /\ \A l \in low .. high : h[l] \in D[l]

LEMMA IteratesDown ==
  ASSUME NEW low \in Int, NEW high \in Int, low <= high,
         NEW D, NEW base, base \in D[high],
         NEW step, TakesDown(low, high, D, step)
  PROVE  \E T, h : h \in [low .. high -> T] /\ RunDown(low, high, D, base, step, h)
<1> USE DEF TakesDown, RunDown
<1> DEFINE last == high - low
           E == [i \in 0 .. last |-> D[high - i]]
           up == [i \in 1 .. last |-> step[high - i]]
<1>1. last \in Nat /\ base \in E[0]
  <2>1. high - 0 = high
    OBVIOUS
  <2> QED  BY <2>1
<1>2. Takes(last, E, up)
  <2> SUFFICES ASSUME NEW i \in 1 .. last, NEW x \in E[i - 1]
               PROVE  up[i][x] \in E[i]
    BY DEF Takes
  <2>1. /\ high - i \in low .. high - 1 /\ high - i + 1 = high - (i - 1)
        /\ i \in 0 .. last /\ i - 1 \in 0 .. last
    OBVIOUS
  <2>2. E[i - 1] = D[high - i + 1] /\ E[i] = D[high - i] /\ up[i] = step[high - i]
    BY <2>1
  <2> HIDE DEF E, up
  <2> QED  BY <2>1, <2>2
<1> HIDE DEF E, up, last
<1>3. PICK T, h : h \in [0 .. last -> T] /\ Run(last, E, base, up, h)
  BY <1>1, <1>2, Iterates
<1> DEFINE k == [l \in low .. high |-> h[high - l]]
<1>4. \A l \in low .. high - 1 : k[l] = step[l][k[l + 1]]
  <2> TAKE l \in low .. high - 1
  <2> DEFINE i == high - l
  <2>1. /\ i \in 1 .. last /\ high - i = l /\ l \in low .. high
        /\ l + 1 \in low .. high /\ high - (l + 1) = i - 1
    BY DEF last
  <2>2. k[l] = h[i] /\ k[l + 1] = h[i - 1] /\ up[i] = step[high - i]
    BY <2>1 DEF up
  <2> HIDE DEF i, k
  <2> QED  BY <1>3, <2>1, <2>2 DEF Run
<1>5. \A l \in low .. high : k[l] \in D[l]
  <2> TAKE l \in low .. high
  <2>1. high - l \in 0 .. last /\ high - (high - l) = l
    BY DEF last
  <2>2. h[high - l] \in E[high - l]
    BY <1>3, <2>1 DEF Run
  <2>3. E[high - l] = D[high - (high - l)]
    BY <2>1 DEF E
  <2> QED  BY <2>1, <2>2, <2>3
<1>6. k \in [low .. high -> T] /\ k[high] = base
  <2>1. \A l \in low .. high : high - l \in 0 .. last
    BY DEF last
  <2>2. high \in low .. high /\ high - high = 0
    OBVIOUS
  <2> QED  BY <1>3, <2>1, <2>2 DEF Run
<1> HIDE DEF k
<1> QED  BY <1>4, <1>5, <1>6

LEMMA StaysDown ==
  ASSUME NEW low \in Int, NEW high \in Int, low <= high,
         NEW D, NEW h, h[high] \in D[high],
         \A l \in low .. high - 1 : h[l + 1] \in D[l + 1] => h[l] \in D[l]
  PROVE  \A l \in low .. high : h[l] \in D[l]
<1> DEFINE last == high - low
           S == {i \in 0 .. last : h[high - i] \in D[high - i]}
<1>1. 0 \in S
  <2>1. high - 0 = high /\ 0 \in 0 .. last
    OBVIOUS
  <2> QED  BY <2>1
<1>2. ASSUME NEW n \in 0 .. last - 1, n \in S
      PROVE  n + 1 \in S
  <2>1. /\ high - (n + 1) \in low .. high - 1 /\ high - (n + 1) + 1 = high - n
        /\ n + 1 \in 0 .. last
    OBVIOUS
  <2>2. h[high - n] \in D[high - n]
    BY <1>2
  <2>3. h[high - (n + 1)] \in D[high - (n + 1)]
    BY <2>1, <2>2
  <2> QED  BY <2>1, <2>3
<1>3. last \in Nat
  OBVIOUS
<1> HIDE DEF S, last
<1>4. \A n \in 0 .. last : n \in S
  BY <1>1, <1>2, <1>3, UpTo
<1> TAKE l \in low .. high
<1>5. high - l \in 0 .. last /\ high - (high - l) = l
  BY DEF last
<1>6. high - l \in S
  BY <1>4, <1>5
<1> QED  BY <1>5, <1>6 DEF S

-----------------------------------------------------------------------------
(* Graphs whose walks stay within them.                                    *)

LEMMA InSet ==
  ASSUME NEW S, NEW s \in Seq(S)
  PROVE  ToSet(s) \subseteq S /\ \A x : x \in ToSet(s) <=> \E i \in 1 .. Len(s) : x = s[i]
BY DEF ToSet

LEMMA InWiderSet ==
  ASSUME NEW A, NEW B, A \subseteq B, NEW s \in Seq(A)
  PROVE  s \in Seq(B)
OBVIOUS

\* The rows that take part in a layer.
OnLayer(g, l) == {r \in 1 .. Len(g.nodes) : g.nodes[r].level >= l}

\* Every row is nearer to itself than any other row is.
Once(g) ==
  \A r, s \in 1 .. Len(g.nodes) :
    r # s => Dist(g, g.nodes[r].at, r) < Dist(g, g.nodes[s].at, r)

\* A link list of row r on layer l.
ListSound(g, r, l, list) ==
  /\ list \in Seq(OnLayer(g, l) \ {r}) /\ Len(list) <= Cap(l)
  /\ Once(g) => IsInjective(list)

NodeSound(g, r) ==
  LET n == g.nodes[r]
  IN  /\ n = [at |-> n.at, level |-> n.level, links |-> n.links]
      /\ n.at \in Points /\ n.level \in 0 .. MaxLevel /\ n.level <= g.top
      /\ n.links = [l \in 0 .. n.level |-> n.links[l]]
      /\ \A l \in 0 .. n.level : ListSound(g, r, l, n.links[l])

EntrySound(g) ==
  /\ g.top \in -1 .. MaxLevel
  /\ IF g.entry = 0
     THEN Len(g.nodes) = 0
     ELSE g.entry \in 1 .. Len(g.nodes) /\ g.nodes[g.entry].level = g.top

Sound(g) ==
  /\ g = [nodes |-> g.nodes, entry |-> g.entry, top |-> g.top]
  /\ Len(g.nodes) \in Nat /\ g.nodes = [r \in 1 .. Len(g.nodes) |-> g.nodes[r]]
  /\ EntrySound(g)
  /\ \A r \in 1 .. Len(g.nodes) : NodeSound(g, r)

\* All that distances and queues need of a graph.
Positioned(g) ==
  Len(g.nodes) \in Nat /\ \A r \in 1 .. Len(g.nodes) : g.nodes[r].at \in Points

LEMMA SoundIsPositioned ==
  ASSUME NEW g, Sound(g)
  PROVE  Positioned(g)
BY DEF Sound, NodeSound, Positioned

LEMMA OnceBefore ==
  ASSUME NEW f, NEW h, Len(f.nodes) \in Nat, Len(h.nodes) \in Nat,
         Len(f.nodes) <= Len(h.nodes),
         \A r \in 1 .. Len(f.nodes) : h.nodes[r].at = f.nodes[r].at,
         Once(h)
  PROVE  Once(f)
<1>1. \A r \in 1 .. Len(f.nodes) : r \in 1 .. Len(h.nodes)
  OBVIOUS
<1>2. \A r, s \in 1 .. Len(f.nodes) :
        r # s => Distance[h.nodes[r].at, h.nodes[r].at] < Distance[h.nodes[s].at, h.nodes[r].at]
  BY <1>1 DEF Once, Dist
<1>3. \A r, s \in 1 .. Len(f.nodes) :
        r # s => Distance[f.nodes[r].at, f.nodes[r].at] < Distance[f.nodes[s].at, f.nodes[r].at]
  BY <1>2
<1> QED  BY <1>3 DEF Once, Dist

LEMMA DistIs ==
  ASSUME NEW g, Positioned(g), NEW q \in Points, NEW r \in 1 .. Len(g.nodes)
  PROVE  Dist(g, q, r) \in Int
BY DistanceAssumption DEF Positioned, Dist

LEMMA LevelIs ==
  ASSUME NEW g, Sound(g), NEW l \in Nat, NEW r \in OnLayer(g, l)
  PROVE  /\ r \in 1 .. Len(g.nodes) /\ g.nodes[r].level \in Nat
         /\ g.nodes[r].level >= l /\ ~(g.nodes[r].level < l) /\ g.nodes[r].level <= g.top
<1>1. r \in 1 .. Len(g.nodes) /\ g.nodes[r].level >= l /\ NodeSound(g, r)
  BY DEF OnLayer, Sound
<1>2. g.nodes[r].level \in 0 .. MaxLevel /\ g.nodes[r].level <= g.top /\ MaxLevel \in Nat
  BY <1>1, SizesAssumption DEF NodeSound
<1> QED  BY <1>1, <1>2

\* What a row that takes part in a layer is linked to there.
LEMMA LinksAre ==
  ASSUME NEW g, Sound(g), NEW l \in Nat, NEW r \in OnLayer(g, l)
  PROVE  /\ Links(g, r, l) \in Seq(OnLayer(g, l) \ {r})
         /\ ToSet(Links(g, r, l)) \subseteq OnLayer(g, l) \ {r}
         /\ Once(g) => IsInjective(Links(g, r, l))
         /\ Len(Links(g, r, l)) <= Cap(l)
<1>1. r \in 1 .. Len(g.nodes) /\ g.nodes[r].level >= l /\ NodeSound(g, r)
  BY DEF Sound, OnLayer
<1>2. l \in 0 .. g.nodes[r].level
  BY <1>1 DEF NodeSound
<1>3. /\ Links(g, r, l) \in Seq(OnLayer(g, l) \ {r})
      /\ Once(g) => IsInjective(Links(g, r, l))
      /\ Len(Links(g, r, l)) <= Cap(l)
  BY <1>1, <1>2 DEF NodeSound, ListSound, Links
<1> QED  BY <1>3, InSet

LEMMA StepStays ==
  ASSUME NEW g, Sound(g), NEW q \in Points, NEW l \in Nat, NEW r \in OnLayer(g, l)
  PROVE  Step(g, q, r, l) \in OnLayer(g, l)
<1> DEFINE list == Links(g, r, l)
           last == Len(list)
           S == OnLayer(g, l)
           Next1(x, i) == IF Dist(g, q, list[i]) < Dist(g, q, x) THEN list[i] ELSE x
           F(h) == [i \in 0 .. last |-> IF i = 0 THEN r ELSE Next1(h[i - 1], i)]
           nearest == CHOOSE h : h = F(h)
           D == [i \in 0 .. last |-> S]
           step == [i \in 1 .. last |-> [x \in S |-> Next1(x, i)]]
<1>0. Step(g, q, r, l) = nearest[last]
  <2>1. Step(g, q, r, l) =
          LET near == CHOOSE h : h = [i \in 0 .. last |->
                        IF i = 0 THEN r
                        ELSE IF Dist(g, q, list[i]) < Dist(g, q, h[i - 1]) THEN list[i]
                        ELSE h[i - 1]]
          IN  near[last]
    BY DEF Step
  <2> QED  BY <2>1
<1>1. last \in Nat /\ \A i \in 1 .. last : list[i] \in S
  <2>1. list \in Seq(S \ {r})
    BY LinksAre
  <2> HIDE DEF list, S
  <2> QED  BY <2>1
<1>2. r \in D[0] /\ Takes(last, D, step)
  <2>1. \A i \in 1 .. last : i \in 0 .. last /\ i - 1 \in 0 .. last
    BY <1>1
  <2> HIDE DEF list, last
  <2> QED  BY <1>1, <2>1 DEF Takes
<1> HIDE DEF list, last
<1>3. PICK T, k : k \in [0 .. last -> T] /\ Run(last, D, r, step, k)
  <2> HIDE DEF D, step
  <2> QED  BY <1>1, <1>2, Iterates
<1> HIDE DEF Next1, S
<1>4. k = F(k)
  <2>1. \A i \in 0 .. last : k[i] \in S
    BY <1>3 DEF Run
  <2>2. ASSUME NEW i \in 1 .. last
        PROVE  k[i] = Next1(k[i - 1], i)
    <3>1. k[i - 1] \in S
      BY <1>1, <2>1
    <3> QED  BY <1>3, <3>1 DEF Run
  <2>3. \A i \in 0 .. last : i = 0 \/ i \in 1 .. last
    BY <1>1
  <2> QED  BY <1>3, <2>2, <2>3 DEF Run
<1>5. nearest = F(nearest)
  <2> HIDE DEF F
  <2> QED  BY <1>4
<1> HIDE DEF nearest
<1>6. \A i \in 0 .. last : nearest[i] \in D[i]
  <2>1. ASSUME NEW i \in 1 .. last, nearest[i - 1] \in D[i - 1]
        PROVE  nearest[i] \in D[i]
    <3>1. i \in 0 .. last /\ i - 1 \in 0 .. last /\ i # 0
      BY <1>1
    <3>2. nearest[i] = Next1(nearest[i - 1], i)
      BY <1>5, <3>1
    <3>3. nearest[i - 1] \in S
      BY <2>1, <3>1
    <3> QED  BY <1>1, <3>1, <3>2, <3>3 DEF Next1
  <2>2. nearest[0] \in D[0]
    BY <1>1, <1>5 DEF S
  <2> HIDE DEF D, F
  <2> QED  BY <1>1, <2>1, <2>2, Stays
<1> QED  BY <1>0, <1>1, <1>6 DEF S

LEMMA GreedyStays ==
  ASSUME NEW g, Sound(g), NEW q \in Points, NEW l \in Nat, NEW r \in OnLayer(g, l)
  PROVE  Greedy(g, q, r, l) \in OnLayer(g, l)
<1> DEFINE last == Len(g.nodes)
           F(h) == [i \in 0 .. last |-> IF i = 0 THEN r ELSE Step(g, q, h[i - 1], l)]
           at == CHOOSE h : h = F(h)
           D == [i \in 0 .. last |-> OnLayer(g, l)]
           step == [i \in 1 .. last |-> [x \in OnLayer(g, l) |-> Step(g, q, x, l)]]
<1>0. Greedy(g, q, r, l) = at[last]
  BY DEF Greedy
<1>1. last \in Nat
  BY DEF Sound
<1>2. r \in D[0] /\ Takes(last, D, step)
  <2>1. \A i \in 1 .. last : i \in 0 .. last /\ i - 1 \in 0 .. last
    BY <1>1
  <2> QED  BY <1>1, <2>1, StepStays DEF Takes
<1>3. PICK T, k : k \in [0 .. last -> T] /\ Run(last, D, r, step, k)
  <2> HIDE DEF last, D, step
  <2> QED  BY <1>1, <1>2, Iterates
<1>4. k = F(k)
  <2>1. \A i \in 0 .. last : k[i] \in OnLayer(g, l)
    BY <1>3 DEF Run
  <2>2. ASSUME NEW i \in 1 .. last
        PROVE  k[i] = Step(g, q, k[i - 1], l)
    <3>1. k[i - 1] \in OnLayer(g, l)
      BY <2>1
    <3> QED  BY <1>3, <3>1 DEF Run
  <2>3. \A i \in 0 .. last : i = 0 \/ i \in 1 .. last
    BY <1>1
  <2> QED  BY <1>3, <2>2, <2>3 DEF Run
<1>5. at = F(at)
  <2> HIDE DEF F
  <2> QED  BY <1>4
<1> HIDE DEF at
<1>6. \A i \in 0 .. last : at[i] \in D[i]
  <2>1. ASSUME NEW i \in 1 .. last, at[i - 1] \in D[i - 1]
        PROVE  at[i] \in D[i]
    <3>1. i \in 0 .. last /\ i - 1 \in 0 .. last /\ i # 0
      BY <1>1
    <3>2. at[i] = Step(g, q, at[i - 1], l)
      BY <1>5, <3>1
    <3> QED  BY <2>1, <3>1, <3>2, StepStays
  <2>2. at[0] \in D[0]
    BY <1>1, <1>5
  <2> HIDE DEF D, F, last
  <2> QED  BY <1>1, <2>1, <2>2, Stays
<1> QED  BY <1>0, <1>1, <1>6

-----------------------------------------------------------------------------
(* Queues: lists of rows, the nearest to a query first.                    *)

Sorted(g, q, s) ==
  \A i, j \in 1 .. Len(s) : i <= j => Dist(g, q, s[i]) <= Dist(g, q, s[j])

AtMost(g, q, s, d) == {i \in DOMAIN s : Dist(g, q, s[i]) <= d}

\* In a sorted list the rows at most as far as a given one are the first ones.
Rank(g, q, s, d, k) ==
  /\ Cardinality(AtMost(g, q, s, d)) = k
  /\ \A i \in 1 .. Len(s) : Dist(g, q, s[i]) <= d <=> i <= k

LEMMA Nearer ==
  ASSUME NEW g, Positioned(g), NEW q \in Points, NEW s \in Seq(1 .. Len(g.nodes)),
         Sorted(g, q, s), NEW d \in Int
  PROVE  \E k \in 0 .. Len(s) : Rank(g, q, s, d, k)
<1> DEFINE n == Len(s)
           Far == {i \in 1 .. n : ~(Dist(g, q, s[i]) <= d)} \cup {n + 1}
<1>1. n \in Nat /\ DOMAIN s = 1 .. n
  OBVIOUS
<1>2. PICK f \in Far : \A i \in Far : f <= i
  <2>1. Far \in SUBSET Nat /\ Far # {}
    BY <1>1
  <2> HIDE DEF Far
  <2> QED  BY <2>1, LeastNumber
<1>3. f \in 1 .. n + 1
  BY <1>1, <1>2
<1>4. \A i \in 1 .. n : Dist(g, q, s[i]) <= d <=> i <= f - 1
  <2> TAKE i \in 1 .. n
  <2>1. CASE i < f
    <3>1. i \notin Far
      BY <1>1, <1>2, <1>3, <2>1
    <3> QED  BY <1>1, <1>3, <2>1, <3>1
  <2>2. CASE f <= i
    <3>1. f \in 1 .. n /\ ~(Dist(g, q, s[f]) <= d)
      BY <1>1, <1>2, <1>3, <2>2
    <3>2. Dist(g, q, s[f]) <= Dist(g, q, s[i])
      BY <2>2, <3>1 DEF Sorted
    <3>3. Dist(g, q, s[f]) \in Int /\ Dist(g, q, s[i]) \in Int
      BY <3>1, DistIs
    <3>4. ~(Dist(g, q, s[i]) <= d)
      BY <3>1, <3>2, <3>3
    <3> QED  BY <1>1, <1>3, <2>2, <3>4
  <2> QED  BY <1>1, <1>3, <2>1, <2>2
<1>5. AtMost(g, q, s, d) = 1 .. f - 1
  <2>1. \A i : i \in 1 .. f - 1 <=> i \in 1 .. n /\ i <= f - 1
    BY <1>1, <1>3
  <2>2. \A i : i \in AtMost(g, q, s, d) <=> i \in 1 .. n /\ Dist(g, q, s[i]) <= d
    BY <1>1 DEF AtMost
  <2> QED  BY <1>4, <2>1, <2>2
<1>6. Cardinality(1 .. f - 1) = f - 1
  BY <1>1, <1>3, FS_Interval
<1>7. f - 1 \in 0 .. n
  BY <1>1, <1>3
<1>8. Rank(g, q, s, d, f - 1)
  BY <1>4, <1>5, <1>6 DEF Rank
<1> QED  BY <1>7, <1>8

\* Where a row is put into a sorted list.
LEMMA PlaceIs ==
  ASSUME NEW g, Positioned(g), NEW q \in Points, NEW s \in Seq(1 .. Len(g.nodes)),
         Sorted(g, q, s), NEW r \in 1 .. Len(g.nodes)
  PROVE  \E p \in 1 .. Len(s) + 1 :
           /\ Place(g, q, s, r) \in Seq(1 .. Len(g.nodes))
           /\ Len(Place(g, q, s, r)) = Len(s) + 1
           /\ \A i \in 1 .. Len(s) + 1 :
                Place(g, q, s, r)[i] = IF i < p THEN s[i] ELSE IF i = p THEN r ELSE s[i - 1]
           /\ \A i \in 1 .. Len(s) :
                IF i < p THEN Dist(g, q, s[i]) <= Dist(g, q, r)
                         ELSE Dist(g, q, r) <= Dist(g, q, s[i])
<1> DEFINE d == Dist(g, q, r)
           n == Len(s)
           S == 1 .. Len(g.nodes)
<1>1. n \in Nat /\ d \in Int
  BY DistIs
<1>2. PICK k \in 0 .. n :
        /\ Cardinality(AtMost(g, q, s, d)) = k
        /\ \A i \in 1 .. n : Dist(g, q, s[i]) <= d <=> i <= k
  <2> HIDE DEF d
  <2>1. \E k \in 0 .. Len(s) : Rank(g, q, s, d, k)
    BY <1>1, Nearer
  <2> QED  BY <2>1 DEF Rank
<1> DEFINE p == 1 + k
           a == SubSeq(s, 1, p - 1)
           z == SubSeq(s, p, n)
<1>3. p \in 1 .. n + 1 /\ p - 1 = k
  BY <1>1, <1>2
<1>4. Place(g, q, s, r) = a \o <<r>> \o z
  BY <1>2 DEF Place, InsertAt, AtMost
<1> HIDE DEF p, d, n, S
<1>5. /\ a \in Seq(S) /\ Len(a) = k /\ \A i \in 1 .. k : a[i] = s[i]
      /\ z \in Seq(S) /\ Len(z) = n - k /\ \A i \in 1 .. n - k : z[i] = s[k + i]
  <2>1. s \in Seq(S) /\ n = Len(s)
    BY DEF S, n
  <2>2. k \in Nat /\ p = 1 + k
    BY <1>2, <1>1 DEF p
  <2> QED  BY <1>1, <1>3, <2>1, <2>2
<1> HIDE DEF a, z
<1>6. <<r>> \in Seq(S) /\ Len(<<r>>) = 1 /\ <<r>>[1] = r
  BY DEF S
<1> DEFINE t == a \o <<r>> \o z
<1>7. /\ t \in Seq(S) /\ Len(t) = n + 1
      /\ \A i \in 1 .. n + 1 : t[i] = IF i < p THEN s[i] ELSE IF i = p THEN r ELSE s[i - 1]
  <2> DEFINE b == a \o <<r>>
  <2>1. /\ b \in Seq(S) /\ Len(b) = k + 1
        /\ \A i \in 1 .. k + 1 : b[i] = IF i <= k THEN a[i] ELSE r
    BY <1>1, <1>2, <1>5, <1>6
  <2> HIDE DEF b
  <2>2. /\ b \o z \in Seq(S) /\ Len(b \o z) = n + 1
        /\ \A i \in 1 .. n + 1 : (b \o z)[i] = IF i <= k + 1 THEN b[i] ELSE z[i - (k + 1)]
    BY <1>1, <1>2, <1>5, <2>1
  <2>3. t = b \o z
    BY DEF b
  <2> HIDE DEF t
  <2>4. ASSUME NEW i \in 1 .. n + 1
        PROVE  t[i] = IF i < p THEN s[i] ELSE IF i = p THEN r ELSE s[i - 1]
    <3>1. t[i] = IF i <= k + 1 THEN b[i] ELSE z[i - (k + 1)]
      BY <2>2, <2>3
    <3>2. CASE i <= k
      <4>1. i < p /\ i \in 1 .. k + 1 /\ i \in 1 .. k /\ i <= k + 1
        BY <1>1, <1>2, <3>2 DEF p
      <4> QED  BY <1>5, <2>1, <3>1, <3>2, <4>1
    <3>3. CASE i = k + 1
      <4>1. ~(i < p) /\ i = p /\ i \in 1 .. k + 1 /\ ~(i <= k) /\ i <= k + 1
        BY <1>1, <1>2, <3>3 DEF p
      <4> QED  BY <2>1, <3>1, <4>1
    <3>4. CASE i > k + 1
      <4>1. /\ ~(i < p) /\ i # p /\ ~(i <= k + 1) /\ i - (k + 1) \in 1 .. n - k
            /\ k + (i - (k + 1)) = i - 1
        BY <1>1, <1>2, <3>4 DEF p
      <4> QED  BY <1>5, <3>1, <4>1
    <3> QED  BY <1>1, <1>2, <3>2, <3>3, <3>4
  <2> QED  BY <2>2, <2>3, <2>4
<1>8. ASSUME NEW i \in 1 .. n
      PROVE  IF i < p THEN Dist(g, q, s[i]) <= d ELSE d <= Dist(g, q, s[i])
  <2>1. Dist(g, q, s[i]) \in Int
    BY DistIs DEF n
  <2>2. i < p <=> i <= k
    BY <1>1, <1>2 DEF p
  <2> QED  BY <1>1, <1>2, <2>1, <2>2
<1> HIDE DEF t
<1>9. Place(g, q, s, r) = t
  BY <1>4 DEF t
<1> QED  BY <1>3, <1>7, <1>8, <1>9 DEF n, d, S

\* List t holds what list s holds, and row r.
PutIn(g, q, s, r, t) ==
  /\ t \in Seq(1 .. Len(g.nodes)) /\ Len(t) = Len(s) + 1 /\ Sorted(g, q, t)
  /\ ToSet(t) = ToSet(s) \cup {r}
  /\ IsInjective(s) /\ r \notin ToSet(s) => IsInjective(t)

LEMMA Placed ==
  ASSUME NEW g, Positioned(g), NEW q \in Points, NEW s \in Seq(1 .. Len(g.nodes)),
         Sorted(g, q, s), NEW r \in 1 .. Len(g.nodes)
  PROVE  PutIn(g, q, s, r, Place(g, q, s, r))
<1> DEFINE n == Len(s)
           t == Place(g, q, s, r)
<1>1. PICK p \in 1 .. n + 1 :
        /\ t \in Seq(1 .. Len(g.nodes)) /\ Len(t) = n + 1
        /\ \A i \in 1 .. n + 1 :
             t[i] = IF i < p THEN s[i] ELSE IF i = p THEN r ELSE s[i - 1]
        /\ \A i \in 1 .. n :
             IF i < p THEN Dist(g, q, s[i]) <= Dist(g, q, r)
                      ELSE Dist(g, q, r) <= Dist(g, q, s[i])
  BY PlaceIs
<1>2. n \in Nat /\ DOMAIN s = 1 .. n /\ DOMAIN t = 1 .. n + 1
  BY <1>1
<1> HIDE DEF t
<1>c. \A v \in 1 .. n + 1 : t[v] = IF v < p THEN s[v] ELSE IF v = p THEN r ELSE s[v - 1]
  BY <1>1
<1>a. /\ \A i \in 1 .. n : i < p => t[i] = s[i]
      /\ t[p] = r
      /\ \A i \in 1 .. n : ~(i < p) => t[i + 1] = s[i]
  <2>1. ASSUME NEW i \in 1 .. n, i < p
        PROVE  t[i] = s[i]
    <3>1. i \in 1 .. n + 1
      BY <1>2
    <3> QED  BY <1>1, <2>1, <3>1
  <2>2. ASSUME NEW i \in 1 .. n, ~(i < p)
        PROVE  t[i + 1] = s[i]
    <3>1. PICK v \in 1 .. n + 1 : v = i + 1
      BY <1>2
    <3>2. ~(v < p) /\ v # p /\ v - 1 = i
      BY <1>2, <2>2, <3>1
    <3> QED  BY <1>c, <3>1, <3>2
  <2>3. t[p] = r
    BY <1>1, <1>2
  <2> QED  BY <2>1, <2>2, <2>3
<1>b. ASSUME NEW i \in 1 .. n + 1
      PROVE  \/ i \in 1 .. n /\ i < p /\ t[i] = s[i]
             \/ i = p /\ t[i] = r
             \/ i - 1 \in 1 .. n /\ i > p /\ t[i] = s[i - 1]
  <2>1. CASE i < p
    <3>1. i \in 1 .. n
      BY <1>2, <2>1
    <3> QED  BY <1>a, <2>1, <3>1
  <2>2. CASE i = p
    BY <1>a, <2>2
  <2>3. CASE i > p
    <3>1. i - 1 \in 1 .. n /\ ~(i - 1 < p) /\ i - 1 + 1 = i
      BY <1>2, <2>3
    <3> QED  BY <1>a, <2>3, <3>1
  <2> QED  BY <1>2, <2>1, <2>2, <2>3
<1>3. \A i \in 1 .. n : Dist(g, q, s[i]) \in Int
  BY DistIs
<1>4. Dist(g, q, r) \in Int
  BY DistIs
<1>5. \A i, j \in 1 .. n : i <= j => Dist(g, q, s[i]) <= Dist(g, q, s[j])
  BY DEF Sorted
<1> HIDE DEF n
<1>6. ASSUME NEW i \in 1 .. n + 1, NEW j \in 1 .. n + 1, i <= j
      PROVE  Dist(g, q, t[i]) <= Dist(g, q, t[j])
  <2>1. CASE j < p
    <3>1. i \in 1 .. n /\ j \in 1 .. n /\ i < p
      BY <1>2, <1>6, <2>1
    <3> QED  BY <1>1, <1>5, <1>6, <2>1, <3>1
  <2>2. CASE j = p
    <3>1. CASE i = p
      BY <1>1, <1>4, <2>2, <3>1
    <3>2. CASE i # p
      <4>1. i \in 1 .. n /\ i < p
        BY <1>2, <1>6, <2>2, <3>2
      <4> QED  BY <1>1, <2>2, <4>1
    <3> QED  BY <3>1, <3>2
  <2>3. CASE j > p
    <3>1. j - 1 \in 1 .. n /\ ~(j - 1 < p) /\ ~(j < p) /\ j # p
      BY <1>2, <2>3
    <3>2. t[j] = s[j - 1] /\ Dist(g, q, r) <= Dist(g, q, s[j - 1])
      BY <1>1, <3>1
    <3>3. CASE i < p
      <4>1. i \in 1 .. n /\ i <= j - 1
        BY <1>2, <1>6, <2>3, <3>3
      <4> QED  BY <1>1, <1>5, <3>1, <3>2, <3>3, <4>1
    <3>4. CASE i = p
      BY <1>1, <3>2, <3>4
    <3>5. CASE i > p
      <4>1. i - 1 \in 1 .. n /\ i - 1 <= j - 1 /\ ~(i < p) /\ i # p
        BY <1>2, <1>6, <3>5
      <4> QED  BY <1>1, <1>5, <3>1, <3>2, <4>1
    <3> QED  BY <1>1, <1>2, <3>3, <3>4, <3>5
  <2> QED  BY <1>1, <1>2, <2>1, <2>2, <2>3
<1>7. ASSUME NEW x
      PROVE  x \in ToSet(t) <=> x \in ToSet(s) \cup {r}
  <2>1. ASSUME NEW i \in 1 .. n + 1
        PROVE  t[i] \in ToSet(s) \cup {r}
    <3>1. \A k \in 1 .. n : s[k] \in ToSet(s)
      BY <1>2 DEF ToSet
    <3> QED  BY <1>b, <3>1
  <2>2. ASSUME NEW i \in 1 .. n
        PROVE  s[i] \in ToSet(t)
    <3>1. i \in 1 .. n + 1 /\ i + 1 \in 1 .. n + 1
      BY <1>2
    <3>2. t[i] \in ToSet(t) /\ t[i + 1] \in ToSet(t)
      BY <1>2, <3>1 DEF ToSet
    <3> QED  BY <1>a, <3>2
  <2>3. r \in ToSet(t)
    <3>1. t[p] \in ToSet(t)
      BY <1>2 DEF ToSet
    <3> QED  BY <1>a, <3>1
  <2>4. (x \in ToSet(t) <=> \E i \in 1 .. n + 1 : x = t[i])
        /\ (x \in ToSet(s) <=> \E i \in 1 .. n : x = s[i])
    BY <1>2 DEF ToSet
  <2> QED  BY <2>1, <2>2, <2>3, <2>4
<1>8. ASSUME IsInjective(s), r \notin ToSet(s), NEW i \in 1 .. n + 1, NEW j \in 1 .. n + 1,
             t[i] = t[j]
      PROVE  i = j
  <2>1. \A a, b \in 1 .. n : s[a] = s[b] => a = b
    BY <1>2, <1>8 DEF IsInjective
  <2>2. \A a \in 1 .. n : s[a] # r
    BY <1>2, <1>8 DEF ToSet
  <2>3. CASE i \in 1 .. n /\ i < p /\ t[i] = s[i]
    <3>1. CASE j \in 1 .. n /\ j < p /\ t[j] = s[j]
      BY <1>8, <2>1, <2>3, <3>1
    <3>2. CASE j = p /\ t[j] = r
      BY <1>8, <2>2, <2>3, <3>2
    <3>3. CASE j - 1 \in 1 .. n /\ j > p /\ t[j] = s[j - 1]
      <4>1. i = j - 1
        BY <1>8, <2>1, <2>3, <3>3
      <4> QED  BY <1>2, <2>3, <3>3, <4>1
    <3> QED  BY <1>b, <3>1, <3>2, <3>3
  <2>4. CASE i = p /\ t[i] = r
    <3>1. CASE j \in 1 .. n /\ j < p /\ t[j] = s[j]
      BY <1>8, <2>2, <2>4, <3>1
    <3>2. CASE j = p /\ t[j] = r
      BY <2>4, <3>2
    <3>3. CASE j - 1 \in 1 .. n /\ j > p /\ t[j] = s[j - 1]
      BY <1>8, <2>2, <2>4, <3>3
    <3> QED  BY <1>b, <3>1, <3>2, <3>3
  <2>5. CASE i - 1 \in 1 .. n /\ i > p /\ t[i] = s[i - 1]
    <3>1. CASE j \in 1 .. n /\ j < p /\ t[j] = s[j]
      <4>1. i - 1 = j
        BY <1>8, <2>1, <2>5, <3>1
      <4> QED  BY <1>2, <2>5, <3>1, <4>1
    <3>2. CASE j = p /\ t[j] = r
      BY <1>8, <2>2, <2>5, <3>2
    <3>3. CASE j - 1 \in 1 .. n /\ j > p /\ t[j] = s[j - 1]
      <4>1. i - 1 = j - 1
        BY <1>8, <2>1, <2>5, <3>3
      <4> QED  BY <1>2, <4>1
    <3> QED  BY <1>b, <3>1, <3>2, <3>3
  <2> QED  BY <1>b, <2>3, <2>4, <2>5
<1>9. Sorted(g, q, t)
  BY <1>1, <1>6 DEF Sorted
<1>10. IsInjective(s) /\ r \notin ToSet(s) => IsInjective(t)
  BY <1>2, <1>8 DEF IsInjective
<1>11. ToSet(t) = ToSet(s) \cup {r}
  BY <1>7
<1>12. t \in Seq(1 .. Len(g.nodes)) /\ Len(t) = n + 1
  BY <1>1
<1>13. PutIn(g, q, s, r, t)
  BY <1>9, <1>10, <1>11, <1>12 DEF PutIn, n
<1> QED  BY <1>13 DEF t

\* List t is the given list, sorted, without the rows that are not admitted.
SortedOut(g, q, list, admitted, t) ==
  /\ t \in Seq(1 .. Len(g.nodes)) /\ Len(t) <= Len(list) /\ Sorted(g, q, t)
  /\ ToSet(t) = ToSet(list) \cap admitted
  /\ IsInjective(list) => IsInjective(t)

LEMMA SortIs ==
  ASSUME NEW g, Positioned(g), NEW q \in Points, NEW list \in Seq(1 .. Len(g.nodes)),
         NEW admitted
  PROVE  SortedOut(g, q, list, admitted, Sort(g, q, list, admitted))
<1> DEFINE n == Len(list)
           S == 1 .. Len(g.nodes)
           Next1(x, i) == IF list[i] \in admitted THEN Place(g, q, x, list[i]) ELSE x
           F(h) == [i \in 0 .. n |-> IF i = 0 THEN <<>>
                                     ELSE IF list[i] \in admitted
                                     THEN Place(g, q, h[i - 1], list[i])
                                     ELSE h[i - 1]]
           sorted == CHOOSE h : h = F(h)
           D == [i \in 0 .. n |->
                   {x \in Seq(S) :
                      /\ Len(x) <= i /\ Sorted(g, q, x)
                      /\ ToSet(x) = {list[j] : j \in 1 .. i} \cap admitted
                      /\ IsInjective(list) => IsInjective(x)}]
           step == [i \in 1 .. n |-> [x \in D[i - 1] |-> Next1(x, i)]]
<1>0. Sort(g, q, list, admitted) = sorted[n]
  BY DEF Sort
<1>1. n \in Nat
  OBVIOUS
<1>2. ASSUME NEW i \in 1 .. n, NEW x \in D[i - 1]
      PROVE  Next1(x, i) \in D[i]
  <2>1. /\ i \in 0 .. n /\ i - 1 \in 0 .. n /\ list[i] \in S
        /\ \A j : j \in 1 .. i <=> j \in 1 .. i - 1 \/ j = i
    BY <1>1
  <2>2. /\ x \in Seq(S) /\ Len(x) <= i - 1 /\ Sorted(g, q, x)
        /\ ToSet(x) = {list[j] : j \in 1 .. i - 1} \cap admitted
        /\ IsInjective(list) => IsInjective(x)
    BY <2>1
  <2>3. {list[j] : j \in 1 .. i} = {list[j] : j \in 1 .. i - 1} \cup {list[i]}
    BY <2>1
  <2>4. IsInjective(list) => list[i] \notin {list[j] : j \in 1 .. i - 1}
    BY <1>1 DEF IsInjective
  <2> DEFINE y == Next1(x, i)
  <2>5. /\ y \in Seq(S) /\ Len(y) <= i /\ Sorted(g, q, y)
        /\ ToSet(y) = {list[j] : j \in 1 .. i} \cap admitted
        /\ IsInjective(list) => IsInjective(y)
    <3>1. CASE list[i] \in admitted
      <4>1. y = Place(g, q, x, list[i])
        BY <3>1
      <4>2. /\ y \in Seq(S) /\ Len(y) = Len(x) + 1 /\ Sorted(g, q, y)
            /\ ToSet(y) = ToSet(x) \cup {list[i]}
            /\ IsInjective(x) /\ list[i] \notin ToSet(x) => IsInjective(y)
        <5>1. x \in Seq(1 .. Len(g.nodes)) /\ Sorted(g, q, x)
          BY <2>2
        <5>2. list[i] \in 1 .. Len(g.nodes)
          BY <2>1
        <5>3. PutIn(g, q, x, list[i], Place(g, q, x, list[i]))
          BY <5>1, <5>2, Placed
        <5> HIDE DEF y, D
        <5> QED  BY <4>1, <5>3 DEF PutIn
      <4>3. Len(y) <= i
        BY <1>1, <2>2, <4>2
      <4> QED  BY <2>2, <2>3, <2>4, <3>1, <4>2, <4>3
    <3>2. CASE list[i] \notin admitted
      <4>1. y = x
        BY <3>2
      <4>2. Len(x) <= i
        BY <1>1, <2>2
      <4> HIDE DEF y
      <4> QED  BY <2>2, <2>3, <3>2, <4>1, <4>2
    <3> QED  BY <3>1, <3>2
  <2> HIDE DEF y
  <2> QED  BY <2>1, <2>5 DEF y
<1>3. <<>> \in D[0]
  <2>1. ToSet(<<>>) = {} /\ {list[j] : j \in 1 .. 0} = {}
    BY DEF ToSet
  <2>2. Sorted(g, q, <<>>) /\ IsInjective(<<>>)
    BY DEF Sorted, IsInjective
  <2> QED  BY <1>1, <2>1, <2>2
<1>4. Takes(n, D, step)
  <2> HIDE DEF D, Next1
  <2> QED  BY <1>2 DEF Takes
<1>5. PICK T, k : k \in [0 .. n -> T] /\ Run(n, D, <<>>, step, k)
  <2> HIDE DEF n, D, step
  <2> QED  BY <1>1, <1>3, <1>4, Iterates
<1>6. k = F(k)
  <2>1. ASSUME NEW i \in 1 .. n
        PROVE  k[i] = Next1(k[i - 1], i)
    <3>1. i - 1 \in 0 .. n
      BY <1>1
    <3> HIDE DEF D, Next1
    <3>2. k[i - 1] \in D[i - 1]
      BY <1>5, <3>1 DEF Run
    <3> QED  BY <1>5, <3>2 DEF Run
  <2>2. \A i \in 0 .. n : i = 0 \/ i \in 1 .. n
    BY <1>1
  <2>3. k[0] = <<>>
    BY <1>5 DEF Run
  <2> QED  BY <1>5, <2>1, <2>2, <2>3
<1>7. sorted = F(sorted)
  <2> HIDE DEF F
  <2> QED  BY <1>6
<1> HIDE DEF sorted
<1>8. sorted[n] \in D[n]
  <2>1. ASSUME NEW i \in 1 .. n, sorted[i - 1] \in D[i - 1]
        PROVE  sorted[i] \in D[i]
    <3>1. i \in 0 .. n /\ i # 0
      BY <1>1
    <3>2. sorted[i] = Next1(sorted[i - 1], i)
      BY <1>7, <3>1
    <3> HIDE DEF D, Next1
    <3> QED  BY <1>2, <2>1, <3>2
  <2>2. sorted[0] \in D[0]
    BY <1>1, <1>3, <1>7
  <2> HIDE DEF D, F, n
  <2>3. \A i \in 0 .. n : sorted[i] \in D[i]
    BY <1>1, <2>1, <2>2, Stays
  <2> QED  BY <1>1, <2>3
<1>9. /\ ToSet(list) = {list[j] : j \in 1 .. n}
      /\ n \in 0 .. n
  <2>1. DOMAIN list = 1 .. n
    OBVIOUS
  <2> HIDE DEF n
  <2> QED  BY <1>1, <2>1 DEF ToSet
<1> DEFINE t == sorted[n]
<1>10. /\ t \in Seq(S) /\ Len(t) <= n /\ Sorted(g, q, t)
       /\ ToSet(t) = ToSet(list) \cap admitted
       /\ IsInjective(list) => IsInjective(t)
  BY <1>8, <1>9
<1> HIDE DEF t
<1>11. SortedOut(g, q, list, admitted, t)
  BY <1>10 DEF SortedOut
<1> QED  BY <1>0, <1>11 DEF t

LEMMA TailIs ==
  ASSUME NEW S, NEW s \in Seq(S), s # <<>>
  PROVE  /\ Head(s) \in S /\ Tail(s) \in Seq(S) /\ Len(Tail(s)) = Len(s) - 1
         /\ ToSet(s) = {Head(s)} \cup ToSet(Tail(s))
         /\ \A i \in 1 .. Len(s) - 1 : Tail(s)[i] = s[i + 1]
<1>1. /\ Head(s) \in S /\ Tail(s) \in Seq(S) /\ Len(Tail(s)) = Len(s) - 1
      /\ Len(s) \in Nat \ {0} /\ Head(s) = s[1]
      /\ \A i \in 1 .. Len(s) - 1 : Tail(s)[i] = s[i + 1]
  OBVIOUS
<1> DEFINE t == Tail(s)
<1> HIDE DEF t
<1>2. \A x : x \in ToSet(s) <=> \E i \in 1 .. Len(s) : x = s[i]
  BY InSet
<1>3. \A x : x \in ToSet(t) <=> \E i \in 1 .. Len(s) - 1 : x = t[i]
  <2>1. t \in Seq(S) /\ Len(t) = Len(s) - 1
    BY <1>1 DEF t
  <2> QED  BY <2>1, InSet
<1>4. \A i \in 1 .. Len(s) - 1 : t[i] = s[i + 1] /\ i + 1 \in 1 .. Len(s)
  BY <1>1 DEF t
<1>5. ASSUME NEW x \in ToSet(s)
      PROVE  x = s[1] \/ x \in ToSet(t)
  <2>1. PICK i \in 1 .. Len(s) : x = s[i]
    BY <1>2
  <2>2. CASE i = 1
    BY <2>1, <2>2
  <2>3. CASE i # 1
    <3>1. PICK j \in 1 .. Len(s) - 1 : j + 1 = i
      BY <1>1, <2>3
    <3> QED  BY <1>3, <1>4, <2>1, <3>1
  <2> QED  BY <2>2, <2>3
<1>6. s[1] \in ToSet(s) /\ \A x \in ToSet(t) : x \in ToSet(s)
  <2>1. s[1] \in ToSet(s)
    BY <1>1, <1>2
  <2>2. ASSUME NEW x \in ToSet(t)
        PROVE  x \in ToSet(s)
    <3>1. PICK i \in 1 .. Len(s) - 1 : x = t[i]
      BY <1>3
    <3> QED  BY <1>2, <1>4, <3>1
  <2> QED  BY <2>1, <2>2
<1> QED  BY <1>1, <1>5, <1>6 DEF t

LEMMA FrontIs ==
  ASSUME NEW S, NEW s \in Seq(S), Len(s) > 1
  PROVE  /\ Front(s) \in Seq(S) /\ Len(Front(s)) = Len(s) - 1
         /\ ToSet(Front(s)) \subseteq ToSet(s)
         /\ \A i \in 1 .. Len(s) - 1 : Front(s)[i] = s[i]
<1>1. /\ Front(s) \in Seq(S) /\ Len(Front(s)) = Len(s) - 1
      /\ \A i \in 1 .. Len(s) - 1 : Front(s)[i] = s[i]
  BY DEF Front
<1>2. ASSUME NEW x \in ToSet(Front(s))
      PROVE  x \in ToSet(s)
  <2>1. PICK i \in 1 .. Len(s) - 1 : x = Front(s)[i]
    BY <1>1, InSet
  <2>2. i \in 1 .. Len(s) /\ x = s[i]
    BY <1>1, <2>1
  <2> QED  BY <2>2, InSet
<1> QED  BY <1>1, <1>2

\* A sorted list stays so without its first or its last row.
LEMMA SortedParts ==
  ASSUME NEW g, NEW q, NEW S, NEW s \in Seq(S), Sorted(g, q, s)
  PROVE  /\ s # <<>> => Sorted(g, q, Tail(s))
         /\ Len(s) > 1 => Sorted(g, q, Front(s))
<1>1. Len(s) \in Nat /\ (Len(s) = 0 <=> s = <<>>)
  OBVIOUS
<1>2. ASSUME s # <<>>
      PROVE  Sorted(g, q, Tail(s))
  <2>1. Len(Tail(s)) = Len(s) - 1 /\ \A i \in 1 .. Len(s) - 1 : Tail(s)[i] = s[i + 1]
    BY <1>2, TailIs
  <2> DEFINE t == Tail(s)
  <2> HIDE DEF t
  <2>2. ASSUME NEW i \in 1 .. Len(s) - 1, NEW j \in 1 .. Len(s) - 1, i <= j
        PROVE  Dist(g, q, t[i]) <= Dist(g, q, t[j])
    <3>1. PICK a \in 1 .. Len(s) : a = i + 1
      BY <1>1
    <3>2. PICK b \in 1 .. Len(s) : b = j + 1
      BY <1>1
    <3>3. a <= b /\ t[i] = s[a] /\ t[j] = s[b]
      BY <1>1, <2>1, <2>2, <3>1, <3>2 DEF t
    <3> QED  BY <3>3 DEF Sorted
  <2>3. Sorted(g, q, t)
    BY <2>1, <2>2 DEF Sorted, t
  <2> QED  BY <2>3 DEF t
<1>3. ASSUME Len(s) > 1
      PROVE  Sorted(g, q, Front(s))
  <2>1. Len(Front(s)) = Len(s) - 1 /\ \A i \in 1 .. Len(s) - 1 : Front(s)[i] = s[i]
    BY <1>3, FrontIs
  <2>2. ASSUME NEW i \in 1 .. Len(s) - 1, NEW j \in 1 .. Len(s) - 1, i <= j
        PROVE  Dist(g, q, Front(s)[i]) <= Dist(g, q, Front(s)[j])
    <3>1. i \in 1 .. Len(s) /\ j \in 1 .. Len(s)
      BY <1>1
    <3>2. Front(s)[i] = s[i] /\ Front(s)[j] = s[j]
      BY <2>1
    <3> QED  BY <2>2, <3>1, <3>2 DEF Sorted
  <2> QED  BY <2>1, <2>2 DEF Sorted
<1> QED  BY <1>2, <1>3

LEMMA SortedEnds ==
  ASSUME NEW g, NEW q, NEW S, NEW s \in Seq(S), Sorted(g, q, s), s # <<>>
  PROVE  /\ s[1] \in ToSet(s) /\ Last(s) \in ToSet(s) /\ Head(s) = s[1]
         /\ \A x \in ToSet(s) : Dist(g, q, s[1]) <= Dist(g, q, x)
                                /\ Dist(g, q, x) <= Dist(g, q, Last(s))
<1>1. Len(s) \in Nat \ {0} /\ Head(s) = s[1] /\ 1 \in 1 .. Len(s) /\ Len(s) \in 1 .. Len(s)
  OBVIOUS
<1>2. ASSUME NEW x \in ToSet(s)
      PROVE  Dist(g, q, s[1]) <= Dist(g, q, x) /\ Dist(g, q, x) <= Dist(g, q, Last(s))
  <2>1. PICK i \in 1 .. Len(s) : x = s[i]
    BY InSet
  <2>2. 1 <= i /\ i <= Len(s)
    BY <1>1
  <2> QED  BY <1>1, <2>1, <2>2 DEF Sorted, Last
<1>3. s[1] \in ToSet(s) /\ Last(s) \in ToSet(s)
  BY <1>1, InSet DEF Last
<1> QED  BY <1>1, <1>2, <1>3

-----------------------------------------------------------------------------
(* search_layer, one turn at a time.                                       *)

\* A row that may be queued takes part in the layer and is not to be skipped.
Queued(g, skip, l) == OnLayer(g, l) \ skip

BeamSound(g, q, skip, l, b) ==
  /\ b = [cands |-> b.cands, best |-> b.best, visited |-> b.visited, todo |-> b.todo]
  /\ b.cands \in Seq(Queued(g, skip, l)) /\ Sorted(g, q, b.cands)
  /\ b.best \in Seq(Queued(g, skip, l)) /\ Sorted(g, q, b.best)
  /\ b.visited \subseteq 1 .. Len(g.nodes)
  /\ b.todo \in Seq(OnLayer(g, l))

\* What a turn from beam b to beam c can be: the search has ended, a candidate
\* is expanded, a neighbour is passed over, or a neighbour is queued.
Halts(g, q, ef, b) == b.todo = <<>> /\ Stopped(g, q, ef, b)

Expands(g, q, ef, l, b, c) ==
  /\ b.todo = <<>> /\ ~Stopped(g, q, ef, b) /\ b.cands # <<>>
  /\ c.cands = Tail(b.cands) /\ c.best = b.best /\ c.visited = b.visited
  /\ c.todo = Links(g, Head(b.cands), l)

Passes(g, q, ef, skip, b, c) ==
  /\ b.todo # <<>> /\ c.todo = Tail(b.todo)
  /\ c.cands = b.cands /\ c.best = b.best
  /\ c.visited = b.visited \cup {Head(b.todo)}
  /\ \/ Head(b.todo) \in b.visited
     \/ Head(b.todo) \in skip
     \/ /\ Len(b.best) >= ef
        /\ Dist(g, q, Head(b.todo)) >= Dist(g, q, Last(b.best))

Queues(g, q, ef, skip, l, b, c) ==
  /\ b.todo # <<>> /\ c.todo = Tail(b.todo)
  /\ Head(b.todo) \in Queued(g, skip, l) \ b.visited
  /\ c.visited = b.visited \cup {Head(b.todo)}
  /\ c.cands = Place(g, q, b.cands, Head(b.todo))
  /\ LET wider == Place(g, q, b.best, Head(b.todo))
     IN  c.best = IF Len(wider) > ef THEN Front(wider) ELSE wider

LEMMA TurnIs ==
  ASSUME NEW g, Sound(g), NEW q \in Points, NEW ef, NEW skip, NEW l \in Nat,
         NEW b, BeamSound(g, q, skip, l, b)
  PROVE  LET c == Turn(g, q, ef, skip, l, b)
         IN  /\ c = [cands |-> c.cands, best |-> c.best, visited |-> c.visited,
                     todo |-> c.todo]
             /\ \/ Halts(g, q, ef, b) /\ c = b
                \/ Expands(g, q, ef, l, b, c)
                \/ Passes(g, q, ef, skip, b, c)
                \/ Queues(g, q, ef, skip, l, b, c)
<1> DEFINE c == Turn(g, q, ef, skip, l, b)
           n == Head(b.todo)
           wider == Place(g, q, b.best, n)
<1>1. /\ b = [cands |-> b.cands, best |-> b.best, visited |-> b.visited, todo |-> b.todo]
      /\ b.cands \in Seq(Queued(g, skip, l)) /\ b.todo \in Seq(OnLayer(g, l))
  BY DEF BeamSound
<1>2. CASE b.todo # <<>>
  <2>1. c = Visit(g, q, ef, skip, b, n)
    BY <1>2 DEF Turn
  <2>2. n \in OnLayer(g, l)
    BY <1>1, <1>2, TailIs
  <2>3. PICK a, d, v, t : b = [cands |-> a, best |-> d, visited |-> v, todo |-> t]
    BY <1>1
  <2>4. b.cands = a /\ b.best = d /\ b.visited = v /\ b.todo = t
    BY <2>3
  <2>5. [b EXCEPT !.visited = b.visited \cup {n}, !.todo = Tail(b.todo)] =
          [cands |-> a, best |-> d, visited |-> v \cup {n}, todo |-> Tail(t)]
    <3> HIDE DEF n
    <3> DEFINE u == v \cup {n}
               w == Tail(t)
    <3>1. u = b.visited \cup {n} /\ w = Tail(b.todo)
      BY <2>4
    <3> HIDE DEF u, w
    <3>2. [b EXCEPT !.visited = u, !.todo = w] =
            [cands |-> a, best |-> d, visited |-> u, todo |-> w]
      <4>1. PICK x : x = [b EXCEPT !.visited = u]
        OBVIOUS
      <4>2. x = [cands |-> a, best |-> d, visited |-> u, todo |-> t]
        BY ONLY <2>3, <4>1
      <4>3. [x EXCEPT !.todo = w] = [cands |-> a, best |-> d, visited |-> u, todo |-> w]
        BY ONLY <4>2
      <4> QED  BY ONLY <4>1, <4>3
    <3> QED  BY <3>1, <3>2 DEF u, w
  <2>6. CASE \/ n \in b.visited
             \/ n \in skip
             \/ Len(b.best) >= ef /\ Dist(g, q, n) >= Dist(g, q, Last(b.best))
    <3>1. c = [cands |-> a, best |-> d, visited |-> v \cup {n}, todo |-> Tail(t)]
      BY <2>1, <2>5, <2>6 DEF Visit
    <3> HIDE DEF c, n
    <3> QED  BY <1>2, <2>4, <2>6, <3>1 DEF Passes, n, c
  <2>7. CASE ~ \/ n \in b.visited
               \/ n \in skip
               \/ Len(b.best) >= ef /\ Dist(g, q, n) >= Dist(g, q, Last(b.best))
    <3>1. c = [cands |-> Place(g, q, a, n),
               best |-> IF Len(wider) > ef THEN Front(wider) ELSE wider,
               visited |-> v \cup {n}, todo |-> Tail(t)]
      BY <2>1, <2>5, <2>7 DEF Visit
    <3>2. n \in Queued(g, skip, l) \ b.visited
      BY <2>2, <2>7 DEF Queued
    <3> HIDE DEF c, n
    <3> QED  BY <1>2, <2>4, <3>1, <3>2 DEF Queues, n, c
  <2> QED  BY <2>6, <2>7
<1>3. CASE b.todo = <<>> /\ Stopped(g, q, ef, b)
  <2>1. c = b
    BY <1>3 DEF Turn
  <2> QED  BY <1>1, <1>3, <2>1 DEF Halts
<1>4. CASE b.todo = <<>> /\ ~Stopped(g, q, ef, b)
  <2>1. b.cands # <<>>
    BY <1>4 DEF Stopped
  <2>2. c = Expand(g, l, b)
    BY <1>4 DEF Turn
  <2> DEFINE r == Head(b.cands)
  <2>3. r \in OnLayer(g, l)
    BY <1>1, <2>1, TailIs DEF Queued
  <2>4. ~(g.nodes[r].level < l)
    <3> HIDE DEF r
    <3> QED  BY <2>3, LevelIs
  <2>5. c = [b EXCEPT !.cands = Tail(@), !.todo = Links(g, r, l)]
    BY <2>2, <2>4 DEF Expand
  <2>6. c = [cands |-> Tail(b.cands), best |-> b.best, visited |-> b.visited,
             todo |-> Links(g, r, l)]
    BY <1>1, <2>5
  <2> HIDE DEF c, r
  <2> QED  BY <1>4, <2>1, <2>6 DEF Expands, c, r
<1> QED  BY <1>2, <1>3, <1>4

\* The rows that a turn queues and the list they end up in.
HasQueued(g, q, ef, skip, l, b, c) ==
  /\ c.cands \in Seq(Queued(g, skip, l)) /\ Sorted(g, q, c.cands)
  /\ Len(c.cands) = Len(b.cands) + 1
  /\ ToSet(c.cands) = ToSet(b.cands) \cup {Head(b.todo)}
  /\ c.best \in Seq(Queued(g, skip, l)) /\ Sorted(g, q, c.best)
  /\ ToSet(c.best) \subseteq ToSet(b.best) \cup {Head(b.todo)}
  /\ IF Len(b.best) < ef
     THEN /\ Len(c.best) = Len(b.best) + 1
          /\ ToSet(c.best) = ToSet(b.best) \cup {Head(b.todo)}
     ELSE Len(c.best) = Len(b.best)
  /\ c.best # <<>>
  /\ \A x \in ToSet(b.best) \cup {Head(b.todo)} : Dist(g, q, c.best[1]) <= Dist(g, q, x)

LEMMA QueuesAre ==
  ASSUME NEW g, Sound(g), NEW q \in Points, NEW ef \in Nat \ {0}, NEW skip, NEW l \in Nat,
         NEW b, BeamSound(g, q, skip, l, b), NEW c, Queues(g, q, ef, skip, l, b, c)
  PROVE  HasQueued(g, q, ef, skip, l, b, c)
<1> DEFINE n == Head(b.todo)
           wider == Place(g, q, b.best, n)
           A == Queued(g, skip, l)
           R == 1 .. Len(g.nodes)
<1>1. /\ A \subseteq R /\ n \in A /\ n \in R
      /\ b.cands \in Seq(A) /\ Sorted(g, q, b.cands) /\ b.cands \in Seq(R)
      /\ b.best \in Seq(A) /\ Sorted(g, q, b.best) /\ b.best \in Seq(R)
  <2>1. A \subseteq R
    BY DEF Queued, OnLayer
  <2>2. n \in A
    BY DEF Queues
  <2>3. /\ b.cands \in Seq(A) /\ Sorted(g, q, b.cands)
        /\ b.best \in Seq(A) /\ Sorted(g, q, b.best)
    BY DEF BeamSound
  <2> HIDE DEF A, R, n
  <2> QED  BY <2>1, <2>2, <2>3
<1>2. /\ c.cands = Place(g, q, b.cands, n)
      /\ c.best = IF Len(wider) > ef THEN Front(wider) ELSE wider
  BY DEF Queues
<1> HIDE DEF n
<1>3. /\ c.cands \in Seq(R) /\ Len(c.cands) = Len(b.cands) + 1 /\ Sorted(g, q, c.cands)
      /\ ToSet(c.cands) = ToSet(b.cands) \cup {n}
  <2>1. /\ b.cands \in Seq(1 .. Len(g.nodes)) /\ Sorted(g, q, b.cands)
        /\ n \in 1 .. Len(g.nodes)
    BY <1>1
  <2>2. c.cands = Place(g, q, b.cands, n)
    BY <1>2
  <2>3. PutIn(g, q, b.cands, n, c.cands)
    BY <2>1, <2>2, Placed, SoundIsPositioned
  <2> QED  BY <2>3 DEF PutIn
<1>4. /\ wider \in Seq(R) /\ Len(wider) = Len(b.best) + 1 /\ Sorted(g, q, wider)
      /\ ToSet(wider) = ToSet(b.best) \cup {n}
  <2>1. /\ b.best \in Seq(1 .. Len(g.nodes)) /\ Sorted(g, q, b.best)
        /\ n \in 1 .. Len(g.nodes)
    BY <1>1
  <2>2. PutIn(g, q, b.best, n, wider)
    BY <2>1, Placed, SoundIsPositioned
  <2> HIDE DEF wider
  <2> QED  BY <2>2 DEF PutIn
<1> HIDE DEF A, R, wider
<1>5. \A s : s \in Seq(R) /\ ToSet(s) \subseteq A => s \in Seq(A)
  BY InSet
<1>6. ToSet(b.cands) \subseteq A /\ ToSet(b.best) \subseteq A
  BY <1>1, InSet
<1>7. Len(b.best) \in Nat /\ Len(wider) \in Nat /\ (Len(wider) = 0 <=> wider = <<>>)
  BY <1>1, <1>4
<1>8. wider # <<>> /\ \A x \in ToSet(wider) : Dist(g, q, wider[1]) <= Dist(g, q, x)
  BY <1>4, <1>7, SortedEnds
<1>9. CASE Len(b.best) < ef
  <2>1. c.best = wider
    BY <1>2, <1>4, <1>7, <1>9
  <2> QED  BY <1>1, <1>3, <1>4, <1>5, <1>6, <1>8, <1>9, <2>1 DEF n, A, HasQueued
<1>10. CASE ~(Len(b.best) < ef)
  <2>1. c.best = Front(wider) /\ Len(wider) > 1
    BY <1>2, <1>4, <1>7, <1>10
  <2>2. /\ c.best \in Seq(R) /\ Len(c.best) = Len(wider) - 1
        /\ ToSet(c.best) \subseteq ToSet(wider)
        /\ \A i \in 1 .. Len(wider) - 1 : c.best[i] = wider[i]
        /\ Sorted(g, q, c.best)
    <3>1. /\ Front(wider) \in Seq(R) /\ Len(Front(wider)) = Len(wider) - 1
          /\ ToSet(Front(wider)) \subseteq ToSet(wider)
          /\ \A i \in 1 .. Len(wider) - 1 : Front(wider)[i] = wider[i]
      BY <1>4, <2>1, FrontIs
    <3>2. Sorted(g, q, Front(wider))
      BY <1>4, <2>1, SortedParts
    <3> QED  BY <2>1, <3>1, <3>2
  <2>3. c.best[1] = wider[1] /\ Len(c.best) = Len(b.best) /\ c.best # <<>>
    BY <1>4, <1>7, <2>1, <2>2
  <2> QED  BY <1>1, <1>3, <1>4, <1>5, <1>6, <1>8, <1>10, <2>2, <2>3 DEF n, A, HasQueued
<1> QED  BY <1>9, <1>10

LEMMA TurnStays ==
  ASSUME NEW g, Sound(g), NEW q \in Points, NEW ef \in Nat \ {0}, NEW skip, NEW l \in Nat,
         NEW b, BeamSound(g, q, skip, l, b)
  PROVE  BeamSound(g, q, skip, l, Turn(g, q, ef, skip, l, b))
<1> DEFINE c == Turn(g, q, ef, skip, l, b)
<1>1. /\ c = [cands |-> c.cands, best |-> c.best, visited |-> c.visited, todo |-> c.todo]
      /\ \/ Halts(g, q, ef, b) /\ c = b
         \/ Expands(g, q, ef, l, b, c)
         \/ Passes(g, q, ef, skip, b, c)
         \/ Queues(g, q, ef, skip, l, b, c)
  BY TurnIs
<1> SUFFICES BeamSound(g, q, skip, l, c)
  OBVIOUS
<1> HIDE DEF c
<1>2. /\ b.cands \in Seq(Queued(g, skip, l)) /\ Sorted(g, q, b.cands)
      /\ b.best \in Seq(Queued(g, skip, l)) /\ Sorted(g, q, b.best)
      /\ b.visited \subseteq 1 .. Len(g.nodes) /\ b.todo \in Seq(OnLayer(g, l))
  BY DEF BeamSound
<1>3. b.todo # <<>> => /\ Head(b.todo) \in OnLayer(g, l)
                       /\ Head(b.todo) \in 1 .. Len(g.nodes)
                       /\ Tail(b.todo) \in Seq(OnLayer(g, l))
  <2>1. OnLayer(g, l) \subseteq 1 .. Len(g.nodes)
    BY DEF OnLayer
  <2> QED  BY <1>2, <2>1, TailIs
<1>4. CASE c = b
  BY <1>4
<1>5. CASE Expands(g, q, ef, l, b, c)
  <2>1. /\ Head(b.cands) \in OnLayer(g, l)
        /\ Tail(b.cands) \in Seq(Queued(g, skip, l)) /\ Sorted(g, q, Tail(b.cands))
    BY <1>2, <1>5, TailIs, SortedParts DEF Expands, Queued
  <2>2. Links(g, Head(b.cands), l) \in Seq(OnLayer(g, l))
    <3> DEFINE r == Head(b.cands)
    <3>1. Links(g, r, l) \in Seq(OnLayer(g, l) \ {r})
      BY <2>1, LinksAre
    <3> HIDE DEF r
    <3>2. Links(g, r, l) \in Seq(OnLayer(g, l))
      BY <3>1
    <3> QED  BY <3>2 DEF r
  <2> QED  BY <1>1, <1>2, <1>5, <2>1, <2>2 DEF BeamSound, Expands
<1>6. CASE Passes(g, q, ef, skip, b, c)
  BY <1>1, <1>2, <1>3, <1>6 DEF BeamSound, Passes
<1>7. CASE Queues(g, q, ef, skip, l, b, c)
  <2>1. /\ c.cands \in Seq(Queued(g, skip, l)) /\ Sorted(g, q, c.cands)
        /\ c.best \in Seq(Queued(g, skip, l)) /\ Sorted(g, q, c.best)
    BY <1>7, QueuesAre DEF HasQueued
  <2>2. c.todo \in Seq(OnLayer(g, l)) /\ c.visited \subseteq 1 .. Len(g.nodes)
    BY <1>2, <1>3, <1>7 DEF Queues
  <2> QED  BY <1>1, <2>1, <2>2 DEF BeamSound
<1> QED  BY <1>1, <1>4, <1>5, <1>6, <1>7

LEMMA EnterStays ==
  ASSUME NEW g, Sound(g), NEW q \in Points, NEW skip, NEW l \in Nat,
         NEW entries \in Seq(OnLayer(g, l))
  PROVE  LET b == EnterBeam(g, q, entries, skip)
         IN  /\ BeamSound(g, q, skip, l, b)
             /\ b.cands = b.best /\ b.visited = {} /\ b.todo = <<>>
             /\ ToSet(b.best) = ToSet(entries) \ skip
             /\ Len(b.best) <= Len(entries)
<1> DEFINE s == Sort(g, q, entries, Rows(g) \ skip)
           R == 1 .. Len(g.nodes)
<1>1. Rows(g) = R
  BY DEF Rows, Sound
<1>2. entries \in Seq(R) /\ ToSet(entries) \subseteq OnLayer(g, l) /\ OnLayer(g, l) \subseteq R
  <2>1. OnLayer(g, l) \subseteq R
    BY DEF OnLayer
  <2> HIDE DEF R
  <2> QED  BY <2>1, InSet
<1>3. /\ s \in Seq(R) /\ Len(s) <= Len(entries) /\ Sorted(g, q, s)
      /\ ToSet(s) = ToSet(entries) \cap (Rows(g) \ skip)
  <2>1. SortedOut(g, q, entries, Rows(g) \ skip, s)
    BY <1>2, SortIs, SoundIsPositioned
  <2> HIDE DEF s
  <2> QED  BY <2>1 DEF SortedOut
<1> HIDE DEF s, R
<1>4. ToSet(s) = ToSet(entries) \ skip /\ ToSet(s) \subseteq Queued(g, skip, l)
  BY <1>1, <1>2, <1>3 DEF Queued
<1>5. s \in Seq(Queued(g, skip, l))
  BY <1>3, <1>4, InSet
<1>6. EnterBeam(g, q, entries, skip) = [cands |-> s, best |-> s, visited |-> {}, todo |-> <<>>]
  BY DEF EnterBeam, s
<1> QED  BY <1>3, <1>4, <1>5, <1>6 DEF BeamSound

\* The beam of search_layer after each turn.
Beams(g, q, ef, entries, skip, l) ==
  LET beam[i \in 0 .. Turns(g, entries)] ==
        IF i = 0 THEN EnterBeam(g, q, entries, skip)
                 ELSE Turn(g, q, ef, skip, l, beam[i - 1])
  IN  beam

LEMMA SearchIs ==
  ASSUME NEW g, NEW q, NEW ef, NEW entries, NEW skip, NEW l
  PROVE  SearchLayer(g, q, ef, entries, skip, l) =
           Beams(g, q, ef, entries, skip, l)[Turns(g, entries)].best
BY DEF SearchLayer, Beams

LEMMA TurnsAreNat ==
  ASSUME NEW g, Sound(g), NEW S, NEW entries \in Seq(S)
  PROVE  Turns(g, entries) \in Nat
<1>1. Len(entries) + Len(g.nodes) \in Nat /\ 1 + 2 * M \in Nat
  BY DegreeAssumption DEF Sound
<1>2. \A a, b \in Nat : a * b \in Nat
  OBVIOUS
<1> QED  BY <1>1, <1>2 DEF Turns

LEMMA BeamsAre ==
  ASSUME NEW g, Sound(g), NEW q \in Points, NEW ef \in Nat \ {0}, NEW skip, NEW l \in Nat,
         NEW entries \in Seq(OnLayer(g, l))
  PROVE  LET B == Beams(g, q, ef, entries, skip, l)
         IN  /\ B[0] = EnterBeam(g, q, entries, skip)
             /\ \A i \in 1 .. Turns(g, entries) : B[i] = Turn(g, q, ef, skip, l, B[i - 1])
             /\ \A i \in 0 .. Turns(g, entries) : BeamSound(g, q, skip, l, B[i])
<1> DEFINE n == Turns(g, entries)
           base == EnterBeam(g, q, entries, skip)
           Next1(x) == Turn(g, q, ef, skip, l, x)
           F(h) == [i \in 0 .. n |-> IF i = 0 THEN base ELSE Next1(h[i - 1])]
           beam == CHOOSE h : h = F(h)
           A == Queued(g, skip, l)
           Fit == {x \in [cands : Seq(A), best : Seq(A), visited : SUBSET (1 .. Len(g.nodes)),
                          todo : Seq(OnLayer(g, l))] : BeamSound(g, q, skip, l, x)}
           D == [i \in 0 .. n |-> Fit]
           step == [i \in 1 .. n |-> [x \in Fit |-> Next1(x)]]
<1>0. Beams(g, q, ef, entries, skip, l) = beam
  BY DEF Beams
<1>1. n \in Nat
  BY TurnsAreNat
<1> HIDE DEF n
<1>2. \A x : x \in Fit <=> BeamSound(g, q, skip, l, x)
  BY DEF BeamSound
<1>3. base \in Fit /\ \A x \in Fit : Next1(x) \in Fit
  BY <1>2, EnterStays, TurnStays
<1> HIDE DEF Fit, base, Next1
<1>4. base \in D[0] /\ Takes(n, D, step)
  <2>1. \A i \in 1 .. n : i \in 0 .. n /\ i - 1 \in 0 .. n
    BY <1>1
  <2> QED  BY <1>1, <1>3, <2>1 DEF Takes
<1>5. PICK T, k : k \in [0 .. n -> T] /\ Run(n, D, base, step, k)
  <2> HIDE DEF D, step
  <2> QED  BY <1>1, <1>4, Iterates
<1>6. k = F(k)
  <2>1. ASSUME NEW i \in 1 .. n
        PROVE  k[i] = Next1(k[i - 1])
    <3>1. i - 1 \in 0 .. n
      BY <1>1
    <3>2. k[i - 1] \in Fit
      BY <1>5, <3>1 DEF Run
    <3> QED  BY <1>5, <3>2 DEF Run
  <2>2. \A i \in 0 .. n : i = 0 \/ i \in 1 .. n
    BY <1>1
  <2>3. k[0] = base
    BY <1>5 DEF Run
  <2> QED  BY <1>5, <2>1, <2>2, <2>3
<1>7. beam = F(beam)
  <2> HIDE DEF F
  <2> QED  BY <1>6
<1> HIDE DEF beam
<1>8. beam[0] = base /\ \A i \in 1 .. n : beam[i] = Next1(beam[i - 1])
  <2>1. \A i \in 1 .. n : i \in 0 .. n /\ i # 0
    BY <1>1
  <2> QED  BY <1>1, <1>7, <2>1
<1>9. \A i \in 0 .. n : beam[i] \in D[i]
  <2>1. ASSUME NEW i \in 1 .. n, beam[i - 1] \in D[i - 1]
        PROVE  beam[i] \in D[i]
    <3>1. i \in 0 .. n /\ i - 1 \in 0 .. n
      BY <1>1
    <3> QED  BY <1>3, <1>8, <2>1, <3>1
  <2>2. beam[0] \in D[0]
    BY <1>1, <1>3, <1>8
  <2> HIDE DEF D, F
  <2> QED  BY <1>1, <2>1, <2>2, Stays
<1>10. \A i \in 0 .. n : BeamSound(g, q, skip, l, beam[i])
  BY <1>2, <1>9
<1> QED  BY <1>0, <1>8, <1>10 DEF base, Next1, n

\* What search_layer finds on a layer takes part in it.
LEMMA SearchStays ==
  ASSUME NEW g, Sound(g), NEW q \in Points, NEW ef \in Nat \ {0}, NEW skip, NEW l \in Nat,
         NEW entries \in Seq(OnLayer(g, l))
  PROVE  SearchLayer(g, q, ef, entries, skip, l) \in Seq(Queued(g, skip, l))
<1> DEFINE B == Beams(g, q, ef, entries, skip, l)
           n == Turns(g, entries)
<1>1. n \in Nat
  BY TurnsAreNat
<1>2. BeamSound(g, q, skip, l, B[n])
  <2>1. n \in 0 .. n
    BY <1>1
  <2> QED  BY <2>1, BeamsAre
<1> QED  BY <1>2, SearchIs DEF BeamSound

-----------------------------------------------------------------------------
(* Planning a row.                                                         *)

LEMMA LowerLayer ==
  ASSUME NEW g, Sound(g), NEW l \in Nat, NEW m \in Nat, l <= m
  PROVE  OnLayer(g, m) \subseteq OnLayer(g, l)
<1>1. ASSUME NEW r \in OnLayer(g, m)
      PROVE  r \in OnLayer(g, l)
  <2>1. r \in 1 .. Len(g.nodes) /\ g.nodes[r].level \in Nat /\ g.nodes[r].level >= m
    BY LevelIs
  <2> DEFINE v == g.nodes[r].level
  <2> HIDE DEF v
  <2>2. v >= l
    BY <2>1 DEF v
  <2> QED  BY <2>1, <2>2 DEF OnLayer, v
<1> QED  BY <1>1

LEMMA EntryIs ==
  ASSUME NEW g, Sound(g), g.entry # 0
  PROVE  g.top \in Nat /\ g.entry \in OnLayer(g, g.top)
<1>1. g.entry \in 1 .. Len(g.nodes) /\ g.nodes[g.entry].level = g.top
  BY DEF Sound, EntrySound
<1>2. g.top \in Nat
  <2>1. g.nodes[g.entry].level \in 0 .. MaxLevel
    BY <1>1 DEF Sound, NodeSound
  <2> QED  BY <1>1, <2>1, SizesAssumption
<1>3. g.nodes[g.entry].level >= g.top
  BY <1>1, <1>2
<1> QED  BY <1>1, <1>2, <1>3 DEF OnLayer

\* The descent ends on the layer it is told to, or on the highest there is.
LEMMA DescendStays ==
  ASSUME NEW g, Sound(g), g.entry # 0, NEW q \in Points, NEW floor \in Nat
  PROVE  Descend(g, q, floor) \in OnLayer(g, Lower(floor, g.top))
<1>1. g.top \in Nat /\ g.entry \in OnLayer(g, g.top)
  BY EntryIs
<1>2. CASE g.top < floor
  <2>1. Lower(floor, g.top) = g.top
    BY <1>1, <1>2 DEF Lower
  <2> QED  BY <1>1, <1>2, <2>1 DEF Descend
<1>3. CASE ~(g.top < floor)
  <2> DEFINE high == g.top + 1
             Next1(x, l) == Greedy(g, q, x, l)
             F(h) == [l \in floor .. high |-> IF l = high THEN g.entry
                                              ELSE Next1(h[l + 1], l)]
             from == CHOOSE h : h = F(h)
             D == [l \in floor .. high |->
                     OnLayer(g, IF l = high THEN g.top ELSE l)]
             step == [l \in floor .. high - 1 |-> [x \in D[l + 1] |-> Next1(x, l)]]
  <2>1. Descend(g, q, floor) = from[floor]
    BY <1>3 DEF Descend
  <2>2. high \in Nat /\ floor < high /\ g.top = high - 1
    BY <1>1, <1>3
  <2>3. Lower(floor, g.top) = floor
    BY <1>1, <1>3 DEF Lower
  <2>4. ASSUME NEW l \in floor .. high - 1, NEW x \in D[l + 1]
        PROVE  Next1(x, l) \in D[l]
    <3>1. l \in Nat /\ l \in floor .. high /\ l + 1 \in floor .. high /\ l # high
      BY <2>2
    <3> DEFINE m == IF l + 1 = high THEN g.top ELSE l + 1
    <3>2. m \in Nat /\ l <= m
      BY <1>1, <2>2, <3>1
    <3>3. D[l + 1] = OnLayer(g, m) /\ D[l] = OnLayer(g, l)
      BY <3>1
    <3> HIDE DEF D, m
    <3>4. x \in OnLayer(g, l)
      BY <2>4, <3>1, <3>2, <3>3, LowerLayer
    <3> QED  BY <3>1, <3>3, <3>4, GreedyStays
  <2>5. g.entry \in D[high]
    BY <1>1, <2>2
  <2> HIDE DEF high, Next1
  <2>6. TakesDown(floor, high, D, step)
    <3> SUFFICES ASSUME NEW l \in floor .. high - 1, NEW x \in D[l + 1]
                 PROVE  step[l][x] \in D[l]
      BY DEF TakesDown
    <3>1. step[l][x] = Next1(x, l)
      OBVIOUS
    <3> HIDE DEF step, D
    <3> QED  BY <2>4, <3>1
  <2>7. PICK T, k : k \in [floor .. high -> T] /\ RunDown(floor, high, D, g.entry, step, k)
    <3> HIDE DEF D, step
    <3>1. floor \in Int /\ high \in Int /\ floor <= high
      BY <2>2
    <3> QED  BY <2>5, <2>6, <3>1, IteratesDown
  <2>8. k = F(k)
    <3>1. ASSUME NEW l \in floor .. high, l # high
          PROVE  k[l] = Next1(k[l + 1], l)
      <4>1. l \in floor .. high - 1 /\ l + 1 \in floor .. high
        BY <2>2, <3>1
      <4>2. k[l + 1] \in D[l + 1] /\ k[l] = step[l][k[l + 1]]
        <5> HIDE DEF D, step
        <5> QED  BY <2>7, <4>1 DEF RunDown
      <4>3. step[l] = [x \in D[l + 1] |-> Next1(x, l)]
        BY <4>1
      <4> HIDE DEF D, step
      <4> QED  BY <4>2, <4>3
    <3>2. k[high] = g.entry
      BY <2>7 DEF RunDown
    <3> QED  BY <2>7, <3>1, <3>2
  <2>9. from = F(from)
    <3> HIDE DEF F
    <3> QED  BY <2>8
  <2> HIDE DEF from
  <2>10. from[floor] \in D[floor]
    <3>1. ASSUME NEW l \in floor .. high - 1, from[l + 1] \in D[l + 1]
          PROVE  from[l] \in D[l]
      <4>1. l \in floor .. high /\ l # high
        BY <2>2
      <4>2. from[l] = Next1(from[l + 1], l)
        BY <2>9, <4>1
      <4> HIDE DEF D
      <4> QED  BY <2>4, <3>1, <4>2
    <3>2. from[high] = g.entry
      BY <2>2, <2>9
    <3>3. floor \in Int /\ high \in Int /\ floor <= high /\ floor \in floor .. high
      BY <2>2
    <3> HIDE DEF D, F
    <3>4. from[high] \in D[high]
      BY <2>5, <3>2
    <3>5. \A l \in floor .. high : from[l] \in D[l]
      BY <3>1, <3>3, <3>4, StaysDown
    <3> QED  BY <3>3, <3>5
  <2>11. D[floor] = OnLayer(g, floor)
    BY <2>2
  <2> QED  BY <2>1, <2>3, <2>10, <2>11
<1> QED  BY <1>2, <1>3

\* Search starts on a layer at what was found on the layer above.
LEMMA OnwardStays ==
  ASSUME NEW g, Sound(g), g.entry # 0, NEW l \in Nat, l < g.top,
         NEW hits \in Seq(OnLayer(g, l + 1))
  PROVE  Onward(g, hits) \in Seq(OnLayer(g, l))
<1>0. BuildEf \in Nat
  BY DegreeAssumption DEF BuildEf
<1>1. OnLayer(g, l + 1) \subseteq OnLayer(g, l)
  BY LowerLayer
<1>2. g.entry \in OnLayer(g, l)
  <2>1. OnLayer(g, g.top) \subseteq OnLayer(g, l)
    BY EntryIs, LowerLayer
  <2> QED  BY <2>1, EntryIs
<1>3. CASE hits = <<>>
  BY <1>2, <1>3 DEF Onward
<1>4. CASE hits # <<>>
  <2> DEFINE n == Lower(BuildEf, Len(hits))
  <2>1. Len(hits) \in Nat
    OBVIOUS
  <2>2. n \in 0 .. Len(hits)
    BY <1>0, <2>1 DEF Lower
  <2>3. \A i \in 1 .. Len(hits) : hits[i] \in OnLayer(g, l)
    BY <1>1
  <2>4. Onward(g, hits) = SubSeq(hits, 1, n)
    BY <1>4 DEF Onward
  <2> HIDE DEF n
  <2>5. SubSeq(hits, 1, n) \in Seq(OnLayer(g, l))
    <3>1. hits \in Seq(OnLayer(g, l))
      BY <1>1
    <3> QED  BY <2>2, <3>1
  <2> QED  BY <2>4, <2>5
<1> QED  BY <1>3, <1>4

\* What a plan made against graph f says.
PlanIs(f, q, level, plan) ==
  /\ plan.at = q /\ plan.level = level /\ plan.frozen = f.top
  /\ f.entry # 0 =>
       \A l \in 0 .. level :
         l <= f.top => plan.layers[l] \in Seq(OnLayer(f, l))

LEMMA Planned ==
  ASSUME NEW g, Sound(g), NEW q \in Points, NEW level \in Nat
  PROVE  PlanIs(g, q, level, PlanRow(g, q, level))
<1> DEFINE plan == PlanRow(g, q, level)
           high == Lower(level, g.top)
           down == <<Descend(g, q, level + 1)>>
           Found(e, l) == SearchLayer(g, q, BuildEf, e, {}, l)
           F(h) == [l \in 0 .. high |->
                      Found(IF l = high THEN down ELSE Onward(g, h[l + 1]), l)]
           hits == CHOOSE h : h = F(h)
           D == [l \in 0 .. high |-> Seq(OnLayer(g, l))]
           Next1(x, l) == Found(Onward(g, x), l)
           base == Found(down, high)
           step == [l \in 0 .. high - 1 |-> [x \in D[l + 1] |-> Next1(x, l)]]
<1>1. plan = [at |-> q, level |-> level, frozen |-> g.top,
              layers |-> [l \in 0 .. level |->
                            IF g.entry # 0 /\ l <= high THEN hits[l] ELSE <<>>]]
  BY DEF PlanRow
<1>2. ASSUME g.entry # 0
      PROVE  \A l \in 0 .. high : hits[l] \in Seq(OnLayer(g, l))
  <2>1. g.top \in Nat /\ high \in Nat /\ high <= g.top /\ high <= level
    BY <1>2, EntryIs DEF Lower
  <2>2. BuildEf \in Nat \ {0}
    BY DegreeAssumption DEF BuildEf
  <2>3. \A l \in Nat : Queued(g, {}, l) = OnLayer(g, l)
    BY DEF Queued
  <2>4. base \in D[high]
    <3>1. Descend(g, q, level + 1) \in OnLayer(g, high)
      <4> DEFINE m == Lower(level + 1, g.top)
      <4>1. Descend(g, q, level + 1) \in OnLayer(g, m)
        BY <1>2, DescendStays
      <4>2. m \in Nat /\ high <= m
        BY <2>1 DEF Lower
      <4> HIDE DEF m, high
      <4> QED  BY <2>1, <4>1, <4>2, LowerLayer
    <3>2. down \in Seq(OnLayer(g, high))
      BY <3>1
    <3> HIDE DEF down, high
    <3>3. base \in Seq(Queued(g, {}, high))
      BY <2>1, <2>2, <3>2, SearchStays
    <3> QED  BY <2>1, <2>3, <3>3
  <2>5. ASSUME NEW l \in 0 .. high - 1, NEW x \in D[l + 1]
        PROVE  Next1(x, l) \in D[l]
    <3> HIDE DEF high
    <3>1. l \in Nat /\ l < g.top /\ l \in 0 .. high /\ l + 1 \in 0 .. high
      BY <2>1
    <3>2. x \in Seq(OnLayer(g, l + 1))
      BY <3>1
    <3> DEFINE e == Onward(g, x)
    <3>3. e \in Seq(OnLayer(g, l))
      BY <1>2, <3>1, <3>2, OnwardStays
    <3> HIDE DEF e, D
    <3>4. Found(e, l) \in Seq(Queued(g, {}, l))
      BY <2>2, <3>1, <3>3, SearchStays
    <3> QED  BY <2>3, <3>1, <3>4 DEF D, e
  <2> HIDE DEF high, down, Found
  <2>6. TakesDown(0, high, D, step)
    <3> SUFFICES ASSUME NEW l \in 0 .. high - 1, NEW x \in D[l + 1]
                 PROVE  step[l][x] \in D[l]
      BY DEF TakesDown
    <3>1. step[l][x] = Next1(x, l)
      OBVIOUS
    <3> HIDE DEF step, D, Next1
    <3> QED  BY <2>5, <3>1
  <2>7. PICK T, k : k \in [0 .. high -> T] /\ RunDown(0, high, D, base, step, k)
    <3> HIDE DEF D, step, base
    <3>1. 0 \in Int /\ high \in Int /\ 0 <= high
      BY <2>1
    <3> HIDE DEF high
    <3> QED  BY <2>4, <2>6, <3>1, IteratesDown
  <2>8. k = F(k)
    <3>1. ASSUME NEW l \in 0 .. high, l # high
          PROVE  k[l] = Next1(k[l + 1], l)
      <4>1. l \in 0 .. high - 1 /\ l + 1 \in 0 .. high
        BY <2>1, <3>1
      <4>2. k[l + 1] \in D[l + 1] /\ k[l] = step[l][k[l + 1]]
        <5> HIDE DEF D, step
        <5> QED  BY <2>7, <4>1 DEF RunDown
      <4>3. step[l] = [x \in D[l + 1] |-> Next1(x, l)]
        BY <4>1
      <4> HIDE DEF D, step, Next1
      <4> QED  BY <4>2, <4>3
    <3>2. k[high] = base
      BY <2>7 DEF RunDown
    <3> QED  BY <2>7, <3>1, <3>2
  <2>9. hits = F(hits)
    <3> HIDE DEF F
    <3> QED  BY <2>8
  <2> HIDE DEF hits
  <2>10. ASSUME NEW l \in 0 .. high - 1, hits[l + 1] \in D[l + 1]
         PROVE  hits[l] \in D[l]
    <3>1. l \in 0 .. high /\ l # high
      BY <2>1
    <3>2. hits[l] = Next1(hits[l + 1], l)
      BY <2>9, <3>1
    <3> HIDE DEF D, Next1
    <3> QED  BY <2>5, <2>10, <3>2
  <2>11. hits[high] = base
    BY <2>1, <2>9
  <2>12. \A l \in 0 .. high : hits[l] \in D[l]
    <3>1. 0 \in Int /\ high \in Int /\ 0 <= high
      BY <2>1
    <3> HIDE DEF D, F, base
    <3>2. hits[high] \in D[high]
      BY <2>4, <2>11
    <3> QED  BY <2>10, <3>1, <3>2, StaysDown
  <2> QED  BY <2>12
<1> HIDE DEF hits
<1>3. ASSUME g.entry # 0, NEW l \in 0 .. level, l <= g.top
      PROVE  plan.layers[l] \in Seq(OnLayer(g, l))
  <2>1. l \in 0 .. high
    BY <1>3, EntryIs DEF Lower
  <2>2. plan.layers[l] = hits[l]
    <3> HIDE DEF plan, high
    <3>1. l <= high
      BY <2>1
    <3> QED  BY <1>1, <1>3, <3>1
  <2> QED  BY <1>2, <1>3, <2>1, <2>2
<1>4. plan.at = q /\ plan.level = level /\ plan.frozen = g.top
  BY <1>1
<1> HIDE DEF plan
<1>5. PlanIs(g, q, level, plan)
  BY <1>3, <1>4 DEF PlanIs
<1> QED  BY <1>5 DEF plan

-----------------------------------------------------------------------------
(* Linking a row.                                                          *)

\* List t is chosen from the rows A: at most m of them, none twice if graph o
\* puts every row nearest to itself.
ChosenFrom(o, A, m, t) ==
  t \in Seq(A) /\ Len(t) <= m /\ (Once(o) => IsInjective(t))

\* No row is kept twice if none is offered twice, or if every row is nearer to
\* itself than to q.
LEMMA SelectIs ==
  ASSUME NEW g, Positioned(g), NEW q \in Points, NEW m \in Nat,
         NEW A \in SUBSET (1 .. Len(g.nodes)), NEW cands \in Seq(A),
         NEW o, Once(o) => \/ IsInjective(cands)
                           \/ \A r \in A : Dist(g, g.nodes[r].at, r) < Dist(g, q, r)
  PROVE  ChosenFrom(o, A, m, Select(g, q, cands, m))
<1> DEFINE n == Len(cands)
           Next1(x, i) == Keep(g, q, m, x, cands[i])
           F(h) == [i \in 0 .. n |-> IF i = 0 THEN <<>> ELSE Next1(h[i - 1], i)]
           kept == CHOOSE h : h = F(h)
           Seen(i) == {cands[j] : j \in 1 .. i}
           D == [i \in 0 .. n |-> {x \in Seq(A) : ChosenFrom(o, A, m, x)
                                                  /\ ToSet(x) \subseteq Seen(i)}]
           step == [i \in 1 .. n |-> [x \in D[i - 1] |-> Next1(x, i)]]
<1>0. Select(g, q, cands, m) = kept[n]
  BY DEF Select
<1>1. n \in Nat
  OBVIOUS
<1>2. ASSUME NEW i \in 1 .. n, NEW x \in D[i - 1]
      PROVE  Next1(x, i) \in D[i]
  <2>1. i \in 0 .. n /\ i - 1 \in 0 .. n /\ cands[i] \in A
    BY <1>1
  <2>2. /\ x \in Seq(A) /\ Len(x) <= m /\ ToSet(x) \subseteq Seen(i - 1)
        /\ Once(o) => IsInjective(x)
    BY <2>1 DEF ChosenFrom
  <2>3. Seen(i) = Seen(i - 1) \cup {cands[i]}
    <3>1. \A j : j \in 1 .. i <=> j \in 1 .. i - 1 \/ j = i
      BY <2>1
    <3> QED  BY <3>1
  <2> DEFINE y == Next1(x, i)
             c == cands[i]
  <2>4. CASE y = x
    BY <2>1, <2>2, <2>3, <2>4 DEF ChosenFrom
  <2>5. CASE y # x
    <3>1. /\ y = Append(x, c) /\ Len(x) # m
          /\ ~ \E e \in ToSet(x) : Dist(g, g.nodes[c].at, e) < Dist(g, q, c)
      BY <2>5 DEF Keep
    <3>2. ASSUME Once(o)
          PROVE  c \notin ToSet(x)
      <4>1. CASE IsInjective(cands)
        <5>1. c \notin Seen(i - 1)
          BY <1>1, <2>1, <4>1 DEF IsInjective
        <5> QED  BY <2>2, <5>1
      <4>2. CASE \A r \in A : Dist(g, g.nodes[r].at, r) < Dist(g, q, r)
        <5>1. Dist(g, g.nodes[c].at, c) < Dist(g, q, c)
          BY <2>1, <4>2
        <5> HIDE DEF c
        <5> QED  BY <3>1, <5>1
      <4> QED  BY <3>2, <4>1, <4>2
    <3> DEFINE z == Append(x, c)
    <3>3. z \in Seq(A) /\ Len(z) = Len(x) + 1 /\ z[Len(x) + 1] = c
          /\ \A j \in 1 .. Len(x) : z[j] = x[j]
      BY <2>1, <2>2
    <3> HIDE DEF z, c
    <3>4. Len(x) \in Nat /\ Len(z) <= m
      BY <2>2, <3>1, <3>3
    <3>5. \A j \in 1 .. Len(x) + 1 : j \in 1 .. Len(x) \/ j = Len(x) + 1
      <4>1. \A d \in Nat : \A j \in 1 .. d + 1 : j \in 1 .. d \/ j = d + 1
        OBVIOUS
      <4> QED  BY <3>4, <4>1
    <3>6. \A j \in 1 .. Len(x) : x[j] \in ToSet(x)
      BY <2>2, InSet
    <3>7. ASSUME Once(o)
          PROVE  IsInjective(z)
      <4>1. ASSUME NEW j \in 1 .. Len(x) + 1, NEW k \in 1 .. Len(x) + 1, z[j] = z[k]
            PROVE  j = k
        <5>1. \A a, b \in 1 .. Len(x) : x[a] = x[b] => a = b
          BY <2>2, <3>7 DEF IsInjective
        <5>2. c \notin ToSet(x)
          BY <3>2, <3>7
        <5> QED  BY <5>2, <3>3, <3>5, <3>6, <4>1, <5>1
      <4>2. DOMAIN z = 1 .. Len(x) + 1
        BY <3>3
      <4> QED  BY <4>1, <4>2 DEF IsInjective
    <3>8. ToSet(z) \subseteq Seen(i)
      <4>1. ASSUME NEW v \in ToSet(z)
            PROVE  v \in ToSet(x) \cup {c}
        <5>1. PICK j \in 1 .. Len(x) + 1 : v = z[j]
          BY <3>3, <4>1, InSet
        <5> QED  BY <3>3, <3>5, <3>6, <5>1
      <4> HIDE DEF Seen
      <4> QED  BY <2>2, <2>3, <4>1 DEF c
    <3>9. y = z
      BY <3>1 DEF z
    <3> HIDE DEF y, Seen
    <3> QED  BY <2>1, <3>3, <3>4, <3>7, <3>8, <3>9 DEF ChosenFrom, y
  <2> QED  BY <2>4, <2>5
<1>3. <<>> \in D[0]
  BY <1>1 DEF ChosenFrom, IsInjective, ToSet
<1> HIDE DEF n, D, Next1
<1>4. Takes(n, D, step)
  BY <1>2 DEF Takes
<1>5. PICK T, k : k \in [0 .. n -> T] /\ Run(n, D, <<>>, step, k)
  <2> HIDE DEF step
  <2> QED  BY <1>1, <1>3, <1>4, Iterates
<1>6. k = F(k)
  <2>1. ASSUME NEW i \in 1 .. n
        PROVE  k[i] = Next1(k[i - 1], i)
    <3>1. i - 1 \in 0 .. n
      BY <1>1
    <3>2. k[i - 1] \in D[i - 1]
      BY <1>5, <3>1 DEF Run
    <3> QED  BY <1>5, <3>2 DEF Run
  <2>2. \A i \in 0 .. n : i = 0 \/ i \in 1 .. n
    BY <1>1
  <2>3. k[0] = <<>>
    BY <1>5 DEF Run
  <2> QED  BY <1>5, <2>1, <2>2, <2>3
<1>7. kept = F(kept)
  <2> HIDE DEF F
  <2> QED  BY <1>6 DEF Next1, n
<1> HIDE DEF kept
<1>8. kept[n] \in D[n]
  <2>1. ASSUME NEW i \in 1 .. n, kept[i - 1] \in D[i - 1]
        PROVE  kept[i] \in D[i]
    <3>1. i \in 0 .. n /\ i # 0
      BY <1>1
    <3>2. kept[i] = Next1(kept[i - 1], i)
      BY <1>7, <3>1
    <3> QED  BY <1>2, <2>1, <3>2
  <2>2. kept[0] \in D[0]
    BY <1>1, <1>3, <1>7
  <2> HIDE DEF F
  <2>3. \A i \in 0 .. n : kept[i] \in D[i]
    BY <1>1, <2>1, <2>2, Stays
  <2> QED  BY <1>1, <2>3
<1>9. ChosenFrom(o, A, m, kept[n])
  BY <1>1, <1>8 DEF D
<1> QED  BY <1>0, <1>9

\* The plan may be older than the graph: what it found is still there.
PlanFits(g, plan) ==
  /\ plan.at \in Points /\ plan.level \in 0 .. MaxLevel /\ plan.frozen \in Int
  /\ g.entry # 0 =>
       \A l \in 0 .. plan.level :
         l <= plan.frozen => plan.layers[l] \in Seq(OnLayer(g, l))

LEMMA PlanNumbers ==
  ASSUME NEW g, NEW plan, PlanFits(g, plan)
  PROVE  plan.at \in Points /\ plan.level \in Nat /\ plan.frozen \in Int
<1>1. plan.at \in Points /\ plan.level \in 0 .. MaxLevel /\ plan.frozen \in Int
  BY DEF PlanFits
<1>2. MaxLevel \in Nat
  BY SizesAssumption
<1>3. plan.level \in Nat
  BY <1>1, <1>2
<1> QED  BY <1>1, <1>2, <1>3

LEMMA CapIs ==
  ASSUME NEW l
  PROVE  Cap(l) \in Nat /\ M \in Nat /\ M <= Cap(l)
BY DegreeAssumption DEF Cap

\* The graph with a slot for the new row that nobody is linked to.
SlotOf(g, plan, s) ==
  LET n == Len(g.nodes)
  IN  /\ Len(s.nodes) = n + 1 /\ DOMAIN s.nodes = 1 .. n + 1
      /\ \A r \in 1 .. n : s.nodes[r] = g.nodes[r]
      /\ s.nodes[n + 1] = [at |-> plan.at, level |-> plan.level,
                           links |-> [l \in 0 .. plan.level |-> Chosen(g, plan, l)]]

LEMMA SlotIs ==
  ASSUME NEW g, Sound(g), NEW plan
  PROVE  SlotOf(g, plan, AddSlot(g, plan))
<1> DEFINE new == [at |-> plan.at, level |-> plan.level,
                   links |-> [l \in 0 .. plan.level |-> Chosen(g, plan, l)]]
           n == Len(g.nodes)
<1>1. /\ g = [nodes |-> g.nodes, entry |-> g.entry, top |-> g.top]
      /\ n \in Nat /\ g.nodes = [r \in 1 .. n |-> g.nodes[r]]
  BY DEF Sound
<1>2. AddSlot(g, plan) = [g EXCEPT !.nodes = Append(@, new)]
  BY DEF AddSlot
<1> HIDE DEF new
<1> DEFINE s == AddSlot(g, plan)
           T == {g.nodes[r] : r \in 1 .. n} \cup {new}
<1>3. s.nodes = Append(g.nodes, new)
  BY <1>1, <1>2
<1>4. g.nodes \in Seq(T) /\ new \in T
  <2>1. g.nodes \in [1 .. n -> T]
    BY <1>1
  <2> QED  BY <1>1, <2>1
<1> HIDE DEF s, T
<1>5. /\ Len(s.nodes) = n + 1 /\ DOMAIN s.nodes = 1 .. n + 1
      /\ \A r \in 1 .. n : s.nodes[r] = g.nodes[r]
      /\ s.nodes[n + 1] = new
  BY <1>1, <1>3, <1>4
<1>6. SlotOf(g, plan, s)
  BY <1>5 DEF SlotOf, new
<1> QED  BY <1>6 DEF s

LEMMA ChosenIs ==
  ASSUME NEW g, Sound(g), NEW plan, PlanFits(g, plan), NEW l \in 0 .. plan.level,
         NEW s, SlotOf(g, plan, s)
  PROVE  ChosenFrom(s, OnLayer(g, l), Cap(l), Chosen(g, plan, l))
<1>1. l \in Nat /\ plan.level \in Nat /\ plan.at \in Points /\ plan.frozen \in Int
  BY PlanNumbers
<1> DEFINE A == OnLayer(g, l)
           n == Len(g.nodes)
<1>2. CASE g.entry # 0 /\ l <= Lower(plan.level, plan.frozen)
  <2>1. l <= plan.frozen
    BY <1>1, <1>2 DEF Lower
  <2>2. plan.layers[l] \in Seq(A)
    BY <1>2, <2>1 DEF PlanFits
  <2>3. A \in SUBSET (1 .. Len(g.nodes))
    BY DEF OnLayer
  <2>4. ASSUME Once(s), NEW r \in A
        PROVE  Dist(g, g.nodes[r].at, r) < Dist(g, plan.at, r)
    <3>1. /\ n \in Nat /\ Len(s.nodes) = n + 1 /\ s.nodes[n + 1].at = plan.at
          /\ s.nodes[r].at = g.nodes[r].at /\ r \in 1 .. n
      BY <2>3, <2>4 DEF SlotOf, Sound
    <3>2. n + 1 \in 1 .. Len(s.nodes) /\ r \in 1 .. Len(s.nodes) /\ r # n + 1
      BY <3>1
    <3> HIDE DEF n, A
    <3>3. Dist(s, s.nodes[r].at, r) < Dist(s, s.nodes[n + 1].at, r)
      BY <2>4, <3>2 DEF Once
    <3> QED  BY <3>1, <3>3 DEF Dist
  <2> HIDE DEF A
  <2>5. ChosenFrom(s, A, M, Select(g, plan.at, plan.layers[l], M))
    BY <1>1, <2>2, <2>3, <2>4, CapIs, SoundIsPositioned, SelectIs
  <2> DEFINE t == Select(g, plan.at, plan.layers[l], M)
  <2>6. Chosen(g, plan, l) = t
    BY <1>2 DEF Chosen
  <2> HIDE DEF t
  <2>7. t \in Seq(A) /\ Len(t) <= M /\ (Once(s) => IsInjective(t))
    BY <2>5 DEF ChosenFrom, t
  <2>8. Len(t) <= Cap(l)
    <3>1. Len(t) \in Nat
      BY <2>7
    <3> QED  BY <2>7, <3>1, CapIs
  <2> QED  BY <2>6, <2>7, <2>8 DEF ChosenFrom, A
<1>3. CASE ~(g.entry # 0 /\ l <= Lower(plan.level, plan.frozen))
  <2>1. Chosen(g, plan, l) = <<>>
    BY <1>3 DEF Chosen
  <2>2. <<>> \in Seq(A) /\ Len(<<>>) <= Cap(l) /\ IsInjective(<<>>)
    BY CapIs DEF IsInjective
  <2> QED  BY <2>1, <2>2 DEF ChosenFrom
<1> QED  BY <1>2, <1>3

LEMMA SlotSound ==
  ASSUME NEW g, Sound(g), NEW plan, PlanFits(g, plan), NEW s, SlotOf(g, plan, s)
  PROVE  /\ Positioned(s) /\ Rows(s) = 1 .. Len(g.nodes) + 1
         /\ \A l \in Nat :
              OnLayer(s, l) = OnLayer(g, l) \cup
                                IF plan.level >= l THEN {Len(g.nodes) + 1} ELSE {}
<1> DEFINE n == Len(g.nodes)
<1>1. /\ n \in Nat /\ Len(s.nodes) = n + 1 /\ DOMAIN s.nodes = 1 .. n + 1
      /\ \A r \in 1 .. n : s.nodes[r] = g.nodes[r]
      /\ s.nodes[n + 1].at = plan.at /\ s.nodes[n + 1].level = plan.level
  BY DEF SlotOf, Sound
<1>2. plan.at \in Points /\ \A r \in 1 .. n : g.nodes[r].at \in Points
  BY PlanNumbers, SoundIsPositioned DEF Positioned
<1>3. \A r : r \in 1 .. n + 1 <=> r \in 1 .. n \/ r = n + 1
  BY <1>1
<1>4. Positioned(s)
  <2> HIDE DEF n
  <2>1. \A r \in 1 .. n + 1 : s.nodes[r].at \in Points
    <3>1. \A r \in 1 .. n : s.nodes[r].at \in Points
      BY <1>1, <1>2
    <3>2. s.nodes[n + 1].at \in Points
      BY <1>1, <1>2
    <3> QED  BY <1>3, <3>1, <3>2
  <2>2. Len(s.nodes) \in Nat
    BY <1>1
  <2> QED  BY <1>1, <2>1, <2>2 DEF Positioned
<1>5. ASSUME NEW l \in Nat
      PROVE  OnLayer(s, l) = OnLayer(g, l) \cup IF plan.level >= l THEN {n + 1} ELSE {}
  BY <1>1, <1>3 DEF OnLayer
<1> QED  BY <1>1, <1>4, <1>5 DEF Rows

\* A neighbour's list with the new row in it.
LEMMA BackLinkIs ==
  ASSUME NEW s, Positioned(s), NEW row \in 1 .. Len(s.nodes), NEW l \in Nat,
         NEW r \in 1 .. Len(s.nodes), Rows(s) = 1 .. Len(s.nodes),
         NEW A \in SUBSET (1 .. Len(s.nodes)), row \in A,
         NEW old \in Seq(A),
         Once(s) => IsInjective(old) /\ row \notin ToSet(old)
  PROVE  ChosenFrom(s, A, Cap(l), BackLink(s, row, r, l, old))
<1> DEFINE longer == Append(old, row)
           here == s.nodes[r].at
           sorted == Sort(s, here, longer, Rows(s))
<1>1. here \in Points
  BY DEF Positioned
<1>2. longer \in Seq(A) /\ Len(longer) = Len(old) + 1 /\ Len(old) \in Nat
      /\ longer[Len(old) + 1] = row /\ \A i \in 1 .. Len(old) : longer[i] = old[i]
  OBVIOUS
<1> HIDE DEF longer
<1>3. ASSUME Once(s)
      PROVE  IsInjective(longer)
  <2>1. \A a, b \in 1 .. Len(old) : old[a] = old[b] => a = b
    BY <1>3 DEF IsInjective
  <2>2. \A a \in 1 .. Len(old) : old[a] # row
    BY <1>3, InSet
  <2>3. \A d \in Nat : \A j \in 1 .. d + 1 : j \in 1 .. d \/ j = d + 1
    OBVIOUS
  <2>4. ASSUME NEW j \in 1 .. Len(old) + 1, NEW k \in 1 .. Len(old) + 1,
               longer[j] = longer[k]
        PROVE  j = k
    BY <1>2, <2>1, <2>2, <2>3, <2>4
  <2>5. DOMAIN longer = 1 .. Len(old) + 1
    BY <1>2
  <2> QED  BY <2>4, <2>5 DEF IsInjective
<1>4. CASE Len(longer) > Cap(l)
  <2>1. BackLink(s, row, r, l, old) = Select(s, here, sorted, Cap(l))
    BY <1>4 DEF BackLink, longer
  <2>2. longer \in Seq(1 .. Len(s.nodes)) /\ ToSet(longer) \subseteq A
    <3> DEFINE S == 1 .. Len(s.nodes)
    <3>1. A \subseteq S /\ longer \in Seq(A)
      BY <1>2
    <3> HIDE DEF S
    <3>2. longer \in Seq(S)
      BY <3>1, InWiderSet
    <3> QED  BY <3>1, <3>2, InSet DEF S
  <2>3. SortedOut(s, here, longer, Rows(s), sorted)
    BY <1>1, <2>2, SortIs
  <2> HIDE DEF sorted, here
  <2>4. sorted \in Seq(A) /\ (Once(s) => IsInjective(sorted))
    <3>1. /\ sorted \in Seq(1 .. Len(s.nodes)) /\ ToSet(sorted) \subseteq A
          /\ Once(s) => IsInjective(sorted)
      BY <1>3, <2>2, <2>3 DEF SortedOut
    <3> QED  BY <3>1, InSet
  <2>5. ChosenFrom(s, A, Cap(l), Select(s, here, sorted, Cap(l)))
    BY <1>1, <2>4, CapIs, SelectIs
  <2> QED  BY <2>1, <2>5
<1>5. CASE ~(Len(longer) > Cap(l))
  <2>1. BackLink(s, row, r, l, old) = longer
    BY <1>5 DEF BackLink, longer
  <2>2. Len(longer) <= Cap(l)
    BY <1>2, <1>5, CapIs
  <2> QED  BY <1>2, <1>3, <2>1, <2>2 DEF ChosenFrom
<1> QED  BY <1>4, <1>5

\* The same once the row has been chosen as often as the new row names it.
LEMMA BackLinkedIs ==
  ASSUME NEW s, Positioned(s), NEW row \in 1 .. Len(s.nodes), NEW l \in Nat,
         NEW r \in 1 .. Len(s.nodes), Rows(s) = 1 .. Len(s.nodes),
         NEW A \in SUBSET (1 .. Len(s.nodes)), NEW B,
         Links(s, row, l) \in Seq(B), Once(s) => IsInjective(Links(s, row, l)),
         row \in A \/ r \notin ToSet(Links(s, row, l)),
         ChosenFrom(s, A, Cap(l), Links(s, r, l)), row \notin ToSet(Links(s, r, l))
  PROVE  ChosenFrom(s, A, Cap(l), BackLinked(s, row, r, l))
<1> DEFINE chosen == Links(s, row, l)
           n == Len(chosen)
           base == Links(s, r, l)
           Next1(x, i) == IF chosen[i] = r THEN BackLink(s, row, r, l, x) ELSE x
           F(h) == [i \in 0 .. n |-> IF i = 0 THEN base ELSE Next1(h[i - 1], i)]
           list == CHOOSE h : h = F(h)
           Told(i) == \E j \in 1 .. i : chosen[j] = r
           D == [i \in 0 .. n |->
                   {x \in Seq(A) : /\ ChosenFrom(s, A, Cap(l), x)
                                   /\ Once(s) /\ row \in ToSet(x) => Told(i)}]
           step == [i \in 1 .. n |-> [x \in D[i - 1] |-> Next1(x, i)]]
<1>0. BackLinked(s, row, r, l) = list[n]
  <2>1. BackLinked(s, row, r, l) =
          LET lists == CHOOSE h : h = [i \in 0 .. n |->
                         IF i = 0 THEN base
                         ELSE IF chosen[i] = r THEN BackLink(s, row, r, l, h[i - 1])
                         ELSE h[i - 1]]
          IN  lists[n]
    BY DEF BackLinked
  <2> QED  BY <2>1
<1>1. /\ n \in Nat /\ DOMAIN chosen = 1 .. n
      /\ \A i \in 1 .. n : chosen[i] \in ToSet(chosen)
  <2>1. chosen \in Seq(B)
    OBVIOUS
  <2> HIDE DEF chosen
  <2> QED  BY <2>1, InSet
<1>2. ASSUME NEW i \in 1 .. n, NEW x \in D[i - 1]
      PROVE  Next1(x, i) \in D[i]
  <2>1. i \in 0 .. n /\ i - 1 \in 0 .. n
    BY <1>1
  <2>2. x \in Seq(A) /\ ChosenFrom(s, A, Cap(l), x)
        /\ (Once(s) /\ row \in ToSet(x) => Told(i - 1))
    BY <2>1
  <2>3. \A j \in 1 .. i - 1 : j \in 1 .. n /\ j \in 1 .. i /\ j # i
    BY <1>1
  <2>4. CASE chosen[i] # r
    <3>1. Told(i - 1) => Told(i)
      BY <2>3
    <3>2. Next1(x, i) = x
      BY <2>4
    <3> HIDE DEF Next1, Told
    <3> QED  BY <2>1, <2>2, <3>1, <3>2
  <2>5. CASE chosen[i] = r
    <3>1. row \in A
      BY <1>1, <2>5
    <3>2. ASSUME Once(s)
          PROVE  IsInjective(x) /\ row \notin ToSet(x)
      <4>1. ~Told(i - 1)
        BY <1>1, <2>3, <2>5, <3>2 DEF IsInjective
      <4> HIDE DEF Told
      <4> QED  BY <2>2, <3>2, <4>1 DEF ChosenFrom
    <3>3. ChosenFrom(s, A, Cap(l), BackLink(s, row, r, l, x))
      BY <2>2, <3>1, <3>2, BackLinkIs
    <3>4. Told(i)
      BY <1>1, <2>5
    <3>5. Next1(x, i) = BackLink(s, row, r, l, x)
      BY <2>5
    <3> HIDE DEF Next1, Told
    <3> QED  BY <2>1, <3>3, <3>4, <3>5 DEF ChosenFrom
  <2> QED  BY <2>4, <2>5
<1>3. base \in D[0]
  <2>1. 0 \in 0 .. n /\ base \in Seq(A)
    BY <1>1 DEF ChosenFrom
  <2> HIDE DEF base, Told
  <2> QED  BY <2>1 DEF base
<1> HIDE DEF n, D, Next1, base
<1>4. Takes(n, D, step)
  BY <1>2 DEF Takes
<1>5. PICK T, k : k \in [0 .. n -> T] /\ Run(n, D, base, step, k)
  <2> HIDE DEF step
  <2> QED  BY <1>1, <1>3, <1>4, Iterates
<1>6. k = F(k)
  <2>1. ASSUME NEW i \in 1 .. n
        PROVE  k[i] = Next1(k[i - 1], i)
    <3>1. i - 1 \in 0 .. n
      BY <1>1
    <3>2. k[i - 1] \in D[i - 1]
      BY <1>5, <3>1 DEF Run
    <3> QED  BY <1>5, <3>2 DEF Run
  <2>2. \A i \in 0 .. n : i = 0 \/ i \in 1 .. n
    BY <1>1
  <2>3. k[0] = base
    BY <1>5 DEF Run
  <2> QED  BY <1>5, <2>1, <2>2, <2>3
<1>7. list = F(list)
  <2> HIDE DEF F
  <2> QED  BY <1>6 DEF Next1, n, base
<1> HIDE DEF list
<1>8. list[n] \in D[n]
  <2>1. ASSUME NEW i \in 1 .. n, list[i - 1] \in D[i - 1]
        PROVE  list[i] \in D[i]
    <3>1. i \in 0 .. n /\ i # 0
      BY <1>1
    <3>2. list[i] = Next1(list[i - 1], i)
      BY <1>7, <3>1
    <3> QED  BY <1>2, <2>1, <3>2
  <2>2. list[0] \in D[0]
    BY <1>1, <1>3, <1>7
  <2> HIDE DEF F
  <2>3. \A i \in 0 .. n : list[i] \in D[i]
    BY <1>1, <2>1, <2>2, Stays
  <2> QED  BY <1>1, <2>3
<1>9. ChosenFrom(s, A, Cap(l), list[n])
  BY <1>1, <1>8 DEF D
<1> QED  BY <1>0, <1>9

LEMMA LinkNodeIs ==
  ASSUME NEW g, Sound(g), NEW plan, PlanFits(g, plan), NEW s, SlotOf(g, plan, s),
         NEW r \in 1 .. Len(g.nodes) + 1, NEW l \in Nat, l <= s.nodes[r].level
  PROVE  ChosenFrom(s, OnLayer(s, l) \ {r}, Cap(l),
                    LinkNode(s, Len(g.nodes) + 1, r).links[l])
<1> DEFINE row == Len(g.nodes) + 1
           N == LinkNode(s, row, r)
           old == Links(s, r, l)
           A == OnLayer(s, l) \ {r}
           v == s.nodes[r].level
<1>1. /\ Len(g.nodes) \in Nat /\ row \in Nat /\ Len(s.nodes) = row
      /\ \A i \in 1 .. Len(g.nodes) : s.nodes[i] = g.nodes[i]
      /\ s.nodes[row] = [at |-> plan.at, level |-> plan.level,
                         links |-> [i \in 0 .. plan.level |-> Chosen(g, plan, i)]]
      /\ plan.level \in Nat
  BY PlanNumbers DEF SlotOf, Sound
<1>2. Positioned(s) /\ Rows(s) = 1 .. row
      /\ OnLayer(s, l) = OnLayer(g, l) \cup IF plan.level >= l THEN {row} ELSE {}
  BY SlotSound
<1>3. v \in Nat /\ l \in 0 .. v
  <2>1. CASE r = row
    <3>1. v = plan.level
      BY <1>1, <2>1
    <3> QED  BY <1>1, <3>1
  <2>2. CASE r # row
    <3>1. r \in 1 .. Len(g.nodes)
      BY <1>1, <2>2
    <3>2. v = g.nodes[r].level
      BY <1>1, <3>1
    <3>3. g.nodes[r].level \in 0 .. MaxLevel
      BY <3>1 DEF Sound, NodeSound
    <3> HIDE DEF v
    <3>4. v \in Nat
      BY <3>2, <3>3, SizesAssumption
    <3> QED  BY <3>4 DEF v
  <2> QED  BY <2>1, <2>2
<1>4. N.links[l] = IF l > plan.level THEN old ELSE BackLinked(s, row, r, l)
  <2>1. N.links = [i \in 0 .. v |->
                     IF i > s.nodes[row].level THEN Links(s, r, i)
                     ELSE BackLinked(s, row, r, i)]
    BY DEF LinkNode
  <2>2. s.nodes[row].level = plan.level
    BY <1>1
  <2> HIDE DEF N, v
  <2> QED  BY <1>3, <2>1, <2>2
<1>5. OnLayer(g, l) \subseteq 1 .. Len(g.nodes) /\ row \notin 1 .. Len(g.nodes)
  BY <1>1 DEF OnLayer
\* What the new row names, and what a row knew before.
<1>6. ASSUME l <= plan.level
      PROVE  /\ Links(s, row, l) = Chosen(g, plan, l)
             /\ ChosenFrom(s, OnLayer(g, l), Cap(l), Links(s, row, l))
             /\ Links(s, row, l) \in Seq(OnLayer(g, l))
             /\ ToSet(Links(s, row, l)) \subseteq OnLayer(g, l)
             /\ Once(s) => IsInjective(Links(s, row, l))
  <2>1. l \in 0 .. plan.level
    BY <1>1, <1>6
  <2>2. Links(s, row, l) = Chosen(g, plan, l)
    BY <1>1, <2>1 DEF Links
  <2>3. ChosenFrom(s, OnLayer(g, l), Cap(l), Links(s, row, l))
    BY <2>1, <2>2, ChosenIs
  <2> HIDE DEF row
  <2> QED  BY <2>2, <2>3, InSet DEF ChosenFrom
<1>7. ChosenFrom(s, A, Cap(l), old) /\ row \notin ToSet(old)
  <2>1. CASE r = row
    <3>1. l <= plan.level
      BY <1>1, <1>3, <2>1
    <3>2. OnLayer(g, l) \subseteq A
      BY <1>2, <1>5, <2>1
    <3> HIDE DEF A, row
    <3>3. ChosenFrom(s, OnLayer(g, l), Cap(l), old) /\ ToSet(old) \subseteq OnLayer(g, l)
      BY <1>6, <2>1, <3>1
    <3> HIDE DEF old
    <3>4. old \in Seq(A)
      BY <3>2, <3>3, InWiderSet DEF ChosenFrom
    <3> QED  BY <1>5, <3>3, <3>4 DEF ChosenFrom
  <2>2. CASE r # row
    <3>1. r \in 1 .. Len(g.nodes)
      BY <1>1, <2>2
    <3>2. old = Links(g, r, l) /\ r \in OnLayer(g, l)
      BY <1>1, <3>1 DEF Links, OnLayer
    <3>3. /\ old \in Seq(OnLayer(g, l) \ {r}) /\ ToSet(old) \subseteq OnLayer(g, l) \ {r}
          /\ Once(g) => IsInjective(old)
          /\ Len(old) <= Cap(l)
      <4> HIDE DEF old
      <4> QED  BY <3>2, LinksAre
    <3>4. OnLayer(g, l) \ {r} \subseteq A
      BY <1>2
    <3>5. Once(s) => Once(g)
      <4>1. /\ Len(g.nodes) <= Len(s.nodes) /\ Len(s.nodes) \in Nat
            /\ \A i \in 1 .. Len(g.nodes) : s.nodes[i].at = g.nodes[i].at
        BY <1>1
      <4> HIDE DEF row
      <4> QED  BY <1>1, <4>1, OnceBefore
    <3> HIDE DEF old, A, row
    <3>6. old \in Seq(A)
      BY <3>3, <3>4, InWiderSet
    <3> QED  BY <1>5, <3>3, <3>5, <3>6 DEF ChosenFrom
  <2> QED  BY <2>1, <2>2
<1>8. CASE l > plan.level
  <2> HIDE DEF A, old, N
  <2> QED  BY <1>4, <1>7, <1>8 DEF A, N
<1>9. CASE ~(l > plan.level)
  <2>1. l <= plan.level
    BY <1>1, <1>9
  <2>2. row \in A \/ r \notin ToSet(Links(s, row, l))
    <3>1. CASE r = row
      <4> HIDE DEF row
      <4> QED  BY <1>5, <1>6, <2>1, <3>1
    <3>2. CASE r # row
      <4>1. plan.level >= l
        BY <1>1, <2>1
      <4> HIDE DEF row
      <4> QED  BY <1>2, <3>2, <4>1
    <3> QED  BY <3>1, <3>2
  <2>3. A \in SUBSET (1 .. Len(s.nodes))
    BY DEF OnLayer
  <2>4. row \in 1 .. Len(s.nodes) /\ r \in 1 .. Len(s.nodes) /\ Rows(s) = 1 .. Len(s.nodes)
    BY <1>1, <1>2
  <2> HIDE DEF A, row, N
  <2>5. ChosenFrom(s, A, Cap(l), BackLinked(s, row, r, l))
    BY <1>2, <1>6, <1>7, <2>1, <2>2, <2>3, <2>4, BackLinkedIs DEF old
  <2> QED  BY <1>4, <1>9, <2>5 DEF A, N, row
<1> QED  BY <1>8, <1>9

\* The graph has one more row; the rows it had keep their points and levels.
Grown(g, plan, h) ==
  /\ Sound(h) /\ Len(h.nodes) = Len(g.nodes) + 1 /\ h.entry # 0
  /\ \A r \in 1 .. Len(g.nodes) : /\ h.nodes[r].at = g.nodes[r].at
                                  /\ h.nodes[r].level = g.nodes[r].level

LEMMA Linked ==
  ASSUME NEW g, Sound(g), NEW plan, PlanFits(g, plan)
  PROVE  Grown(g, plan, LinkRow(g, plan))
<1> DEFINE s == AddSlot(g, plan)
           n == Len(g.nodes)
           row == n + 1
           h == LinkRow(g, plan)
           higher == g.entry = 0 \/ plan.level > g.top
<1>0. SlotOf(g, plan, s)
  BY SlotIs
<1>1. h = [nodes |-> [r \in 1 .. row |-> LinkNode(s, row, r)],
           entry |-> IF higher THEN row ELSE g.entry,
           top   |-> IF higher THEN plan.level ELSE g.top]
  BY DEF LinkRow
<1> HIDE DEF s, h
<1>2. /\ n \in Nat /\ Len(s.nodes) = row
      /\ \A i \in 1 .. n : s.nodes[i] = g.nodes[i]
      /\ s.nodes[row].at = plan.at /\ s.nodes[row].level = plan.level
  BY <1>0 DEF SlotOf, Sound
<1>3. plan.level \in 0 .. MaxLevel /\ plan.level \in Nat /\ plan.at \in Points
  BY PlanNumbers DEF PlanFits
<1>4. \A r \in 1 .. row : r \in 1 .. n \/ r = row
  BY <1>2
<1>5. g.top \in -1 .. MaxLevel
      /\ (g.entry # 0 => g.entry \in 1 .. n /\ g.nodes[g.entry].level = g.top)
      /\ (g.entry = 0 => n = 0)
  BY DEF Sound, EntrySound
<1>6. /\ h.nodes = [r \in 1 .. row |-> LinkNode(s, row, r)]
      /\ h.entry = IF higher THEN row ELSE g.entry
      /\ h.top = IF higher THEN plan.level ELSE g.top
      /\ h = [nodes |-> h.nodes, entry |-> h.entry, top |-> h.top]
  BY <1>1
<1>7. Len(h.nodes) = row
  BY <1>2, <1>6
<1>8. ASSUME NEW r \in 1 .. row
      PROVE  /\ h.nodes[r] = LinkNode(s, row, r)
             /\ h.nodes[r].at = s.nodes[r].at /\ h.nodes[r].level = s.nodes[r].level
             /\ h.nodes[r] = [at |-> h.nodes[r].at, level |-> h.nodes[r].level,
                              links |-> h.nodes[r].links]
             /\ h.nodes[r].links =
                  [l \in 0 .. h.nodes[r].level |-> h.nodes[r].links[l]]
  <2>1. h.nodes[r] = LinkNode(s, row, r)
    BY <1>6
  <2> DEFINE N == LinkNode(s, row, r)
  <2>2. /\ N.at = s.nodes[r].at /\ N.level = s.nodes[r].level
        /\ N = [at |-> N.at, level |-> N.level, links |-> N.links]
        /\ N.links = [l \in 0 .. s.nodes[r].level |-> N.links[l]]
    BY DEF LinkNode
  <2> HIDE DEF N
  <2> QED  BY <2>1, <2>2 DEF N
<1>9. \A l \in Nat : OnLayer(h, l) = OnLayer(s, l)
  BY <1>2, <1>7, <1>8 DEF OnLayer
<1>10. ASSUME NEW r \in 1 .. row
       PROVE  /\ h.nodes[r].at \in Points /\ h.nodes[r].level \in 0 .. MaxLevel
              /\ h.nodes[r].level <= h.top
  <2>1. CASE r = row
    <3>1. h.nodes[r].at = plan.at /\ h.nodes[r].level = plan.level
      BY <1>2, <1>8, <2>1
    <3>2. plan.level <= h.top
      <4>1. g.top \in Int
        BY <1>5
      <4> QED  BY <1>3, <1>6, <4>1
    <3> QED  BY <1>3, <3>1, <3>2
  <2>2. CASE r \in 1 .. n
    <3>1. h.nodes[r].at = g.nodes[r].at /\ h.nodes[r].level = g.nodes[r].level
      BY <1>2, <1>8, <2>2
    <3>2. /\ g.nodes[r].at \in Points /\ g.nodes[r].level \in 0 .. MaxLevel
          /\ g.nodes[r].level <= g.top
      BY <2>2 DEF Sound, NodeSound
    <3>3. g.top <= h.top
      <4>1. g.entry # 0
        BY <1>2, <1>5, <2>2
      <4>2. g.top \in Int
        BY <1>5
      <4> QED  BY <1>3, <1>6, <4>1, <4>2
    <3>4. g.top \in Int /\ h.top \in Int /\ g.nodes[r].level \in Int
      <4>1. g.top \in Int
        BY <1>5
      <4> QED  BY <1>3, <1>6, <3>2, <4>1
    <3>5. g.nodes[r].level <= h.top
      BY <3>2, <3>3, <3>4
    <3> QED  BY <3>1, <3>2, <3>5
  <2> QED  BY <1>4, <2>1, <2>2
<1>11. ASSUME NEW r \in 1 .. row, NEW l \in 0 .. h.nodes[r].level
       PROVE  ListSound(h, r, l, h.nodes[r].links[l])
  <2>1. l \in Nat /\ l <= s.nodes[r].level
    <3>1. h.nodes[r].level \in 0 .. MaxLevel /\ h.nodes[r].level = s.nodes[r].level
      BY <1>8, <1>10
    <3> QED  BY <3>1
  <2> DEFINE t == LinkNode(s, row, r).links[l]
  <2>2. ChosenFrom(s, OnLayer(s, l) \ {r}, Cap(l), t)
    BY <1>0, <2>1, LinkNodeIs
  <2>3. h.nodes[r].links[l] = t
    BY <1>8
  <2> HIDE DEF t
  <2>4. Once(h) => Once(s)
    <3>a. row \in Nat /\ Len(s.nodes) = row /\ Len(h.nodes) = row
      BY <1>2, <1>7
    <3>b. \A i \in 1 .. row : h.nodes[i].at = s.nodes[i].at
      BY <1>8
    <3> HIDE DEF row, n
    <3>1. Len(s.nodes) \in Nat /\ Len(h.nodes) = Len(s.nodes)
          /\ \A i \in 1 .. Len(s.nodes) : h.nodes[i].at = s.nodes[i].at
      BY <3>a, <3>b
    <3>2. Len(s.nodes) <= Len(h.nodes) /\ Len(h.nodes) \in Nat
      BY <3>1
    <3> QED  BY <3>1, <3>2, OnceBefore
  <2>5. ListSound(h, r, l, t)
    BY <1>9, <2>1, <2>2, <2>4 DEF ChosenFrom, ListSound
  <2> QED  BY <2>3, <2>5
<1>12. \A r \in 1 .. Len(h.nodes) : NodeSound(h, r)
  <2> SUFFICES ASSUME NEW r \in 1 .. row
               PROVE  NodeSound(h, r)
    BY <1>7
  <2> QED  BY <1>8, <1>10, <1>11 DEF NodeSound
<1>13. EntrySound(h) /\ h.entry # 0
  <2>1. row \in 1 .. row /\ row # 0 /\ 1 .. n \subseteq 1 .. row
    BY <1>2
  <2>2. h.nodes[row].level = plan.level
    BY <1>2, <1>8, <2>1
  <2>3. CASE higher
    <3>1. plan.level \in -1 .. MaxLevel
      BY <1>3
    <3>2. h.entry = row /\ h.top = plan.level
      BY <1>6, <2>3
    <3> HIDE DEF row
    <3> QED  BY <1>7, <2>1, <2>2, <3>1, <3>2 DEF EntrySound
  <2>4. CASE ~higher
    <3>1. h.entry = g.entry /\ h.top = g.top /\ g.entry \in 1 .. n
          /\ g.nodes[g.entry].level = g.top /\ g.entry # 0
      BY <1>5, <1>6, <2>4
    <3>2. h.nodes[g.entry].level = g.top
      BY <1>2, <1>8, <2>1, <3>1
    <3> HIDE DEF row
    <3> QED  BY <1>5, <1>7, <2>1, <3>1, <3>2 DEF EntrySound
  <2> QED  BY <2>3, <2>4
<1>14. Sound(h)
  <2>1. Len(h.nodes) \in Nat /\ h.nodes = [r \in 1 .. Len(h.nodes) |-> h.nodes[r]]
    BY <1>2, <1>6, <1>7
  <2> QED  BY <1>6, <1>12, <1>13, <2>1 DEF Sound
<1>15. Grown(g, plan, h)
  <2>1. ASSUME NEW r \in 1 .. n
        PROVE  h.nodes[r].at = g.nodes[r].at /\ h.nodes[r].level = g.nodes[r].level
    <3>1. r \in 1 .. row
      BY <1>2
    <3> QED  BY <1>2, <1>8, <3>1
  <2> QED  BY <1>7, <1>13, <1>14, <2>1 DEF Grown
<1> QED  BY <1>15 DEF h

-----------------------------------------------------------------------------
(* Adding rows, one by one and in waves.                                   *)

\* Graph f is an earlier state of graph g.
Older(f, g) ==
  /\ Len(f.nodes) <= Len(g.nodes)
  /\ \A r \in 1 .. Len(f.nodes) : g.nodes[r].level = f.nodes[r].level

LEMMA PlanKeepsFitting ==
  ASSUME NEW f, Sound(f), NEW g, Sound(g), Older(f, g), g.entry # 0 => f.entry # 0,
         NEW q \in Points, NEW level \in 0 .. MaxLevel
  PROVE  PlanFits(g, PlanRow(f, q, level))
<1> DEFINE plan == PlanRow(f, q, level)
<1>1. level \in Nat
  BY SizesAssumption
<1>2. PlanIs(f, q, level, plan)
  BY <1>1, Planned
<1> HIDE DEF plan
<1>3. f.top \in Int
  <2>1. f.top \in -1 .. MaxLevel
    BY DEF Sound, EntrySound
  <2> QED  BY <2>1
<1>4. ASSUME g.entry # 0, NEW l \in 0 .. level, l <= f.top
      PROVE  plan.layers[l] \in Seq(OnLayer(g, l))
  <2>1. plan.layers[l] \in Seq(OnLayer(f, l))
    BY <1>2, <1>4 DEF PlanIs
  <2>2. OnLayer(f, l) \subseteq OnLayer(g, l)
    <3>1. Len(f.nodes) \in Nat /\ Len(g.nodes) \in Nat
      BY DEF Sound
    <3> QED  BY <3>1 DEF OnLayer, Older
  <2> QED  BY <2>1, <2>2, InWiderSet
<1>5. plan.at = q /\ plan.level = level /\ plan.frozen = f.top
  BY <1>2 DEF PlanIs
<1>6. PlanFits(g, plan)
  BY <1>1, <1>3, <1>4, <1>5 DEF PlanFits
<1> QED  BY <1>6 DEF plan

\* Row by row, every graph is sound.
LEMMA RowAdded ==
  ASSUME NEW g, Sound(g), NEW q \in Points, NEW level \in 0 .. MaxLevel
  PROVE  Sound(AddRow(g, q, level)) /\ Len(AddRow(g, q, level).nodes) = Len(g.nodes) + 1
<1> DEFINE plan == PlanRow(g, q, level)
<1>1. Older(g, g)
  BY DEF Older, Sound
<1>2. PlanFits(g, plan)
  BY <1>1, PlanKeepsFitting
<1> HIDE DEF plan
<1>3. Grown(g, plan, LinkRow(g, plan))
  BY <1>2, Linked
<1>4. AddRow(g, q, level) = LinkRow(g, plan)
  BY DEF AddRow, plan
<1> QED  BY <1>3, <1>4 DEF Grown

\* The sets that a graph and its nodes are members of.
NodeSet  == [at : Points, level : 0 .. MaxLevel,
             links : UNION {[0 .. l -> Seq(Nat)] : l \in 0 .. MaxLevel}]
GraphSet == [nodes : Seq(NodeSet), entry : Nat, top : Int]

LEMMA InGraphSet ==
  ASSUME NEW g, Sound(g)
  PROVE  g \in GraphSet
<1>1. /\ g = [nodes |-> g.nodes, entry |-> g.entry, top |-> g.top]
      /\ Len(g.nodes) \in Nat /\ g.nodes = [r \in 1 .. Len(g.nodes) |-> g.nodes[r]]
  BY DEF Sound
<1>2. g.entry \in Nat /\ g.top \in Int
  <2>1. g.top \in -1 .. MaxLevel /\ (g.entry = 0 \/ g.entry \in 1 .. Len(g.nodes))
    BY DEF Sound, EntrySound
  <2> QED  BY <2>1
<1>3. ASSUME NEW r \in 1 .. Len(g.nodes)
      PROVE  g.nodes[r] \in NodeSet
  <2> DEFINE n == g.nodes[r]
  <2>1. /\ n = [at |-> n.at, level |-> n.level, links |-> n.links]
        /\ n.at \in Points /\ n.level \in 0 .. MaxLevel
        /\ n.links = [l \in 0 .. n.level |-> n.links[l]]
        /\ \A l \in 0 .. n.level : ListSound(g, r, l, n.links[l])
    BY DEF Sound, NodeSound
  <2> HIDE DEF n
  <2>2. ASSUME NEW l \in 0 .. n.level
        PROVE  n.links[l] \in Seq(Nat)
    <3>1. n.links[l] \in Seq(OnLayer(g, l) \ {r})
      BY <2>1 DEF ListSound
    <3>2. OnLayer(g, l) \ {r} \subseteq Nat
      BY DEF OnLayer
    <3> QED  BY <3>1, <3>2, InWiderSet
  <2>3. n.links \in [0 .. n.level -> Seq(Nat)]
    BY <2>1, <2>2
  <2>4. n.links \in UNION {[0 .. l -> Seq(Nat)] : l \in 0 .. MaxLevel}
    BY <2>1, <2>3
  <2>5. n \in NodeSet
    BY <2>1, <2>4 DEF NodeSet
  <2> QED  BY <2>5 DEF n
<1>4. g.nodes \in Seq(NodeSet)
  <2>1. g.nodes \in [1 .. Len(g.nodes) -> NodeSet]
    BY <1>1, <1>3
  <2> QED  BY <1>1, <2>1
<1> QED  BY <1>1, <1>2, <1>4 DEF GraphSet

\* The rows of a bulk call.
BatchFits(batch) ==
  /\ Len(batch) \in Nat
  /\ \A i \in 1 .. Len(batch) : batch[i][1] \in Points /\ batch[i][2] \in 0 .. MaxLevel

\* The call after i of its rows.
BuildSound(g, i, b) ==
  /\ b = [graph |-> b.graph, frozen |-> b.frozen, count |-> b.count]
  /\ Sound(b.graph) /\ Sound(b.frozen) /\ Older(b.frozen, b.graph) /\ b.count \in Nat
  /\ Len(b.graph.nodes) = Len(g.nodes) + i

LEMMA WaveStays ==
  ASSUME NEW g, Sound(g), NEW batch, BatchFits(batch), NEW wave \in Nat,
         NEW i \in 1 .. Len(batch), NEW b, BuildSound(g, i - 1, b)
  PROVE  BuildSound(g, i, AddToWave(b, batch[i], wave))
<1> DEFINE fresh == b.count = wave \/ b.frozen.entry = 0
           frozen == IF fresh THEN b.graph ELSE b.frozen
           q == batch[i][1]
           level == batch[i][2]
           plan == PlanRow(frozen, q, level)
           h == LinkRow(b.graph, plan)
           c == AddToWave(b, batch[i], wave)
           n == Len(b.graph.nodes)
<1>1. c = [graph |-> h, frozen |-> frozen, count |-> IF fresh THEN 1 ELSE b.count + 1]
  BY DEF AddToWave
<1>2. /\ Sound(b.graph) /\ Sound(b.frozen) /\ Older(b.frozen, b.graph) /\ b.count \in Nat
      /\ n = Len(g.nodes) + (i - 1)
  BY DEF BuildSound
<1>3. i \in Nat /\ Len(batch) \in Nat /\ level \in 0 .. MaxLevel /\ q \in Points
      /\ n \in Nat /\ Len(g.nodes) \in Nat
  BY <1>2 DEF BatchFits, Sound
<1>4. /\ Sound(frozen) /\ Older(frozen, b.graph)
      /\ b.graph.entry # 0 => frozen.entry # 0
  <2>1. Older(b.graph, b.graph)
    BY <1>3 DEF Older
  <2>2. CASE fresh
    <3>1. frozen = b.graph
      BY <2>2
    <3> QED  BY <1>2, <2>1, <3>1
  <2>3. CASE ~fresh
    <3>1. frozen = b.frozen /\ b.frozen.entry # 0
      BY <2>3
    <3> QED  BY <1>2, <3>1
  <2> QED  BY <2>2, <2>3
<1> HIDE DEF frozen
<1>5. PlanFits(b.graph, plan)
  <2> HIDE DEF q, level
  <2> QED  BY <1>2, <1>3, <1>4, PlanKeepsFitting
<1>6. Grown(b.graph, plan, h)
  <2> HIDE DEF plan
  <2> QED  BY <1>2, <1>5, Linked
<1> HIDE DEF plan, h
<1>8. /\ Sound(h) /\ Len(h.nodes) = n + 1
      /\ \A r \in 1 .. n : /\ h.nodes[r].at = b.graph.nodes[r].at
                           /\ h.nodes[r].level = b.graph.nodes[r].level
  BY <1>6 DEF Grown
<1>9. Older(frozen, h)
  <2>1. /\ Len(frozen.nodes) \in Nat /\ Len(frozen.nodes) <= n
        /\ \A r \in 1 .. Len(frozen.nodes) : b.graph.nodes[r].level = frozen.nodes[r].level
    BY <1>4 DEF Older, Sound
  <2> HIDE DEF n
  <2>2. \A r \in 1 .. Len(frozen.nodes) : r \in 1 .. n
    BY <1>3, <2>1
  <2>3. Len(frozen.nodes) <= Len(h.nodes)
    BY <1>3, <1>8, <2>1
  <2> QED  BY <1>8, <2>1, <2>2, <2>3 DEF Older
<1>11. Len(h.nodes) = Len(g.nodes) + i
  <2> HIDE DEF n
  <2> QED  BY <1>2, <1>3, <1>8
<1>12. c.graph = h /\ c.frozen = frozen /\ c.count \in Nat
       /\ c = [graph |-> c.graph, frozen |-> c.frozen, count |-> c.count]
  <2> DEFINE count == IF fresh THEN 1 ELSE b.count + 1
  <2>1. count \in Nat
    BY <1>2
  <2> HIDE DEF count
  <2>2. c = [graph |-> h, frozen |-> frozen, count |-> count]
    BY <1>1 DEF count
  <2> HIDE DEF c
  <2> QED  BY <2>1, <2>2
<1> HIDE DEF c
<1>13. BuildSound(g, i, c)
  BY <1>4, <1>8, <1>9, <1>11, <1>12 DEF BuildSound
<1> QED  BY <1>13 DEF c

LEMMA BatchAdded ==
  ASSUME NEW g, Sound(g), NEW batch, BatchFits(batch), NEW wave \in Nat
  PROVE  /\ Sound(AddBulk(g, batch, wave))
         /\ Len(AddBulk(g, batch, wave).nodes) = Len(g.nodes) + Len(batch)
<1> DEFINE n == Len(batch)
           base == [graph |-> g, frozen |-> g, count |-> wave]
           Next1(x, i) == AddToWave(x, batch[i], wave)
           F(h) == [i \in 0 .. n |-> IF i = 0 THEN base ELSE Next1(h[i - 1], i)]
           build == CHOOSE h : h = F(h)
           D == [i \in 0 .. n |->
                   {b \in [graph : GraphSet, frozen : GraphSet, count : Nat] :
                      BuildSound(g, i, b)}]
           step == [i \in 1 .. n |-> [x \in D[i - 1] |-> Next1(x, i)]]
<1>0. AddBulk(g, batch, wave) = build[n].graph
  BY DEF AddBulk
<1>1. n \in Nat
  BY DEF BatchFits
<1>2. \A i \in 0 .. n : \A b : b \in D[i] <=> BuildSound(g, i, b)
  <2>1. ASSUME NEW i \in 0 .. n, NEW b, BuildSound(g, i, b)
        PROVE  b \in [graph : GraphSet, frozen : GraphSet, count : Nat]
    <3>1. /\ b = [graph |-> b.graph, frozen |-> b.frozen, count |-> b.count]
          /\ Sound(b.graph) /\ Sound(b.frozen) /\ b.count \in Nat
      BY <2>1 DEF BuildSound
    <3>2. b.graph \in GraphSet /\ b.frozen \in GraphSet
      BY <3>1, InGraphSet
    <3> QED  BY <3>1, <3>2
  <2> QED  BY <2>1
<1> HIDE DEF D
<1>3. base \in D[0]
  <2>1. BuildSound(g, 0, base)
    <3>1. Older(g, g) /\ Len(g.nodes) = Len(g.nodes) + 0
      BY DEF Older, Sound
    <3> QED  BY <3>1 DEF BuildSound, BatchFits
  <2> QED  BY <1>1, <1>2, <2>1
<1>4. ASSUME NEW i \in 1 .. n, NEW x \in D[i - 1]
      PROVE  Next1(x, i) \in D[i]
  <2>1. i \in 0 .. n /\ i - 1 \in 0 .. n
    BY <1>1
  <2>2. BuildSound(g, i - 1, x)
    BY <1>2, <2>1
  <2>3. BuildSound(g, i, Next1(x, i))
    BY <2>2, WaveStays
  <2> HIDE DEF Next1
  <2> QED  BY <1>2, <2>1, <2>3
<1> HIDE DEF n, base, Next1
<1>5. Takes(n, D, step)
  BY <1>4 DEF Takes
<1>6. PICK T, k : k \in [0 .. n -> T] /\ Run(n, D, base, step, k)
  <2> HIDE DEF step
  <2> QED  BY <1>1, <1>3, <1>5, Iterates
<1>7. k = F(k)
  <2>1. ASSUME NEW i \in 1 .. n
        PROVE  k[i] = Next1(k[i - 1], i)
    <3>1. i - 1 \in 0 .. n
      BY <1>1
    <3>2. k[i - 1] \in D[i - 1]
      BY <1>6, <3>1 DEF Run
    <3> QED  BY <1>6, <3>2 DEF Run
  <2>2. \A i \in 0 .. n : i = 0 \/ i \in 1 .. n
    BY <1>1
  <2>3. k[0] = base
    BY <1>6 DEF Run
  <2> QED  BY <1>6, <2>1, <2>2, <2>3
<1>8. build = F(build)
  <2> HIDE DEF F
  <2> QED  BY <1>7 DEF Next1, n, base
<1> HIDE DEF build
<1>9. build[n] \in D[n]
  <2>1. ASSUME NEW i \in 1 .. n, build[i - 1] \in D[i - 1]
        PROVE  build[i] \in D[i]
    <3>1. i \in 0 .. n /\ i # 0
      BY <1>1
    <3>2. build[i] = Next1(build[i - 1], i)
      BY <1>8, <3>1
    <3> QED  BY <1>4, <2>1, <3>2
  <2>2. build[0] \in D[0]
    BY <1>1, <1>3, <1>8
  <2> HIDE DEF F
  <2>3. \A i \in 0 .. n : build[i] \in D[i]
    BY <1>1, <2>1, <2>2, Stays
  <2> QED  BY <1>1, <2>3
<1>10. BuildSound(g, n, build[n])
  BY <1>1, <1>2, <1>9
<1> QED  BY <1>0, <1>10 DEF BuildSound, n

-----------------------------------------------------------------------------
(* The word stream: what is written is read back.                          *)

\* The words v stand in w behind the first p words.
Holds(w, p, v) == p + Len(v) <= Len(w) /\ \A i \in 1 .. Len(v) : w[p + i] = v[i]

LEMMA Joined ==
  ASSUME NEW u \in Seq(Int), NEW v \in Seq(Int)
  PROVE  /\ u \o v \in Seq(Int) /\ Len(u \o v) = Len(u) + Len(v)
         /\ Holds(u \o v, 0, u) /\ Holds(u \o v, Len(u), v)
<1> DEFINE w == u \o v
<1>1. /\ w \in Seq(Int) /\ Len(w) = Len(u) + Len(v)
      /\ Len(u) \in Nat /\ Len(v) \in Nat
      /\ \A i \in 1 .. Len(u) + Len(v) : w[i] = IF i <= Len(u) THEN u[i] ELSE v[i - Len(u)]
  OBVIOUS
<1> HIDE DEF w
<1>0. Len(u) \in Nat /\ Len(v) \in Nat
  OBVIOUS
<1>2. ASSUME NEW i \in 1 .. Len(u)
      PROVE  w[0 + i] = u[i]
  <2>1. PICK j \in 1 .. Len(u) + Len(v) : j = i
    BY <1>0
  <2>2. j <= Len(u) /\ 0 + i = j
    BY <1>0, <2>1
  <2>3. w[j] = u[j]
    BY <1>1, <2>2
  <2> QED  BY <2>1, <2>2, <2>3
<1>3. ASSUME NEW i \in 1 .. Len(v)
      PROVE  w[Len(u) + i] = v[i]
  <2>1. PICK j \in 1 .. Len(u) + Len(v) : j = Len(u) + i
    BY <1>0
  <2>2. ~(j <= Len(u)) /\ j - Len(u) = i
    BY <1>1, <2>1
  <2> QED  BY <1>1, <2>1, <2>2
<1>4. Holds(w, 0, u) /\ Holds(w, Len(u), v)
  BY <1>1, <1>2, <1>3 DEF Holds
<1> QED  BY <1>1, <1>4 DEF w

LEMMA HoldsPart ==
  ASSUME NEW w \in Seq(Int), NEW v \in Seq(Int), NEW x \in Seq(Int),
         NEW p \in Nat, NEW q \in Nat, Holds(w, p, v), Holds(v, q, x)
  PROVE  Holds(w, p + q, x)
<1>1. Len(w) \in Nat /\ Len(v) \in Nat /\ Len(x) \in Nat
  OBVIOUS
<1>2. p + Len(v) <= Len(w) /\ q + Len(x) <= Len(v)
  BY DEF Holds
<1>3. ASSUME NEW i \in 1 .. Len(x)
      PROVE  w[p + q + i] = x[i]
  <2>1. PICK j \in 1 .. Len(v) : j = q + i
    BY <1>1, <1>2
  <2>2. w[p + j] = v[j] /\ v[j] = x[i] /\ p + j = p + q + i
    BY <1>1, <2>1 DEF Holds
  <2> QED  BY <2>2
<1> QED  BY <1>1, <1>2, <1>3 DEF Holds

\* Streams of which each continues the one before.
Chain(last, W) ==
  /\ \A i \in 0 .. last : W[i] \in Seq(Int)
  /\ \A i \in 1 .. last : \E x \in Seq(Int) : W[i] = W[i - 1] \o x

LEMMA ChainHolds ==
  ASSUME NEW last \in Nat, NEW W, Chain(last, W)
  PROVE  \A j \in 0 .. last : \A i \in 0 .. j : Holds(W[j], 0, W[i])
<1> DEFINE S == {j \in 0 .. last : \A i \in 0 .. j : Holds(W[j], 0, W[i])}
<1>1. ASSUME NEW j \in 0 .. last
      PROVE  Holds(W[j], 0, W[j])
  <2>1. W[j] \in Seq(Int)
    BY DEF Chain
  <2> QED  BY <2>1 DEF Holds
<1>2. 0 \in S
  <2>1. \A i \in 0 .. 0 : i = 0
    OBVIOUS
  <2> QED  BY <1>1, <2>1
<1>3. ASSUME NEW n \in 0 .. last - 1, n \in S
      PROVE  n + 1 \in S
  <2>1. PICK m \in 1 .. last : m = n + 1
    OBVIOUS
  <2>2. m - 1 = n /\ m \in 0 .. last /\ n \in 0 .. last
    BY <2>1
  <2>3. PICK x \in Seq(Int) : W[m] = W[n] \o x
    BY <2>2 DEF Chain
  <2>4. W[n] \in Seq(Int) /\ W[m] \in Seq(Int)
    BY <2>2 DEF Chain
  <2>5. Holds(W[m], 0, W[n])
    BY <2>3, <2>4, Joined
  <2>6. ASSUME NEW i \in 0 .. m
        PROVE  Holds(W[m], 0, W[i])
    <3>1. CASE i = m
      BY <1>1, <2>2, <3>1
    <3>2. CASE i # m
      <4>1. i \in 0 .. n /\ i \in 0 .. last
        BY <2>1, <3>2
      <4>2. Holds(W[n], 0, W[i]) /\ W[i] \in Seq(Int)
        BY <1>3, <4>1 DEF Chain
      <4>3. Holds(W[m], 0 + 0, W[i])
        BY <2>4, <2>5, <4>2, HoldsPart
      <4> QED  BY <4>3
    <3> QED  BY <3>1, <3>2
  <2> QED  BY <2>1, <2>2, <2>6
<1> HIDE DEF S
<1>4. \A n \in 0 .. last : n \in S
  BY <1>2, <1>3, UpTo
<1> QED  BY <1>4 DEF S

LEMMA ListWordsAre ==
  ASSUME NEW list \in Seq(Nat)
  PROVE  /\ ListWords(list) \in Seq(Int) /\ Len(ListWords(list)) = Len(list) + 1
         /\ ListWords(list)[1] = Len(list)
         /\ \A i \in 1 .. Len(list) : ListWords(list)[i + 1] = list[i]
<1> DEFINE a == <<Len(list)>>
           w == a \o list
<1>1. a \in Seq(Int) /\ list \in Seq(Int) /\ Len(a) = 1 /\ a[1] = Len(list) /\ Len(list) \in Nat
  OBVIOUS
<1>2. ListWords(list) = w
  BY DEF ListWords
<1> HIDE DEF a
<1>3. w \in Seq(Int) /\ Len(w) = 1 + Len(list) /\ Holds(w, 0, a) /\ Holds(w, 1, list)
  BY <1>1, Joined
<1> HIDE DEF w
<1>4. w[0 + 1] = a[1]
  BY <1>1, <1>3 DEF Holds
<1>5. \A i \in 1 .. Len(list) : w[1 + i] = list[i] /\ 1 + i = i + 1
  BY <1>1, <1>3 DEF Holds
<1> QED  BY <1>1, <1>2, <1>3, <1>4, <1>5

Moved(reader, e, b) == [reader EXCEPT !.pos = e, !.lists = b]

LEMMA ReaderMoved ==
  ASSUME NEW k, NEW p, NEW ls, NEW e, NEW b
  PROVE  Moved([ok |-> k, pos |-> p, lists |-> ls], e, b) =
           [ok |-> k, pos |-> e, lists |-> b]
<1> DEFINE reader == [ok |-> k, pos |-> p, lists |-> ls]
<1>1. PICK x : x = [reader EXCEPT !.pos = e]
  OBVIOUS
<1>2. x = [ok |-> k, pos |-> e, lists |-> ls]
  BY ONLY <1>1
<1>3. [x EXCEPT !.lists = b] = [ok |-> k, pos |-> e, lists |-> b]
  BY ONLY <1>2
<1> QED  BY ONLY <1>1, <1>3 DEF Moved

LEMMA ListRead ==
  ASSUME NEW w \in Seq(Int), NEW p \in Nat, NEW count \in Nat,
         NEW list \in Seq(1 .. count), Len(list) <= count,
         Holds(w, p, ListWords(list)), NEW lists
  PROVE  ReadList(w, count, [ok |-> TRUE, pos |-> p + 1, lists |-> lists]) =
           [ok |-> TRUE, pos |-> p + Len(ListWords(list)) + 1, lists |-> Append(lists, list)]
<1> DEFINE reader == [ok |-> TRUE, pos |-> p + 1, lists |-> lists]
           n == Len(list)
           v == ListWords(list)
           end == p + 1 + n
           S == 1 .. count
<1>1. list \in Seq(Nat) /\ n \in Nat
  <2>1. S \subseteq Nat /\ list \in Seq(S)
    OBVIOUS
  <2> HIDE DEF S
  <2> QED  BY <2>1, InWiderSet
<1>2. v \in Seq(Int) /\ Len(v) = n + 1 /\ v[1] = n /\ \A i \in 1 .. n : v[i + 1] = list[i]
  BY <1>1, ListWordsAre
<1>0. Holds(w, p, v)
  OBVIOUS
<1> HIDE DEF v, n
<1>3. end <= Len(w) /\ Len(w) \in Nat /\ p + 1 <= Len(w) /\ n <= count
  BY <1>1, <1>2 DEF Holds, n, v
<1>4. w[p + 1] = n
  <2>1. 1 \in 1 .. Len(v)
    BY <1>1, <1>2
  <2> QED  BY <1>2, <2>1 DEF Holds, v
<1>5. ASSUME NEW i \in 1 .. n
      PROVE  w[p + 1 + i] = list[i]
  <2>1. PICK j \in 1 .. Len(v) : j = i + 1
    BY <1>1, <1>2
  <2>2. w[p + j] = v[j] /\ v[j] = list[i] /\ p + j = p + 1 + i
    <3>1. w[p + j] = v[j]
      BY <1>0 DEF Holds
    <3>2. v[j] = list[i]
      BY <1>2, <2>1
    <3>3. p + j = p + 1 + i
      BY <1>1, <2>1
    <3> QED  BY <3>1, <3>2, <3>3
  <2> QED  BY <2>2
<1>6. \A i \in 1 .. n : list[i] \in 1 .. count
  BY DEF n
<1>7. ASSUME NEW i \in p + 1 + 1 .. end
      PROVE  w[i] \in 1 .. count
  <2>1. PICK j \in 1 .. n : i = p + 1 + j
    <3>1. i - (p + 1) \in 1 .. n /\ i = p + 1 + (i - (p + 1))
      BY <1>1
    <3> QED  BY <3>1
  <2> QED  BY <1>5, <1>6, <2>1
<1>8. SubSeq(w, p + 1 + 1, end) = list
  <2> DEFINE t == SubSeq(w, p + 1 + 1, end)
  <2>1. /\ t \in Seq(Int) /\ Len(t) = n
        /\ \A i \in 1 .. n : t[i] = w[p + 1 + i]
    <3>1. PICK a \in Nat : a = p + 1 + 1
      OBVIOUS
    <3>2. /\ SubSeq(w, a, end) \in Seq(Int) /\ Len(SubSeq(w, a, end)) = end - a + 1
          /\ \A i \in 1 .. end - a + 1 : SubSeq(w, a, end)[i] = w[a + i - 1]
      <4>1. a \in Int /\ end \in Int
        BY <1>1, <3>1
      <4>2. \A i \in a .. end : i \in 1 .. Len(w)
        BY <1>1, <1>3, <3>1
      <4>3. \A i \in a .. end : w[i] \in Int
        BY <4>2
      <4>4. end - a + 1 = IF a <= end THEN end - a + 1 ELSE 0
        BY <1>1, <3>1
      <4> HIDE DEF end
      <4> QED  BY <4>1, <4>3, <4>4, SubSeqProperties
    <3>3. end - a + 1 = n /\ \A i \in 1 .. n : a + i - 1 = p + 1 + i
      BY <1>1, <3>1
    <3> HIDE DEF end
    <3> QED  BY <3>1, <3>2, <3>3
  <2> HIDE DEF t, end
  <2>2. list \in Seq(Int) /\ Len(list) = n
    BY <1>1 DEF n
  <2>3. \A i \in 1 .. n : t[i] = list[i]
    BY <1>5, <2>1
  <2>4. t = list
    BY <1>1, <2>1, <2>2, <2>3
  <2> QED  BY <2>4 DEF t
<1>9. ReadList(w, count, reader) =
        [reader EXCEPT !.pos = end + 1, !.lists = Append(@, SubSeq(w, p + 1 + 1, end))]
  <2>1. reader.pos = p + 1 /\ reader.ok = TRUE
    OBVIOUS
  <2>2. n \in 0 .. count /\ ~(p + 1 > Len(w)) /\ ~(end > Len(w))
    BY <1>1, <1>3
  <2> HIDE DEF reader
  <2>3. ReadList(w, count, reader) =
          IF \/ ~TRUE \/ p + 1 > Len(w)
             \/ n \notin 0 .. count \/ end > Len(w)
             \/ \E i \in p + 1 + 1 .. end : w[i] \notin 1 .. count
          THEN [reader EXCEPT !.ok = FALSE]
          ELSE [reader EXCEPT !.pos = end + 1,
                  !.lists = Append(@, SubSeq(w, p + 1 + 1, end))]
    BY <1>4, <2>1 DEF ReadList
  <2> HIDE DEF end
  <2> QED  BY <1>7, <2>2, <2>3
<1>10. end + 1 = p + Len(v) + 1
  BY <1>1, <1>2
<1> DEFINE b == Append(lists, list)
           e == p + Len(v) + 1
<1>11. [reader EXCEPT !.pos = end + 1, !.lists = Append(@, SubSeq(w, p + 1 + 1, end))] =
         [reader EXCEPT !.pos = e, !.lists = b]
  BY <1>8, <1>10
<1> HIDE DEF b, e, end
<1>12. [reader EXCEPT !.pos = e, !.lists = b] = [ok |-> TRUE, pos |-> e, lists |-> b]
  <2> DEFINE k == TRUE
             at == p + 1
  <2> HIDE DEF k, at
  <2>1. Moved([ok |-> k, pos |-> at, lists |-> lists], e, b) =
          [ok |-> k, pos |-> e, lists |-> b]
    BY ReaderMoved
  <2> QED  BY <2>1 DEF k, at, Moved
<1> QED  BY <1>9, <1>11, <1>12 DEF b, e, v

\* What the stream relies on: levels and links that the reader accepts.
NodeFits(count, top, node) ==
  /\ node.level \in Nat /\ node.level <= top
  /\ node.links = [l \in 0 .. node.level |-> node.links[l]]
  /\ \A l \in 0 .. node.level : node.links[l] \in Seq(1 .. count)

\* The reader takes the first lists of a node: none is longer than there are
\* rows.
Short(count, node, i) == \A l \in 0 .. i - 1 : Len(node.links[l]) <= count

Holdable(count, node) == Short(count, node, node.level + 1)

\* The words of a node, list by list.
NodeChain(node, W) ==
  /\ W[0] = <<node.level>>
  /\ \A i \in 1 .. node.level + 1 : W[i] = W[i - 1] \o ListWords(node.links[i - 1])
  /\ Chain(node.level + 1, W)
  /\ NodeWords(node) = W[node.level + 1]

LEMMA ListIsNat ==
  ASSUME NEW count \in Nat, NEW list \in Seq(1 .. count)
  PROVE  list \in Seq(Nat)
<1> DEFINE S == 1 .. count
<1>1. S \subseteq Nat /\ list \in Seq(S)
  OBVIOUS
<1> HIDE DEF S
<1> QED  BY <1>1, InWiderSet

LEMMA NodeWordsAre ==
  ASSUME NEW count \in Nat, NEW top \in Int, NEW node, NodeFits(count, top, node)
  PROVE  \E W : NodeChain(node, W)
<1> DEFINE last == node.level + 1
           base == <<node.level>>
           Next1(x, i) == x \o ListWords(node.links[i - 1])
           F(h) == [i \in 0 .. last |-> IF i = 0 THEN base ELSE Next1(h[i - 1], i)]
           W == CHOOSE h : h = F(h)
           D == [i \in 0 .. last |-> Seq(Int)]
           step == [i \in 1 .. last |-> [x \in Seq(Int) |-> Next1(x, i)]]
<1>0. NodeWords(node) = W[last]
  BY DEF NodeWords
<1>1. last \in Nat /\ node.level \in Nat
  BY DEF NodeFits
<1>2. ASSUME NEW i \in 1 .. last
      PROVE  ListWords(node.links[i - 1]) \in Seq(Int)
  <2>1. i - 1 \in 0 .. node.level
    BY <1>1
  <2>2. node.links[i - 1] \in Seq(Nat)
    BY <2>1, ListIsNat DEF NodeFits
  <2> QED  BY <2>2, ListWordsAre
<1>3. base \in Seq(Int)
  BY <1>1
<1>4. ASSUME NEW i \in 1 .. last, NEW x \in Seq(Int)
      PROVE  Next1(x, i) \in Seq(Int)
  BY <1>2
<1> HIDE DEF last, base
<1>5. Takes(last, D, step)
  <2>1. \A i \in 1 .. last : i \in 0 .. last /\ i - 1 \in 0 .. last
    BY <1>1
  <2> HIDE DEF Next1
  <2> QED  BY <1>4, <2>1 DEF Takes
<1>6. PICK T, k : k \in [0 .. last -> T] /\ Run(last, D, base, step, k)
  <2>1. base \in D[0]
    BY <1>1, <1>3
  <2> HIDE DEF D, step
  <2> QED  BY <1>1, <1>5, <2>1, Iterates
<1> HIDE DEF Next1
<1>7. k = F(k)
  <2>1. ASSUME NEW i \in 1 .. last
        PROVE  k[i] = Next1(k[i - 1], i)
    <3>1. i - 1 \in 0 .. last
      BY <1>1
    <3>2. k[i - 1] \in Seq(Int)
      BY <1>6, <3>1 DEF Run
    <3> QED  BY <1>6, <3>2 DEF Run
  <2>2. \A i \in 0 .. last : i = 0 \/ i \in 1 .. last
    BY <1>1
  <2>3. k[0] = base
    BY <1>6 DEF Run
  <2> QED  BY <1>6, <2>1, <2>2, <2>3
<1>8. W = F(W)
  <2> HIDE DEF F
  <2> QED  BY <1>7 DEF Next1, last, base
<1> HIDE DEF W
<1>9. W[0] = base /\ \A i \in 1 .. last : W[i] = Next1(W[i - 1], i)
  <2>1. \A i \in 1 .. last : i \in 0 .. last /\ i # 0
    BY <1>1
  <2> QED  BY <1>1, <1>8, <2>1
<1>10. \A i \in 0 .. last : W[i] \in D[i]
  <2>1. ASSUME NEW i \in 1 .. last, W[i - 1] \in D[i - 1]
        PROVE  W[i] \in D[i]
    <3>1. i \in 0 .. last /\ i - 1 \in 0 .. last
      BY <1>1
    <3> QED  BY <1>4, <1>9, <2>1, <3>1
  <2>2. W[0] \in D[0]
    BY <1>1, <1>3, <1>9
  <2> HIDE DEF D, F
  <2> QED  BY <1>1, <2>1, <2>2, Stays
<1>11. Chain(last, W)
  <2>1. \A i \in 0 .. last : W[i] \in Seq(Int)
    BY <1>10
  <2>2. ASSUME NEW i \in 1 .. last
        PROVE  \E x \in Seq(Int) : W[i] = W[i - 1] \o x
    BY <1>2, <1>9 DEF Next1
  <2> QED  BY <2>1, <2>2 DEF Chain
<1>12. NodeChain(node, W)
  BY <1>0, <1>9, <1>11 DEF NodeChain, Next1, last, base
<1> QED  BY <1>12

LEMMA OneMore ==
  ASSUME NEW S, NEW s \in Seq(S), NEW x \in S
  PROVE  /\ Append(s, x) \in Seq(S) /\ Len(Append(s, x)) = Len(s) + 1
         /\ Append(s, x)[Len(s) + 1] = x
         /\ \A i \in 1 .. Len(s) : Append(s, x)[i] = s[i]
OBVIOUS

\* The reader behind i lists of the node that stands at p.
ListsRead(node, W, p, i, x) ==
  /\ x = [ok |-> TRUE, pos |-> p + Len(W[i]) + 1, lists |-> x.lists]
  /\ x.lists \in Seq({node.links[l] : l \in 0 .. node.level}) /\ Len(x.lists) = i
  /\ \A j \in 1 .. i : x.lists[j] = node.links[j - 1]

\* List i of a node stands in the stream behind the lists before it.
StandsAt(w, p, W, i, list) ==
  /\ Holds(w, p + Len(W[i - 1]), ListWords(list))
  /\ ListWords(list) \in Seq(Int)
  /\ Len(W[i]) = Len(W[i - 1]) + Len(ListWords(list)) /\ Len(W[i - 1]) \in Nat

LEMMA ListStands ==
  ASSUME NEW w \in Seq(Int), NEW p \in Nat, NEW count \in Nat, NEW top \in Int,
         NEW node, NodeFits(count, top, node), NEW W, NodeChain(node, W),
         Holds(w, p, NodeWords(node)), NEW i \in 1 .. node.level + 1
  PROVE  StandsAt(w, p, W, i, node.links[i - 1])
<1> DEFINE last == node.level + 1
           list == node.links[i - 1]
           v == ListWords(list)
           at == p + Len(W[i - 1])
<1>1. node.level \in Nat /\ last \in Nat /\ i \in 0 .. last /\ i - 1 \in 0 .. last
      /\ i - 1 \in 0 .. node.level
  BY DEF NodeFits
<1>2. list \in Seq(1 .. count)
  BY <1>1 DEF NodeFits
<1>3. W[i] \in Seq(Int) /\ W[i - 1] \in Seq(Int) /\ W[last] \in Seq(Int) /\ Chain(last, W)
      /\ W[i] = W[i - 1] \o v /\ NodeWords(node) = W[last]
  <2>1. last \in 0 .. last
    BY <1>1
  <2> QED  BY <1>1, <2>1 DEF NodeChain, Chain
<1>4. v \in Seq(Int)
  BY <1>2, ListIsNat, ListWordsAre
<1> HIDE DEF v, last, list
<1>5. Holds(w, at, v) /\ Len(W[i]) = Len(W[i - 1]) + Len(v) /\ Len(W[i - 1]) \in Nat
  <2>1. /\ Holds(W[i], Len(W[i - 1]), v) /\ Len(W[i]) = Len(W[i - 1]) + Len(v)
        /\ Len(W[i - 1]) \in Nat
    BY <1>3, <1>4, Joined
  <2>2. Holds(W[last], 0, W[i])
    <3>1. last \in 0 .. last
      BY <1>1
    <3> QED  BY <1>1, <1>3, <3>1, ChainHolds
  <2>3. Holds(w, p + 0, W[i])
    BY <1>3, <2>2, HoldsPart
  <2>4. Holds(w, p, W[i])
    BY <2>3
  <2> QED  BY <1>3, <1>4, <2>1, <2>4, HoldsPart
<1> QED  BY <1>4, <1>5 DEF v, list, at, StandsAt

LEMMA ListsReadOn ==
  ASSUME NEW w \in Seq(Int), NEW p \in Nat, NEW count \in Nat, NEW top \in Int,
         NEW node, NodeFits(count, top, node), NEW W, NodeChain(node, W),
         Holds(w, p, NodeWords(node)),
         NEW i \in 1 .. node.level + 1, Len(node.links[i - 1]) <= count,
         NEW x, ListsRead(node, W, p, i - 1, x)
  PROVE  ListsRead(node, W, p, i, ReadList(w, count, x))
<1> DEFINE list == node.links[i - 1]
           v == ListWords(list)
           at == p + Len(W[i - 1])
           y == ReadList(w, count, x)
           S == {node.links[l] : l \in 0 .. node.level}
<1>1. node.level \in Nat /\ i \in Nat /\ i - 1 \in 0 .. node.level
  BY DEF NodeFits
<1>2. /\ list \in Seq(1 .. count) /\ Len(list) <= count /\ list \in S
  BY <1>1 DEF NodeFits
<1>3. StandsAt(w, p, W, i, list)
  BY ListStands
<1>4. v \in Seq(Int)
  BY <1>3 DEF StandsAt
<1>5. Holds(w, at, v) /\ Len(W[i]) = Len(W[i - 1]) + Len(v) /\ Len(W[i - 1]) \in Nat
  BY <1>3 DEF StandsAt
<1> HIDE DEF v, list, y, S
<1>6. x = [ok |-> TRUE, pos |-> at + 1, lists |-> x.lists]
      /\ x.lists \in Seq(S) /\ Len(x.lists) = i - 1
      /\ \A j \in 1 .. i - 1 : x.lists[j] = node.links[j - 1]
  BY DEF ListsRead, S
<1>7. y = [ok |-> TRUE, pos |-> at + Len(v) + 1, lists |-> Append(x.lists, list)]
  <2>1. at \in Nat
    BY <1>5
  <2> HIDE DEF at
  <2>2. \A ls : ReadList(w, count, [ok |-> TRUE, pos |-> at + 1, lists |-> ls]) =
                  [ok |-> TRUE, pos |-> at + Len(v) + 1, lists |-> Append(ls, list)]
    BY <1>2, <1>5, <2>1, ListRead DEF v
  <2>3. y = ReadList(w, count, [ok |-> TRUE, pos |-> at + 1, lists |-> x.lists])
    BY <1>6 DEF y
  <2> QED  BY <2>2, <2>3
<1>8. at + Len(v) + 1 = p + Len(W[i]) + 1
  <2>1. Len(v) \in Nat
    BY <1>4
  <2> QED  BY <1>5, <2>1
<1>9. y.lists = Append(x.lists, list)
      /\ y = [ok |-> TRUE, pos |-> p + Len(W[i]) + 1, lists |-> y.lists]
  BY <1>7, <1>8
<1>10. y.lists \in Seq(S) /\ Len(y.lists) = i /\ y.lists[i] = list
       /\ \A j \in 1 .. i - 1 : y.lists[j] = x.lists[j]
  <2>1. Len(x.lists) + 1 = i
    BY <1>1, <1>6
  <2> QED  BY <1>2, <1>6, <1>9, <2>1, OneMore
<1>11. ASSUME NEW j \in 1 .. i
       PROVE  y.lists[j] = node.links[j - 1]
  <2>1. j = i \/ j \in 1 .. i - 1
    BY <1>1
  <2> QED  BY <1>6, <1>10, <2>1 DEF list
<1>12. ListsRead(node, W, p, i, y)
  BY <1>9, <1>10, <1>11 DEF ListsRead, S
<1> QED  BY <1>12 DEF y

\* A reader that has met a list it does not take.
ListsRefused(node, x) ==
  /\ x = [ok |-> FALSE, pos |-> x.pos, lists |-> x.lists] /\ x.pos \in Nat
  /\ x.lists \in Seq({node.links[l] : l \in 0 .. node.level})

\* The reader behind i lists, taken or refused.
ListsSeen(count, node, W, p, i, x) ==
  IF Short(count, node, i) THEN ListsRead(node, W, p, i, x) ELSE ListsRefused(node, x)

LEMMA ListRefused ==
  ASSUME NEW k, NEW a, NEW b, NEW c
  PROVE  [[ok |-> k, pos |-> a, lists |-> b] EXCEPT !.ok = c] =
           [ok |-> c, pos |-> a, lists |-> b]
OBVIOUS

LEMMA ListsSeenOn ==
  ASSUME NEW w \in Seq(Int), NEW p \in Nat, NEW count \in Nat, NEW top \in Int,
         NEW node, NodeFits(count, top, node), NEW W, NodeChain(node, W),
         Holds(w, p, NodeWords(node)),
         NEW i \in 1 .. node.level + 1, NEW x, ListsSeen(count, node, W, p, i - 1, x)
  PROVE  ListsSeen(count, node, W, p, i, ReadList(w, count, x))
<1> DEFINE list == node.links[i - 1]
           y == ReadList(w, count, x)
<1>1. node.level \in Nat /\ i \in Nat /\ i - 1 \in 0 .. node.level
      /\ \A l : l \in 0 .. i - 1 <=> l \in 0 .. i - 1 - 1 \/ l = i - 1
  BY DEF NodeFits
<1>2. Short(count, node, i) <=> Short(count, node, i - 1) /\ Len(list) <= count
  BY <1>1 DEF Short
<1>3. list \in Seq(1 .. count)
  BY <1>1 DEF NodeFits
<1>4. CASE ~Short(count, node, i - 1)
  <2>1. ListsRefused(node, x)
    BY <1>4 DEF ListsSeen
  <2>2. x = [ok |-> FALSE, pos |-> x.pos, lists |-> x.lists]
    BY <2>1 DEF ListsRefused
  <2>3. x.ok = FALSE
    BY <2>2
  <2>4. y = [x EXCEPT !.ok = FALSE]
    BY <2>3 DEF ReadList
  <2> HIDE DEF y
  <2>5. y = x
    BY <2>2, <2>4, ListRefused
  <2> QED  BY <1>2, <1>4, <2>1, <2>5 DEF ListsSeen, y
<1>5. CASE Short(count, node, i - 1) /\ Len(list) <= count
  <2>1. ListsRead(node, W, p, i - 1, x)
    BY <1>5 DEF ListsSeen
  <2>2. ListsRead(node, W, p, i, y)
    BY <1>5, <2>1, ListsReadOn
  <2> QED  BY <1>2, <1>5, <2>2 DEF ListsSeen
<1>6. CASE Short(count, node, i - 1) /\ ~(Len(list) <= count)
  <2> DEFINE at == p + Len(W[i - 1])
             v == ListWords(list)
  <2>1. ListsRead(node, W, p, i - 1, x)
    BY <1>6 DEF ListsSeen
  <2>2. /\ x = [ok |-> TRUE, pos |-> at + 1, lists |-> x.lists]
        /\ x.lists \in Seq({node.links[l] : l \in 0 .. node.level})
    BY <2>1 DEF ListsRead
  <2>3. Holds(w, at, v) /\ at \in Nat
    <3>1. StandsAt(w, p, W, i, list)
      BY ListStands
    <3>2. Holds(w, at, v) /\ Len(W[i - 1]) \in Nat
      BY <3>1 DEF StandsAt
    <3> QED  BY <3>2
  <2> HIDE DEF at, v, list
  <2>4. v[1] = Len(list) /\ Len(v) = Len(list) + 1 /\ Len(list) \in Nat
    <3>1. list \in Seq(Nat)
      BY <1>3, ListIsNat
    <3> QED  BY <3>1, ListWordsAre DEF v
  <2>5. w[at + 1] = Len(list)
    <3>1. 1 \in 1 .. Len(v)
      BY <2>4
    <3> QED  BY <2>3, <2>4, <3>1 DEF Holds
  <2>6. x.pos = at + 1
    BY <2>2
  <2>7. w[x.pos] \notin 0 .. count
    BY <1>6, <2>4, <2>5, <2>6
  <2>8. y = [x EXCEPT !.ok = FALSE]
    BY <2>7 DEF ReadList
  <2> HIDE DEF y
  <2>9. y = [ok |-> FALSE, pos |-> at + 1, lists |-> x.lists]
    <3>1. PICK b : b = x.lists
      OBVIOUS
    <3>2. x = [ok |-> TRUE, pos |-> at + 1, lists |-> b]
      BY <2>2, <3>1
    <3>4. y = [ok |-> FALSE, pos |-> at + 1, lists |-> b]
      <4> DEFINE t == TRUE
                 f == FALSE
                 e == at + 1
      <4>1. y = [x EXCEPT !.ok = f] /\ x = [ok |-> t, pos |-> e, lists |-> b]
        BY ONLY <2>8, <3>2
      <4> HIDE DEF t, f, e
      <4>2. y = [ok |-> f, pos |-> e, lists |-> b]
        BY ONLY <4>1, ListRefused
      <4> QED  BY ONLY <4>2 DEF f, e
    <3> QED  BY ONLY <3>1, <3>4
  <2>10. ListsRefused(node, y)
    BY <2>2, <2>3, <2>9 DEF ListsRefused
  <2> QED  BY <1>2, <1>6, <2>10 DEF ListsSeen, y
<1> QED  BY <1>4, <1>5, <1>6

LEMMA InReaders ==
  ASSUME NEW k \in BOOLEAN, NEW a \in Nat, NEW L, NEW ls \in L
  PROVE  [ok |-> k, pos |-> a, lists |-> ls] \in [ok : BOOLEAN, pos : Nat, lists : L]
OBVIOUS

\* The node at p is read back, behind the nodes read before, or refused.
ReadsBack(w, count, top, p, node, nodes) ==
  ReadNode(w, count, top, [ok |-> TRUE, pos |-> p + 1, nodes |-> nodes]) =
    IF Holdable(count, node)
    THEN [ok |-> TRUE, pos |-> p + Len(NodeWords(node)) + 1,
          nodes |-> Append(nodes, [level |-> node.level, links |-> node.links])]
    ELSE [ok |-> FALSE, pos |-> p + 1, nodes |-> nodes]

LEMMA NodeRead ==
  ASSUME NEW w \in Seq(Int), NEW p \in Nat, NEW count \in Nat, NEW top \in Int,
         NEW node, NodeFits(count, top, node), Holds(w, p, NodeWords(node)), NEW nodes
  PROVE  ReadsBack(w, count, top, p, node, nodes)
<1>1. PICK W : NodeChain(node, W)
  BY NodeWordsAre
<1> DEFINE reader == [ok |-> TRUE, pos |-> p + 1, nodes |-> nodes]
           level == w[reader.pos]
           last == level + 1
           base == [ok |-> TRUE, pos |-> reader.pos + 1, lists |-> <<>>]
           Next1(x) == ReadList(w, count, x)
           F(h) == [i \in 0 .. last |-> IF i = 0 THEN base ELSE Next1(h[i - 1])]
           read == CHOOSE h : h = F(h)
           S == {node.links[l] : l \in 0 .. node.level}
           D == [i \in 0 .. last |->
                   {x \in [ok : BOOLEAN, pos : Nat, lists : Seq(S)] :
                      ListsSeen(count, node, W, p, i, x)}]
           step == [i \in 1 .. last |-> [x \in D[i - 1] |-> Next1(x)]]
<1>2. level = node.level /\ last = node.level + 1 /\ last \in Nat /\ level \in Nat
      /\ p + 1 <= Len(w) /\ reader.pos = p + 1 /\ reader.ok = TRUE /\ reader.nodes = nodes
  <2>1. /\ node.level \in Nat /\ W[0] = <<node.level>> /\ Chain(node.level + 1, W)
        /\ NodeWords(node) = W[node.level + 1]
    BY <1>1 DEF NodeChain, NodeFits
  <2>2. W[0] \in Seq(Int) /\ W[node.level + 1] \in Seq(Int)
    <3>1. 0 \in 0 .. node.level + 1 /\ node.level + 1 \in 0 .. node.level + 1
      BY <2>1
    <3> QED  BY <2>1, <3>1 DEF Chain
  <2>3. Holds(W[node.level + 1], 0, W[0])
    <3>1. node.level + 1 \in Nat
      BY <2>1
    <3>2. 0 \in 0 .. node.level + 1 /\ node.level + 1 \in 0 .. node.level + 1
      BY <2>1
    <3> QED  BY <2>1, <3>1, <3>2, ChainHolds
  <2>4. Holds(w, p + 0, W[0])
    BY <2>1, <2>2, <2>3, HoldsPart
  <2>5. w[p + 1] = node.level /\ p + 1 <= Len(w)
    <3>1. Len(W[0]) = 1 /\ W[0][1] = node.level
      BY <2>1
    <3>2. 1 \in 1 .. Len(W[0]) /\ p + 0 + 1 = p + 1 /\ p + 0 = p
      BY <3>1
    <3> QED  BY <2>4, <3>1, <3>2 DEF Holds
  <2>6. reader.pos = p + 1 /\ reader.ok = TRUE /\ reader.nodes = nodes
    OBVIOUS
  <2> HIDE DEF reader
  <2>7. level = node.level
    BY <2>5, <2>6
  <2> HIDE DEF level
  <2>8. last = node.level + 1 /\ last \in Nat
    BY <2>1, <2>7
  <2> QED  BY <2>1, <2>5, <2>6, <2>7, <2>8
<1>a. last \in Nat /\ level \in Nat /\ last = level + 1 /\ last \in 0 .. last
  BY <1>2
<1>3. \A i \in 0 .. last : \A x : x \in D[i] <=> ListsSeen(count, node, W, p, i, x)
  <2>1. ASSUME NEW i \in 0 .. last, NEW x, ListsSeen(count, node, W, p, i, x)
        PROVE  x \in [ok : BOOLEAN, pos : Nat, lists : Seq(S)]
    <3>1. CASE Short(count, node, i)
      <4> DEFINE a == p + Len(W[i]) + 1
      <4>1. W[i] \in Seq(Int)
        BY <1>1, <1>2 DEF NodeChain, Chain
      <4>2. a \in Nat
        BY <4>1
      <4>3. x = [ok |-> TRUE, pos |-> a, lists |-> x.lists] /\ x.lists \in Seq(S)
        BY <2>1, <3>1 DEF ListsSeen, ListsRead
      <4> HIDE DEF S, a
      <4>4. [ok |-> TRUE, pos |-> a, lists |-> x.lists] \in
              [ok : BOOLEAN, pos : Nat, lists : Seq(S)]
        BY <4>2, <4>3, InReaders
      <4> QED  BY ONLY <4>3, <4>4
    <3>2. CASE ~Short(count, node, i)
      <4>1. /\ x = [ok |-> FALSE, pos |-> x.pos, lists |-> x.lists] /\ x.pos \in Nat
            /\ x.lists \in Seq(S)
        BY <2>1, <3>2 DEF ListsSeen, ListsRefused
      <4> HIDE DEF S
      <4>2. [ok |-> FALSE, pos |-> x.pos, lists |-> x.lists] \in
              [ok : BOOLEAN, pos : Nat, lists : Seq(S)]
        BY <4>1, InReaders
      <4> QED  BY ONLY <4>1, <4>2
    <3> QED  BY <3>1, <3>2
  <2> QED  BY <2>1
<1>4. base \in D[0]
  <2>1. Len(W[0]) = 1
    BY <1>1 DEF NodeChain
  <2>2. base.lists = <<>>
        /\ base = [ok |-> TRUE, pos |-> p + Len(W[0]) + 1, lists |-> base.lists]
    BY <1>2, <2>1
  <2>3. ListsRead(node, W, p, 0, base)
    <3> HIDE DEF base
    <3> QED  BY <2>2 DEF ListsRead
  <2>4. Short(count, node, 0)
    BY DEF Short
  <2> HIDE DEF base, D
  <2> QED  BY <1>2, <1>3, <2>3, <2>4 DEF ListsSeen
<1> HIDE DEF D
<1>5. ASSUME NEW i \in 1 .. last, NEW x \in D[i - 1]
      PROVE  Next1(x) \in D[i]
  <2>1. i \in 0 .. last /\ i - 1 \in 0 .. last /\ i \in 1 .. node.level + 1
    BY <1>2
  <2>2. ListsSeen(count, node, W, p, i - 1, x)
    BY <1>3, <2>1
  <2>3. ListsSeen(count, node, W, p, i, Next1(x))
    BY <1>1, <2>1, <2>2, ListsSeenOn
  <2> HIDE DEF Next1
  <2> QED  BY <1>3, <2>1, <2>3
<1>6. ReadNode(w, count, top, reader) =
        IF \/ ~reader.ok \/ reader.pos > Len(w)
           \/ level \notin 0 .. top \/ ~read[last].ok
        THEN [reader EXCEPT !.ok = FALSE]
        ELSE [ok |-> TRUE, pos |-> read[last].pos,
              nodes |-> Append(reader.nodes,
                               [level |-> level,
                                links |-> [l \in 0 .. level |-> read[last].lists[l + 1]]])]
  <2> HIDE DEF reader
  <2> QED  BY DEF ReadNode
<1> HIDE DEF last, base, Next1, level, reader
<1>7. Takes(last, D, step)
  BY <1>5 DEF Takes
<1>8. PICK T, k : k \in [0 .. last -> T] /\ Run(last, D, base, step, k)
  <2> HIDE DEF step
  <2> QED  BY <1>2, <1>4, <1>7, Iterates
<1>9. k = F(k)
  <2>1. ASSUME NEW i \in 1 .. last
        PROVE  k[i] = Next1(k[i - 1])
    <3>1. i - 1 \in 0 .. last
      BY <1>a
    <3>2. k[i - 1] \in D[i - 1]
      BY <1>8, <3>1 DEF Run
    <3> QED  BY <1>8, <3>2 DEF Run
  <2>2. \A i \in 0 .. last : i = 0 \/ i \in 1 .. last
    BY <1>2
  <2>3. k[0] = base
    BY <1>8 DEF Run
  <2> QED  BY <1>8, <2>1, <2>2, <2>3
<1>10. read = F(read)
  <2> HIDE DEF F
  <2> QED  BY <1>9 DEF Next1, last, base, level
<1> HIDE DEF read
<1>11. read[last] \in D[last]
  <2>1. ASSUME NEW i \in 1 .. last, read[i - 1] \in D[i - 1]
        PROVE  read[i] \in D[i]
    <3>1. i \in 0 .. last /\ i # 0
      BY <1>2
    <3>2. read[i] = Next1(read[i - 1])
      BY <1>10, <3>1
    <3> QED  BY <1>5, <2>1, <3>2
  <2>2. read[0] \in D[0]
    BY <1>2, <1>4, <1>10
  <2> HIDE DEF F
  <2>3. \A i \in 0 .. last : read[i] \in D[i]
    BY <1>a, <2>1, <2>2, Stays
  <2> QED  BY <1>a, <2>3
<1>12. ListsSeen(count, node, W, p, last, read[last])
  <2>1. last \in 0 .. last
    BY <1>2
  <2> QED  BY <1>3, <1>11, <2>1
<1> DEFINE e == read[last]
           u == [l \in 0 .. level |-> e.lists[l + 1]]
           y == ReadNode(w, count, top, reader)
<1> HIDE DEF e
<1>13. CASE ~Holdable(count, node)
  <2>1. ListsRefused(node, e)
    BY <1>2, <1>12, <1>13 DEF ListsSeen, Holdable, e
  <2>2. e = [ok |-> FALSE, pos |-> e.pos, lists |-> e.lists]
    BY <2>1 DEF ListsRefused
  <2>3. e.ok = FALSE
    BY <2>2
  <2>4. y = [reader EXCEPT !.ok = FALSE]
    BY <1>6, <2>3 DEF e
  <2> HIDE DEF y
  <2>5. y = [ok |-> FALSE, pos |-> p + 1, nodes |-> nodes]
    BY <2>4 DEF reader
  <2> QED  BY <1>13, <2>5 DEF y, reader, ReadsBack
<1>14. CASE Holdable(count, node)
  <2>1. /\ e.ok = TRUE /\ e.pos = p + Len(NodeWords(node)) + 1
        /\ \A j \in 1 .. last : e.lists[j] = node.links[j - 1]
    <3>1. /\ e = [ok |-> TRUE, pos |-> p + Len(W[last]) + 1, lists |-> e.lists]
          /\ \A j \in 1 .. last : e.lists[j] = node.links[j - 1]
      BY <1>2, <1>12, <1>14 DEF ListsSeen, Holdable, ListsRead, e
    <3>2. W[last] = NodeWords(node)
      BY <1>1, <1>2 DEF NodeChain
    <3> QED  BY <3>1, <3>2
  <2>2. u = node.links
    <3>1. ASSUME NEW l \in 0 .. level
          PROVE  e.lists[l + 1] = node.links[l]
      <4>1. PICK j \in 1 .. last : j = l + 1
        BY <1>a
      <4>2. j - 1 = l
        BY <4>1
      <4> QED  BY <2>1, <4>1, <4>2
    <3>2. u = [l \in 0 .. level |-> node.links[l]]
      BY <3>1
    <3>3. node.links = [l \in 0 .. level |-> node.links[l]]
      BY <1>2 DEF NodeFits
    <3> QED  BY <3>2, <3>3
  <2>3. level \in 0 .. top
    BY <1>2 DEF NodeFits
  <2> HIDE DEF u
  <2>4. y = [ok |-> TRUE, pos |-> e.pos,
             nodes |-> Append(reader.nodes, [level |-> level, links |-> u])]
    <3>1. Len(w) \in Nat
      OBVIOUS
    <3>2. ~(~reader.ok \/ reader.pos > Len(w) \/ level \notin 0 .. top \/ ~e.ok)
      BY <1>2, <2>1, <2>3, <3>1
    <3> QED  BY <1>6, <3>2 DEF e, u
  <2> QED  BY <1>2, <1>14, <2>1, <2>2, <2>4 DEF reader, ReadsBack
<1> QED  BY <1>13, <1>14

\* A list of different rows is not longer than there are rows.
LEMMA NoLongerThanRows ==
  ASSUME NEW count \in Nat, NEW list \in Seq(1 .. count), IsInjective(list)
  PROVE  Len(list) <= count
<1> DEFINE n == Len(list)
<1>1. n \in Nat /\ list \in [1 .. n -> 1 .. count]
  OBVIOUS
<1>2. \A i, j \in 1 .. n : list[i] = list[j] => i = j
  BY DEF IsInjective
<1> HIDE DEF n
<1>3. /\ IsFiniteSet(1 .. n) /\ Cardinality(1 .. n) = n
      /\ IsFiniteSet(1 .. count) /\ Cardinality(1 .. count) = count
  <2>1. \A d \in Nat : IsFiniteSet(1 .. d) /\ Cardinality(1 .. d) = d
    <3>1. ASSUME NEW d \in Nat
          PROVE  IsFiniteSet(1 .. d) /\ Cardinality(1 .. d) = d
      <4>1. IsFiniteSet(1 .. d) /\ Cardinality(1 .. d) = IF 1 > d THEN 0 ELSE d - 1 + 1
        BY FS_Interval
      <4> QED  BY <4>1
    <3> QED  BY <3>1
  <2> QED  BY <1>1, <2>1
<1>4. ~(count < n)
  BY <1>1, <1>2, <1>3, FS_PigeonHole
<1> QED  BY <1>1, <1>4 DEF n

LEMMA NodesFit ==
  ASSUME NEW g, Sound(g), NEW r \in 1 .. Len(g.nodes)
  PROVE  NodeFits(Len(g.nodes), g.top, g.nodes[r])
<1> DEFINE n == g.nodes[r]
           count == Len(g.nodes)
<1>1. /\ n.level \in 0 .. MaxLevel /\ n.level <= g.top
      /\ n.links = [l \in 0 .. n.level |-> n.links[l]]
      /\ \A l \in 0 .. n.level : ListSound(g, r, l, n.links[l])
      /\ count \in Nat
  BY DEF Sound, NodeSound
<1> HIDE DEF n
<1>2. n.level \in Nat
  BY <1>1
<1>3. ASSUME NEW l \in 0 .. n.level
      PROVE  n.links[l] \in Seq(1 .. count)
  <2> DEFINE list == n.links[l]
  <2>1. list \in Seq(OnLayer(g, l) \ {r})
    BY <1>1 DEF ListSound
  <2>2. OnLayer(g, l) \ {r} \subseteq 1 .. count
    BY DEF OnLayer
  <2> HIDE DEF list, count
  <2>3. list \in Seq(1 .. count)
    BY <2>1, <2>2, InWiderSet
  <2> QED  BY <2>3 DEF list
<1>4. NodeFits(count, g.top, n)
  BY <1>1, <1>2, <1>3 DEF NodeFits
<1> QED  BY <1>4 DEF n

\* The words of a graph, row by row.
GraphChain(g, W) ==
  /\ W[0] = <<Len(g.nodes), g.top, g.entry>>
  /\ \A r \in 1 .. Len(g.nodes) : W[r] = W[r - 1] \o NodeWords(g.nodes[r])
  /\ Chain(Len(g.nodes), W)
  /\ Serialize(g) = W[Len(g.nodes)]

LEMMA NodeWordsAreInts ==
  ASSUME NEW g, Sound(g), NEW r \in 1 .. Len(g.nodes)
  PROVE  NodeWords(g.nodes[r]) \in Seq(Int)
<1> DEFINE n == g.nodes[r]
<1>1. NodeFits(Len(g.nodes), g.top, n)
  BY NodesFit
<1>2. Len(g.nodes) \in Nat /\ g.top \in Int
  <2>1. g.top \in -1 .. MaxLevel
    BY DEF Sound, EntrySound
  <2> QED  BY <2>1 DEF Sound
<1> HIDE DEF n
<1>3. PICK W : NodeChain(n, W)
  BY <1>1, <1>2, NodeWordsAre
<1>4. n.level + 1 \in 0 .. n.level + 1
  BY <1>1 DEF NodeFits
<1>5. NodeWords(n) \in Seq(Int)
  BY <1>3, <1>4 DEF NodeChain, Chain
<1> QED  BY <1>5 DEF n

LEMMA SerializeIs ==
  ASSUME NEW g, Sound(g)
  PROVE  \E W : GraphChain(g, W)
<1> DEFINE last == Len(g.nodes)
           base == <<Len(g.nodes), g.top, g.entry>>
           Next1(x, r) == x \o NodeWords(g.nodes[r])
           F(h) == [r \in 0 .. last |-> IF r = 0 THEN base ELSE Next1(h[r - 1], r)]
           W == CHOOSE h : h = F(h)
           D == [r \in 0 .. last |-> Seq(Int)]
           step == [r \in 1 .. last |-> [x \in Seq(Int) |-> Next1(x, r)]]
<1>0. Serialize(g) = W[last]
  BY DEF Serialize
<1>1. last \in Nat
  BY DEF Sound
<1>2. \A r \in 1 .. last : NodeWords(g.nodes[r]) \in Seq(Int)
  BY NodeWordsAreInts
<1>3. base \in Seq(Int)
  <2>1. g.top \in -1 .. MaxLevel /\ (g.entry = 0 \/ g.entry \in 1 .. last)
    BY DEF Sound, EntrySound
  <2>2. g.top \in Int /\ g.entry \in Int /\ Len(g.nodes) \in Int
    BY <1>1, <2>1
  <2> QED  BY <2>2
<1>4. ASSUME NEW r \in 1 .. last, NEW x \in Seq(Int)
      PROVE  Next1(x, r) \in Seq(Int)
  BY <1>2
<1> HIDE DEF last, base
<1>5. Takes(last, D, step)
  <2>1. \A r \in 1 .. last : r \in 0 .. last /\ r - 1 \in 0 .. last
    BY <1>1
  <2> HIDE DEF Next1
  <2> QED  BY <1>4, <2>1 DEF Takes
<1>6. PICK T, k : k \in [0 .. last -> T] /\ Run(last, D, base, step, k)
  <2>1. base \in D[0]
    BY <1>1, <1>3
  <2> HIDE DEF D, step
  <2> QED  BY <1>1, <1>5, <2>1, Iterates
<1> HIDE DEF Next1
<1>7. k = F(k)
  <2>1. ASSUME NEW r \in 1 .. last
        PROVE  k[r] = Next1(k[r - 1], r)
    <3>1. r - 1 \in 0 .. last
      BY <1>1
    <3>2. k[r - 1] \in Seq(Int)
      BY <1>6, <3>1 DEF Run
    <3> QED  BY <1>6, <3>2 DEF Run
  <2>2. \A r \in 0 .. last : r = 0 \/ r \in 1 .. last
    BY <1>1
  <2>3. k[0] = base
    BY <1>6 DEF Run
  <2> QED  BY <1>6, <2>1, <2>2, <2>3
<1>8. W = F(W)
  <2> HIDE DEF F
  <2> QED  BY <1>7 DEF Next1, last, base
<1> HIDE DEF W
<1>9. W[0] = base /\ \A r \in 1 .. last : W[r] = Next1(W[r - 1], r)
  <2>1. \A r \in 1 .. last : r \in 0 .. last /\ r # 0
    BY <1>1
  <2> QED  BY <1>1, <1>8, <2>1
<1>10. \A r \in 0 .. last : W[r] \in D[r]
  <2>1. ASSUME NEW r \in 1 .. last, W[r - 1] \in D[r - 1]
        PROVE  W[r] \in D[r]
    <3>1. r \in 0 .. last /\ r - 1 \in 0 .. last
      BY <1>1
    <3> QED  BY <1>4, <1>9, <2>1, <3>1
  <2>2. W[0] \in D[0]
    BY <1>1, <1>3, <1>9
  <2> HIDE DEF D, F
  <2> QED  BY <1>1, <2>1, <2>2, Stays
<1>11. Chain(last, W)
  <2>1. \A r \in 0 .. last : W[r] \in Seq(Int)
    BY <1>10
  <2>2. ASSUME NEW r \in 1 .. last
        PROVE  \E x \in Seq(Int) : W[r] = W[r - 1] \o x
    BY <1>2, <1>9 DEF Next1
  <2> QED  BY <2>1, <2>2 DEF Chain
<1>12. GraphChain(g, W)
  BY <1>0, <1>9, <1>11 DEF GraphChain, Next1, last, base
<1> QED  BY <1>12

NodeData(n) == [level |-> n.level, links |-> n.links]

\* The reader behind r rows.
RowsRead(g, W, r, x) ==
  /\ x = [ok |-> TRUE, pos |-> Len(W[r]) + 1, nodes |-> x.nodes]
  /\ x.nodes \in Seq({NodeData(g.nodes[j]) : j \in 1 .. Len(g.nodes)}) /\ Len(x.nodes) = r
  /\ \A j \in 1 .. r : x.nodes[j] = NodeData(g.nodes[j])

\* A reader that has met a row it does not take.
RowsRefused(g, x) ==
  /\ x = [ok |-> FALSE, pos |-> x.pos, nodes |-> x.nodes] /\ x.pos \in Nat
  /\ x.nodes \in Seq({NodeData(g.nodes[j]) : j \in 1 .. Len(g.nodes)})

\* The reader takes the first r rows.
Taken(g, r) == \A j \in 1 .. r : Holdable(Len(g.nodes), g.nodes[j])

\* The reader behind r rows, taken or refused.
RowsSeen(g, W, r, x) ==
  IF Taken(g, r) THEN RowsRead(g, W, r, x) ELSE RowsRefused(g, x)

LEMMA RowRefused ==
  ASSUME NEW k, NEW a, NEW b, NEW c
  PROVE  [[ok |-> k, pos |-> a, nodes |-> b] EXCEPT !.ok = c] =
           [ok |-> c, pos |-> a, nodes |-> b]
OBVIOUS

LEMMA RowsSeenOn ==
  ASSUME NEW g, Sound(g), NEW W, GraphChain(g, W), NEW r \in 1 .. Len(g.nodes),
         NEW x, RowsSeen(g, W, r - 1, x)
  PROVE  RowsSeen(g, W, r, ReadNode(Serialize(g), Len(g.nodes), g.top, x))
<1> DEFINE last == Len(g.nodes)
           w == Serialize(g)
           node == g.nodes[r]
           v == NodeWords(node)
           at == Len(W[r - 1])
           y == ReadNode(w, last, g.top, x)
           S == {NodeData(g.nodes[j]) : j \in 1 .. last}
<1>1. last \in Nat /\ r \in 0 .. last /\ r - 1 \in 0 .. last /\ last \in 0 .. last
  BY DEF Sound
<1>2. NodeFits(last, g.top, node) /\ v \in Seq(Int) /\ NodeData(node) \in S
  BY NodesFit, NodeWordsAreInts
<1>3. W[r] \in Seq(Int) /\ W[r - 1] \in Seq(Int) /\ W[last] \in Seq(Int) /\ Chain(last, W)
      /\ W[r] = W[r - 1] \o v /\ w = W[last]
  BY <1>1 DEF GraphChain, Chain
<1>4. g.top \in Int
  <2>1. g.top \in -1 .. MaxLevel
    BY DEF Sound, EntrySound
  <2> QED  BY <2>1
<1>5. Taken(g, r) <=> Taken(g, r - 1) /\ Holdable(last, node)
  <2>1. \A j : j \in 1 .. r <=> j \in 1 .. r - 1 \/ j = r
    BY <1>1
  <2> QED  BY <2>1 DEF Taken
<1> HIDE DEF v, last, w, node, y, S
<1>6. Holds(w, at, v) /\ Len(W[r]) = at + Len(v) /\ at \in Nat
  <2>1. Holds(W[r], Len(W[r - 1]), v) /\ Len(W[r]) = Len(W[r - 1]) + Len(v)
        /\ Len(W[r - 1]) \in Nat
    BY <1>2, <1>3, Joined
  <2>2. Holds(w, 0, W[r])
    BY <1>1, <1>3, ChainHolds
  <2>3. Holds(w, 0 + at, v)
    BY <1>2, <1>3, <2>1, <2>2, HoldsPart
  <2>4. 0 + at = at
    BY <2>1
  <2> QED  BY <2>1, <2>3, <2>4
<1>7. CASE ~Taken(g, r - 1)
  <2>1. RowsRefused(g, x)
    BY <1>7 DEF RowsSeen
  <2>2. x = [ok |-> FALSE, pos |-> x.pos, nodes |-> x.nodes]
    BY <2>1 DEF RowsRefused
  <2>3. x.ok = FALSE
    BY <2>2
  <2>4. y = [x EXCEPT !.ok = FALSE]
    BY <2>3 DEF ReadNode, y
  <2>5. y = x
    BY <2>2, <2>4, RowRefused
  <2>6. RowsSeen(g, W, r, y)
    BY <1>5, <1>7, <2>1, <2>5 DEF RowsSeen
  <2> QED  BY <2>6 DEF y, w, last
<1>8. CASE Taken(g, r - 1)
  <2>1. x = [ok |-> TRUE, pos |-> at + 1, nodes |-> x.nodes]
        /\ x.nodes \in Seq(S) /\ Len(x.nodes) = r - 1
        /\ \A j \in 1 .. r - 1 : x.nodes[j] = NodeData(g.nodes[j])
    BY <1>8 DEF RowsSeen, RowsRead, S, last
  <2>2. y = IF Holdable(last, node)
            THEN [ok |-> TRUE, pos |-> at + Len(v) + 1,
                  nodes |-> Append(x.nodes, NodeData(node))]
            ELSE [ok |-> FALSE, pos |-> at + 1, nodes |-> x.nodes]
    <3> HIDE DEF at
    <3>1. w \in Seq(Int) /\ at \in Nat
      BY <1>3, <1>6
    <3>2. Holds(w, at, NodeWords(node))
      BY <1>6 DEF v
    <3>3. ASSUME NEW ns
          PROVE  ReadsBack(w, last, g.top, at, node, ns)
      <4>1. NodeFits(last, g.top, node) /\ last \in Nat
        BY <1>1, <1>2
      <4>2. w \in Seq(Int) /\ at \in Nat /\ g.top \in Int
        BY <1>4, <3>1
      <4> QED  BY ONLY <3>2, <4>1, <4>2, NodeRead
    <3>4. y = ReadNode(w, last, g.top, [ok |-> TRUE, pos |-> at + 1, nodes |-> x.nodes])
      BY <2>1 DEF y
    <3> QED  BY <3>3, <3>4 DEF v, NodeData, ReadsBack
  <2>3. CASE ~Holdable(last, node)
    <3>1. y = [ok |-> FALSE, pos |-> at + 1, nodes |-> x.nodes]
      BY <2>2, <2>3
    <3>2. y = [ok |-> FALSE, pos |-> y.pos, nodes |-> y.nodes]
          /\ y.pos = at + 1 /\ y.nodes = x.nodes
      BY <3>1
    <3>3. RowsRefused(g, y)
      BY <1>6, <2>1, <3>2 DEF RowsRefused, S, last
    <3>4. RowsSeen(g, W, r, y)
      BY <1>5, <2>3, <3>3 DEF RowsSeen
    <3> QED  BY <3>4 DEF y, w, last
  <2>4. CASE Holdable(last, node)
    <3>1. y.nodes = Append(x.nodes, NodeData(node))
          /\ y = [ok |-> TRUE, pos |-> Len(W[r]) + 1, nodes |-> y.nodes]
      BY <1>6, <2>2, <2>4
    <3>2. y.nodes \in Seq(S) /\ Len(y.nodes) = r /\ y.nodes[r] = NodeData(node)
          /\ \A j \in 1 .. r - 1 : y.nodes[j] = x.nodes[j]
      <4>1. Len(x.nodes) + 1 = r
        BY <1>1, <2>1
      <4> QED  BY <1>2, <2>1, <3>1, <4>1, OneMore
    <3>3. ASSUME NEW j \in 1 .. r
          PROVE  y.nodes[j] = NodeData(g.nodes[j])
      <4>1. j = r \/ j \in 1 .. r - 1
        BY <1>1
      <4> QED  BY <2>1, <3>2, <4>1 DEF node
    <3>4. RowsRead(g, W, r, y)
      BY <3>1, <3>2, <3>3 DEF RowsRead, S, last
    <3>5. RowsSeen(g, W, r, y)
      BY <1>5, <1>8, <2>4, <3>4 DEF RowsSeen
    <3> QED  BY <3>5 DEF y, w, last
  <2> QED  BY <2>3, <2>4
<1> QED  BY <1>7, <1>8

PointsOf(g) == [r \in Rows(g) |-> g.nodes[r].at]

LEMMA PointsAre ==
  ASSUME NEW g, Sound(g)
  PROVE  /\ Len(PointsOf(g)) = Len(g.nodes)
         /\ \A r \in 1 .. Len(g.nodes) : PointsOf(g)[r] = g.nodes[r].at
<1>1. Rows(g) = 1 .. Len(g.nodes) /\ Len(g.nodes) \in Nat
  BY DEF Rows, Sound
<1>2. PointsOf(g) = [r \in 1 .. Len(g.nodes) |-> g.nodes[r].at]
  BY <1>1 DEF PointsOf
<1> QED  BY <1>1, <1>2

\* An empty graph is not loaded; any other comes back as it was, unless a list
\* of it is longer than there are rows.
LEMMA EmptyIsRefused ==
  ASSUME NEW g, Sound(g), g.entry = 0
  PROVE  ~Deserialize(Serialize(g), PointsOf(g)).ok
<1>1. Len(PointsOf(g)) = 0
  BY PointsAre DEF Sound, EntrySound
<1> DEFINE w == Serialize(g)
           points == PointsOf(g)
<1>2. w[3] \notin 1 .. Len(points)
  BY <1>1
<1> HIDE DEF w, points
<1>3. Deserialize(w, points) = [ok |-> FALSE, graph |-> EmptyGraph]
  BY <1>2 DEF Deserialize
<1> QED  BY <1>3 DEF w, points

LEMMA InRowReaders ==
  ASSUME NEW k \in BOOLEAN, NEW a \in Nat, NEW L, NEW ns \in L
  PROVE  [ok |-> k, pos |-> a, nodes |-> ns] \in [ok : BOOLEAN, pos : Nat, nodes : L]
OBVIOUS

LEMMA LoadsBack ==
  ASSUME NEW g, Sound(g), g.entry # 0
  PROVE  Deserialize(Serialize(g), PointsOf(g)) =
           IF Taken(g, Len(g.nodes)) THEN [ok |-> TRUE, graph |-> g]
                                     ELSE [ok |-> FALSE, graph |-> EmptyGraph]
<1> DEFINE w == Serialize(g)
           points == PointsOf(g)
           last == Len(points)
           base == [ok |-> TRUE, pos |-> 4, nodes |-> <<>>]
           Next1(x) == ReadNode(w, last, w[2], x)
           F(h) == [r \in 0 .. last |-> IF r = 0 THEN base ELSE Next1(h[r - 1])]
           read == CHOOSE h : h = F(h)
           S == {NodeData(g.nodes[j]) : j \in 1 .. Len(g.nodes)}
<1>1. PICK W : GraphChain(g, W)
  BY SerializeIs
<1>2. last = Len(g.nodes) /\ last \in Nat /\ last \in 0 .. last
      /\ \A r \in 1 .. last : points[r] = g.nodes[r].at
  BY PointsAre DEF Sound
<1>3. /\ W[0] = <<Len(g.nodes), g.top, g.entry>> /\ W[0] \in Seq(Int)
      /\ W[last] \in Seq(Int) /\ w = W[last]
      /\ \A r \in 0 .. last : W[r] \in Seq(Int)
  <2>1. W[0] = <<Len(g.nodes), g.top, g.entry>> /\ w = W[last] /\ Chain(last, W)
    BY <1>1, <1>2 DEF GraphChain
  <2> HIDE DEF last, w
  <2>2. \A r \in 0 .. last : W[r] \in Seq(Int)
    BY <2>1 DEF Chain
  <2>3. 0 \in 0 .. last /\ last \in 0 .. last
    BY <1>2
  <2> QED  BY <2>1, <2>2, <2>3
<1>4. Len(w) >= 3 /\ w[1] = last /\ w[2] = g.top /\ w[3] = g.entry
  <2>1. Holds(w, 0, W[0])
    <3>1. 0 \in 0 .. last
      BY <1>2
    <3> QED  BY <1>1, <1>2, <1>3, <3>1, ChainHolds DEF GraphChain
  <2> HIDE DEF w, last, points
  <2>2. /\ Len(W[0]) = 3 /\ W[0][1] = Len(g.nodes) /\ W[0][2] = g.top /\ W[0][3] = g.entry
    BY <1>3
  <2>3. /\ 0 + 3 <= Len(w) /\ Len(w) \in Nat
        /\ \A i \in 1 .. 3 : w[0 + i] = W[0][i]
    BY <1>3, <2>1, <2>2 DEF Holds
  <2>4. w[0 + 1] = W[0][1] /\ w[0 + 2] = W[0][2] /\ w[0 + 3] = W[0][3]
    BY <2>3
  <2>5. 0 + 1 = 1 /\ 0 + 2 = 2 /\ 0 + 3 = 3
    OBVIOUS
  <2> QED  BY <1>2, <2>2, <2>3, <2>4, <2>5
<1>5. g.entry \in 1 .. last
  BY <1>2 DEF Sound, EntrySound
<1>6. Deserialize(w, points) =
        IF \/ Len(w) < 3 \/ w[1] # last \/ w[3] \notin 1 .. last
           \/ ~read[last].ok
        THEN [ok |-> FALSE, graph |-> EmptyGraph]
        ELSE [ok |-> TRUE,
              graph |-> [entry |-> w[3], top |-> w[2],
                         nodes |-> [r \in 1 .. last |->
                                      [at |-> points[r],
                                       level |-> read[last].nodes[r].level,
                                       links |-> read[last].nodes[r].links]]]]
  <2> HIDE DEF w, points
  <2> QED  BY DEF Deserialize
<1> DEFINE D == [r \in 0 .. last |->
                   {x \in [ok : BOOLEAN, pos : Nat, nodes : Seq(S)] : RowsSeen(g, W, r, x)}]
           step == [r \in 1 .. last |-> [x \in D[r - 1] |-> Next1(x)]]
<1> HIDE DEF w, points
<1>7. \A r \in 0 .. last : \A x : x \in D[r] <=> RowsSeen(g, W, r, x)
  <2>1. ASSUME NEW r \in 0 .. last, NEW x, RowsSeen(g, W, r, x)
        PROVE  x \in [ok : BOOLEAN, pos : Nat, nodes : Seq(S)]
    <3>1. CASE Taken(g, r)
      <4> DEFINE a == Len(W[r]) + 1
      <4>1. W[r] \in Seq(Int)
        BY <1>3
      <4>2. a \in Nat
        BY <4>1
      <4>3. x = [ok |-> TRUE, pos |-> a, nodes |-> x.nodes] /\ x.nodes \in Seq(S)
        BY <2>1, <3>1 DEF RowsSeen, RowsRead
      <4> HIDE DEF a, S
      <4>4. [ok |-> TRUE, pos |-> a, nodes |-> x.nodes] \in
              [ok : BOOLEAN, pos : Nat, nodes : Seq(S)]
        BY <4>2, <4>3, InRowReaders
      <4> QED  BY ONLY <4>3, <4>4
    <3>2. CASE ~Taken(g, r)
      <4>1. /\ x = [ok |-> FALSE, pos |-> x.pos, nodes |-> x.nodes] /\ x.pos \in Nat
            /\ x.nodes \in Seq(S)
        BY <2>1, <3>2 DEF RowsSeen, RowsRefused
      <4> HIDE DEF S
      <4>2. [ok |-> FALSE, pos |-> x.pos, nodes |-> x.nodes] \in
              [ok : BOOLEAN, pos : Nat, nodes : Seq(S)]
        BY <4>1, InRowReaders
      <4> QED  BY ONLY <4>1, <4>2
    <3> QED  BY <3>1, <3>2
  <2> QED  BY <2>1
<1>8. base \in D[0]
  <2>1. Len(W[0]) + 1 = 4
    BY <1>3
  <2>2. base.nodes = <<>> /\ base = [ok |-> TRUE, pos |-> Len(W[0]) + 1, nodes |-> base.nodes]
    BY <2>1
  <2> HIDE DEF base
  <2>3. RowsRead(g, W, 0, base)
    BY <2>2 DEF RowsRead
  <2>4. Taken(g, 0)
    BY DEF Taken
  <2> HIDE DEF D
  <2> QED  BY <1>2, <1>7, <2>3, <2>4 DEF RowsSeen
<1> HIDE DEF D
<1>9. ASSUME NEW r \in 1 .. last, NEW x \in D[r - 1]
      PROVE  Next1(x) \in D[r]
  <2>1. r \in 0 .. last /\ r - 1 \in 0 .. last /\ r \in 1 .. Len(g.nodes)
    BY <1>2
  <2>2. RowsSeen(g, W, r - 1, x)
    BY <1>7, <2>1
  <2>3. RowsSeen(g, W, r, ReadNode(Serialize(g), Len(g.nodes), g.top, x))
    BY <1>1, <2>1, <2>2, RowsSeenOn
  <2>4. Next1(x) = ReadNode(Serialize(g), Len(g.nodes), g.top, x)
    BY <1>2, <1>4 DEF w
  <2> HIDE DEF Next1
  <2> QED  BY <1>7, <2>1, <2>3, <2>4
<1> HIDE DEF last, base, Next1
<1>10. Takes(last, D, step)
  BY <1>9 DEF Takes
<1>11. PICK T, k : k \in [0 .. last -> T] /\ Run(last, D, base, step, k)
  <2> HIDE DEF step
  <2> QED  BY <1>2, <1>8, <1>10, Iterates
<1>12. k = F(k)
  <2>1. ASSUME NEW r \in 1 .. last
        PROVE  k[r] = Next1(k[r - 1])
    <3>1. r - 1 \in 0 .. last
      BY <1>2
    <3>2. k[r - 1] \in D[r - 1]
      BY <1>11, <3>1 DEF Run
    <3> QED  BY <1>11, <3>2 DEF Run
  <2>2. \A r \in 0 .. last : r = 0 \/ r \in 1 .. last
    BY <1>2
  <2>3. k[0] = base
    BY <1>11 DEF Run
  <2> QED  BY <1>11, <2>1, <2>2, <2>3
<1>13. read = F(read)
  <2> HIDE DEF F
  <2> QED  BY <1>12 DEF Next1, last, base
<1> HIDE DEF read
<1>14. read[last] \in D[last]
  <2>1. ASSUME NEW r \in 1 .. last, read[r - 1] \in D[r - 1]
        PROVE  read[r] \in D[r]
    <3>1. r \in 0 .. last /\ r # 0
      BY <1>2
    <3>2. read[r] = Next1(read[r - 1])
      BY <1>13, <3>1
    <3> QED  BY <1>9, <2>1, <3>2
  <2>2. read[0] \in D[0]
    BY <1>2, <1>8, <1>13
  <2> HIDE DEF F
  <2>3. \A r \in 0 .. last : read[r] \in D[r]
    BY <1>2, <2>1, <2>2, Stays
  <2> QED  BY <1>2, <2>3
<1>15. RowsSeen(g, W, last, read[last])
  BY <1>2, <1>7, <1>14
<1> DEFINE e == read[last]
           u == [r \in 1 .. last |-> [at |-> points[r], level |-> e.nodes[r].level,
                                      links |-> e.nodes[r].links]]
<1> HIDE DEF e
<1>16. CASE ~Taken(g, last)
  <2>1. RowsRefused(g, e)
    BY <1>15, <1>16 DEF RowsSeen, e
  <2>2. e = [ok |-> FALSE, pos |-> e.pos, nodes |-> e.nodes]
    BY <2>1 DEF RowsRefused
  <2>3. e.ok = FALSE
    BY <2>2
  <2>4. Deserialize(w, points) = [ok |-> FALSE, graph |-> EmptyGraph]
    <3> HIDE DEF read
    <3> QED  BY <1>6, <2>3 DEF e, last
  <2> QED  BY <1>2, <1>16, <2>4 DEF w, points
<1>17. CASE Taken(g, last)
  <2>1. e.ok = TRUE /\ \A r \in 1 .. last : e.nodes[r] = NodeData(g.nodes[r])
    <3>1. e = [ok |-> TRUE, pos |-> Len(W[last]) + 1, nodes |-> e.nodes]
          /\ \A r \in 1 .. last : e.nodes[r] = NodeData(g.nodes[r])
      BY <1>15, <1>17 DEF RowsSeen, RowsRead, e
    <3> QED  BY <3>1
  <2>2. u = g.nodes
    <3>1. ASSUME NEW r \in 1 .. last
          PROVE  [at |-> points[r], level |-> e.nodes[r].level,
                  links |-> e.nodes[r].links] = g.nodes[r]
      <4> DEFINE n == g.nodes[r]
      <4>1. n = [at |-> n.at, level |-> n.level, links |-> n.links]
        BY <1>2 DEF Sound, NodeSound
      <4>2. e.nodes[r].level = n.level /\ e.nodes[r].links = n.links /\ points[r] = n.at
        <5>1. e.nodes[r] = NodeData(n) /\ points[r] = n.at
          BY <1>2, <2>1
        <5> HIDE DEF n
        <5>2. NodeData(n).level = n.level /\ NodeData(n).links = n.links
          BY DEF NodeData
        <5> QED  BY <5>1, <5>2
      <4> HIDE DEF n
      <4>3. [at |-> points[r], level |-> e.nodes[r].level, links |-> e.nodes[r].links] = n
        BY <4>1, <4>2
      <4> QED  BY <4>3 DEF n
    <3>2. u = [r \in 1 .. last |-> g.nodes[r]]
      BY <3>1
    <3>3. g.nodes = [r \in 1 .. last |-> g.nodes[r]]
      BY <1>2 DEF Sound
    <3> QED  BY <3>2, <3>3
  <2>3. Deserialize(w, points) =
          [ok |-> TRUE, graph |-> [entry |-> w[3], top |-> w[2], nodes |-> u]]
    <3>1. Len(w) \in Nat
      BY <1>3
    <3>2. ~(Len(w) < 3 \/ w[1] # last \/ w[3] \notin 1 .. last \/ ~e.ok)
      BY <1>4, <1>5, <2>1, <3>1
    <3> HIDE DEF read
    <3> QED  BY <1>6, <3>2 DEF e, last
  <2>4. g = [nodes |-> g.nodes, entry |-> g.entry, top |-> g.top]
    BY DEF Sound
  <2> HIDE DEF u
  <2>5. [entry |-> w[3], top |-> w[2], nodes |-> u] = g
    <3>1. [entry |-> w[3], top |-> w[2], nodes |-> u] =
            [nodes |-> u, entry |-> w[3], top |-> w[2]]
      OBVIOUS
    <3> QED  BY <1>4, <2>2, <2>4, <3>1
  <2>6. Deserialize(w, points) = [ok |-> TRUE, graph |-> g]
    BY <2>3, <2>5
  <2> QED  BY <1>2, <1>17, <2>6 DEF w, points
<1> QED  BY <1>16, <1>17

-----------------------------------------------------------------------------
(* The life of an index.                                                   *)

\* The graph is sound, rows are never removed from it, and the level
\* generator stays within the stream of its seed.
IInv ==
  /\ Sound(graph)
  /\ deleted \subseteq Rows(graph)
  /\ stream \in [1 .. MaxRows -> 0 .. MaxLevel]
  /\ drawn \in 0 .. MaxRows

LEMMA RowsAre ==
  ASSUME NEW g, Sound(g)
  PROVE  Rows(g) = 1 .. Len(g.nodes) /\ Len(g.nodes) \in Nat
BY DEF Rows, Sound

LEMMA InitSound == Init => IInv
<1> SUFFICES ASSUME Init
             PROVE  IInv
  OBVIOUS
<1>1. graph = [nodes |-> <<>>, entry |-> 0, top |-> -1]
  BY DEF Init, EmptyGraph
<1>2. Len(graph.nodes) = 0 /\ graph.entry = 0 /\ graph.top = -1 /\ graph.nodes = <<>>
  BY <1>1
<1>3. graph.nodes = [r \in 1 .. Len(graph.nodes) |-> graph.nodes[r]]
  BY <1>2
<1>4. -1 \in -1 .. MaxLevel
  BY SizesAssumption
<1>5. EntrySound(graph)
  BY <1>2, <1>4 DEF EntrySound
<1>6. \A r \in 1 .. Len(graph.nodes) : NodeSound(graph, r)
  BY <1>2
<1>7. graph = [nodes |-> graph.nodes, entry |-> graph.entry, top |-> graph.top]
  BY <1>1
<1>8. Sound(graph)
  BY <1>2, <1>3, <1>5, <1>6, <1>7 DEF Sound
<1> QED  BY <1>8, SizesAssumption DEF Init, IInv

LEMMA InsertSound == IInv /\ Insert => IInv'
<1> SUFFICES ASSUME IInv, Insert
             PROVE  IInv'
  OBVIOUS
<1>1. Sound(graph) /\ deleted \subseteq Rows(graph)
      /\ stream \in [1 .. MaxRows -> 0 .. MaxLevel] /\ drawn \in 0 .. MaxRows
  BY DEF IInv
<1>2. drawn < MaxRows /\ drawn' = drawn + 1 /\ deleted' = deleted /\ stream' = stream
  BY DEF Insert
<1>3. PICK p \in Points : graph' = AddRow(graph, p, stream[drawn + 1])
  BY DEF Insert
<1>4. drawn + 1 \in 1 .. MaxRows
  BY <1>1, <1>2, SizesAssumption
<1> DEFINE level == stream[drawn + 1]
<1>5. level \in 0 .. MaxLevel
  BY <1>1, <1>4
<1> HIDE DEF level
<1>7. Sound(AddRow(graph, p, level))
      /\ Len(AddRow(graph, p, level).nodes) = Len(graph.nodes) + 1
  BY <1>1, <1>5, RowAdded
<1>8. Sound(graph') /\ Len(graph'.nodes) = Len(graph.nodes) + 1
  BY <1>3, <1>7 DEF level
<1>9. Rows(graph) \subseteq Rows(graph')
  <2>1. Rows(graph) = 1 .. Len(graph.nodes) /\ Len(graph.nodes) \in Nat
    BY <1>1, RowsAre
  <2>2. Rows(graph') = 1 .. Len(graph.nodes) + 1
    <3>1. Rows(graph') = 1 .. Len(graph'.nodes)
      BY <1>8, RowsAre
    <3> QED  BY <1>8, <3>1
  <2>3. \A d \in Nat : 1 .. d \subseteq 1 .. d + 1
    OBVIOUS
  <2> QED  BY <2>1, <2>2, <2>3
<1>10. drawn' \in 0 .. MaxRows
  BY <1>2, <1>4
<1> QED  BY <1>1, <1>2, <1>8, <1>9, <1>10 DEF IInv, Rows

LEMMA BulkSound == IInv /\ InsertBulk => IInv'
<1> SUFFICES ASSUME IInv, InsertBulk
             PROVE  IInv'
  OBVIOUS
<1>1. Sound(graph) /\ deleted \subseteq Rows(graph)
      /\ stream \in [1 .. MaxRows -> 0 .. MaxLevel] /\ drawn \in 0 .. MaxRows
  BY DEF IInv
<1>2. deleted' = deleted /\ stream' = stream
  BY DEF InsertBulk
<1>3. PICK n \in 2 .. MaxBatch :
        /\ drawn + n <= MaxRows /\ drawn' = drawn + n
        /\ \E points \in [1 .. n -> Points] : graph' = AddBulk(graph, Draw(points), Wave)
  BY DEF InsertBulk
<1>4. PICK points \in [1 .. n -> Points] : graph' = AddBulk(graph, Draw(points), Wave)
  BY <1>3
<1>5. n \in Nat /\ MaxRows \in Nat /\ drawn \in Nat /\ Wave \in Nat
  BY <1>1, SizesAssumption
<1> DEFINE batch == Draw(points)
<1>6. batch = [i \in 1 .. n |-> <<points[i], stream[drawn + i]>>]
  BY <1>4 DEF Draw
<1> HIDE DEF batch
<1>7. Len(batch) = n /\ \A i \in 1 .. n : batch[i] = <<points[i], stream[drawn + i]>>
  BY <1>5, <1>6
<1>8. BatchFits(batch)
  <2>1. ASSUME NEW i \in 1 .. n
        PROVE  batch[i][1] \in Points /\ batch[i][2] \in 0 .. MaxLevel
    <3>1. batch[i][1] = points[i] /\ batch[i][2] = stream[drawn + i]
      BY <1>7
    <3>2. drawn + i \in 1 .. MaxRows
      BY <1>3, <1>5
    <3> QED  BY <1>1, <1>4, <3>1, <3>2
  <2> QED  BY <1>5, <1>7, <2>1 DEF BatchFits
<1>9. /\ Sound(AddBulk(graph, batch, Wave))
      /\ Len(AddBulk(graph, batch, Wave).nodes) = Len(graph.nodes) + Len(batch)
  BY <1>1, <1>5, <1>8, BatchAdded
<1>10. Sound(graph') /\ Len(graph'.nodes) = Len(graph.nodes) + n
  BY <1>4, <1>7, <1>9 DEF batch
<1>11. Rows(graph) \subseteq Rows(graph')
  <2>1. Rows(graph) = 1 .. Len(graph.nodes) /\ Len(graph.nodes) \in Nat
    BY <1>1, RowsAre
  <2>2. Rows(graph') = 1 .. Len(graph.nodes) + n
    <3>1. Rows(graph') = 1 .. Len(graph'.nodes)
      BY <1>10, RowsAre
    <3> QED  BY <1>10, <3>1
  <2>3. \A c, d \in Nat : 1 .. d \subseteq 1 .. d + c
    OBVIOUS
  <2> QED  BY <1>5, <2>1, <2>2, <2>3
<1>12. drawn' \in 0 .. MaxRows
  BY <1>3, <1>5
<1> QED  BY <1>1, <1>2, <1>10, <1>11, <1>12 DEF IInv, Rows

LEMMA ReloadSound == IInv /\ Reload => IInv' /\ graph' = graph
<1> SUFFICES ASSUME IInv, Reload
             PROVE  IInv' /\ graph' = graph
  OBVIOUS
<1>1. /\ Sound(graph) /\ deleted \subseteq Rows(graph)
      /\ stream \in [1 .. MaxRows -> 0 .. MaxLevel]
      /\ drawn' = 0 /\ deleted' = deleted /\ stream' = stream
  BY DEF IInv, Reload
<1> DEFINE loaded == Deserialize(Serialize(graph), PointsOf(graph))
<1>2. loaded.ok /\ graph' = loaded.graph
  BY DEF Reload, Stored, PointsOf
<1>3. graph.entry # 0
  BY <1>1, <1>2, EmptyIsRefused
<1>4. loaded = [ok |-> TRUE, graph |-> graph] \/ loaded = [ok |-> FALSE, graph |-> EmptyGraph]
  BY <1>1, <1>3, LoadsBack
<1> HIDE DEF loaded
<1>5. graph' = graph
  BY <1>2, <1>4
<1>6. 0 \in 0 .. MaxRows
  BY SizesAssumption
<1>7. Rows(graph') = Rows(graph) /\ Sound(graph')
  BY <1>1, <1>5
<1> QED  BY <1>1, <1>5, <1>6, <1>7 DEF IInv, Rows

LEMMA NextSound == IInv /\ [Next]_vars => IInv'
<1> SUFFICES ASSUME IInv, [Next]_vars
             PROVE  IInv'
  OBVIOUS
<1>1. CASE Insert
  BY <1>1, InsertSound
<1>2. CASE InsertBulk
  BY <1>2, BulkSound
<1>3. CASE SoftDelete
  BY <1>3 DEF SoftDelete, Live, IInv, Rows
<1>4. CASE Reload
  BY <1>4, ReloadSound
<1>5. CASE UNCHANGED vars
  BY <1>5 DEF vars, IInv, Rows
<1> QED  BY <1>1, <1>2, <1>3, <1>4, <1>5 DEF Next

\* The inductive invariant of the index.
THEOREM IndexInvariant == Spec => []IInv
<1> QED  BY InitSound, NextSound, PTL DEF Spec

\* Rows, levels, lists and the counters of the generator keep their types.
THEOREM IndexTypes == Spec => []TypeOK
<1>1. ASSUME IInv
      PROVE  TypeOK
  <2>1. /\ Sound(graph) /\ deleted \subseteq Rows(graph)
        /\ stream \in [1 .. MaxRows -> 0 .. MaxLevel] /\ drawn \in 0 .. MaxRows
    BY <1>1 DEF IInv
  <2>2. Rows(graph) = 1 .. Len(graph.nodes) /\ Len(graph.nodes) \in Nat
    BY <2>1, RowsAre
  <2>3. graph.top \in -1 .. MaxLevel /\ graph.entry \in 0 .. Len(graph.nodes)
    <3>1. graph.top \in -1 .. MaxLevel
          /\ (graph.entry = 0 \/ graph.entry \in 1 .. Len(graph.nodes))
      BY <2>1 DEF Sound, EntrySound
    <3> QED  BY <2>2, <3>1
  <2>4. ASSUME NEW r \in Rows(graph)
        PROVE  /\ graph.nodes[r].at \in Points
               /\ graph.nodes[r].level \in 0 .. MaxLevel
               /\ graph.nodes[r].links \in [0 .. graph.nodes[r].level -> Seq(Rows(graph))]
    <3> DEFINE n == graph.nodes[r]
    <3>1. /\ n.at \in Points /\ n.level \in 0 .. MaxLevel
          /\ n.links = [l \in 0 .. n.level |-> n.links[l]]
          /\ \A l \in 0 .. n.level : ListSound(graph, r, l, n.links[l])
      BY <2>1, <2>2 DEF Sound, NodeSound
    <3> HIDE DEF n
    <3>2. ASSUME NEW l \in 0 .. n.level
          PROVE  n.links[l] \in Seq(Rows(graph))
      <4>1. n.links[l] \in Seq(OnLayer(graph, l) \ {r})
        BY <3>1 DEF ListSound
      <4>2. OnLayer(graph, l) \ {r} \subseteq Rows(graph)
        BY <2>2 DEF OnLayer
      <4> QED  BY <4>1, <4>2, InWiderSet
    <3>3. n.links \in [0 .. n.level -> Seq(Rows(graph))]
      BY <3>1, <3>2
    <3> QED  BY <3>1, <3>3 DEF n
  <2> QED  BY <2>1, <2>3, <2>4 DEF TypeOK
<1> QED  BY <1>1, IndexInvariant, PTL

\* What every walk of hnsw_index.cpp indexes without a check is there: a link
\* on a layer leads to a row of that layer, and lists keep their degree.
THEOREM IndexGraphSound == Spec => []GraphSound
<1>1. ASSUME IInv
      PROVE  GraphSound
  <2>1. Sound(graph) /\ Rows(graph) = 1 .. Len(graph.nodes) /\ Len(graph.nodes) \in Nat
    BY <1>1, RowsAre DEF IInv
  <2>2. ASSUME graph.nodes # <<>>
        PROVE  graph.entry \in Rows(graph) /\ graph.nodes[graph.entry].level = graph.top
    <3>1. Len(graph.nodes) # 0
      <4>1. graph.nodes = [r \in 1 .. Len(graph.nodes) |-> graph.nodes[r]]
        BY <2>1 DEF Sound
      <4>2. CASE Len(graph.nodes) = 0
        <5>1. graph.nodes = [r \in 1 .. 0 |-> graph.nodes[r]]
          BY <4>1, <4>2
        <5> QED  BY <2>2, <5>1
      <4> QED  BY <4>2
    <3> QED  BY <2>1, <3>1 DEF Sound, EntrySound
  <2>3. ASSUME NEW r \in Rows(graph)
        PROVE  /\ graph.nodes[r].level <= graph.top
               /\ \A l \in 0 .. graph.nodes[r].level :
                    /\ \A n \in ToSet(Links(graph, r, l)) :
                         n # r /\ graph.nodes[n].level >= l
                    /\ Len(Links(graph, r, l)) <= Cap(l)
    <3>1. NodeSound(graph, r)
      BY <2>1, <2>3 DEF Sound
    <3>2. ASSUME NEW l \in 0 .. graph.nodes[r].level
          PROVE  /\ \A n \in ToSet(Links(graph, r, l)) :
                      n # r /\ graph.nodes[n].level >= l
                 /\ Len(Links(graph, r, l)) <= Cap(l)
      <4> DEFINE list == Links(graph, r, l)
      <4>1. list \in Seq(OnLayer(graph, l) \ {r}) /\ Len(list) <= Cap(l)
        BY <3>1 DEF NodeSound, ListSound, Links
      <4> HIDE DEF list
      <4>2. ToSet(list) \subseteq OnLayer(graph, l) \ {r}
        BY <4>1, InSet
      <4>3. \A n \in ToSet(list) : n # r /\ graph.nodes[n].level >= l
        BY <4>2 DEF OnLayer
      <4> QED  BY <4>1, <4>3 DEF list
    <3> QED  BY <3>1, <3>2 DEF NodeSound
  <2> QED  BY <2>2, <2>3 DEF GraphSound
<1> QED  BY <1>1, IndexInvariant, PTL

LEMMA OnceIs ==
  ASSUME Sound(graph)
  PROVE  SelfNearest <=> Once(graph)
<1>1. Rows(graph) = 1 .. Len(graph.nodes)
  BY RowsAre
<1>2. \A r \in Rows(graph) : Stored[r] = graph.nodes[r].at
  BY DEF Stored
<1>3. (\A r, s \in Rows(graph) :
         r # s => Dist(graph, Stored[r], r) < Dist(graph, Stored[s], r)) <=>
      (\A r, s \in Rows(graph) :
         r # s => Dist(graph, graph.nodes[r].at, r) < Dist(graph, graph.nodes[s].at, r))
  BY <1>2
<1> QED  BY <1>1, <1>3 DEF SelfNearest, Once

\* Wherever every row is nearest to itself, select_heuristic keeps the entry
\* row, which search_layer queues twice, from being linked twice.
THEOREM IndexLinksOnce == Spec => []LinksOnce
<1>1. ASSUME IInv
      PROVE  LinksOnce
  <2>1. Sound(graph) /\ Rows(graph) = 1 .. Len(graph.nodes)
    BY <1>1, RowsAre DEF IInv
  <2>2. ASSUME SelfNearest, NEW r \in Rows(graph), NEW l \in 0 .. graph.nodes[r].level
        PROVE  IsInjective(Links(graph, r, l))
    <3>1. Once(graph)
      BY <2>1, <2>2, OnceIs
    <3>2. NodeSound(graph, r)
      BY <2>1 DEF Sound
    <3> QED  BY <3>1, <3>2 DEF NodeSound, ListSound, Links
  <2> QED  BY <2>2 DEF LinksOnce
<1> QED  BY <1>1, IndexInvariant, PTL

\* What is saved is not loaded as anything else, and it is loaded wherever
\* every row is nearest to itself or there are as many rows as a list holds.
THEOREM IndexRoundTrip == Spec => []RoundTrip
<1>1. ASSUME IInv
      PROVE  RoundTrip
  <2>1. Sound(graph) /\ Len(graph.nodes) \in Nat
    BY <1>1, RowsAre DEF IInv
  <2>2. ASSUME graph.nodes # <<>>
        PROVE  graph.entry # 0
    <3>1. CASE graph.entry = 0
      <4>1. graph.nodes = [r \in 1 .. Len(graph.nodes) |-> graph.nodes[r]]
            /\ Len(graph.nodes) = 0
        BY <2>1, <3>1 DEF Sound, EntrySound
      <4>2. graph.nodes = [r \in 1 .. 0 |-> graph.nodes[r]]
        BY <4>1
      <4> QED  BY <2>2, <4>2
    <3> QED  BY <3>1
  <2>3. Stored = PointsOf(graph)
    BY DEF Stored, PointsOf
  <2>4. ASSUME SelfNearest \/ Len(graph.nodes) >= 2 * M
        PROVE  Taken(graph, Len(graph.nodes))
    <3> DEFINE count == Len(graph.nodes)
    <3>1. ASSUME NEW r \in 1 .. count, NEW l \in 0 .. graph.nodes[r].level
          PROVE  Len(graph.nodes[r].links[l]) <= count
      <4> DEFINE list == graph.nodes[r].links[l]
      <4>1. NodeSound(graph, r)
        BY <2>1 DEF Sound
      <4>2. l \in Nat
        OBVIOUS
      <4>3. ListSound(graph, r, l, list)
        BY <4>1 DEF NodeSound
      <4>4. list \in Seq(1 .. count) /\ count \in Nat
        <5>1. OnLayer(graph, l) \ {r} \subseteq 1 .. count
          BY DEF OnLayer
        <5>2. list \in Seq(OnLayer(graph, l) \ {r})
          BY <4>3 DEF ListSound
        <5> HIDE DEF list, count
        <5>3. list \in Seq(1 .. count)
          BY <5>1, <5>2, InWiderSet
        <5> QED  BY <2>1, <5>3 DEF count
      <4>5. CASE SelfNearest
        <5>1. IsInjective(list)
          BY <2>1, <4>3, <4>5, OnceIs DEF ListSound
        <5> HIDE DEF list, count
        <5>2. Len(list) <= count
          BY <4>4, <5>1, NoLongerThanRows
        <5> QED  BY <5>2 DEF list, count
      <4>6. CASE count >= 2 * M
        <5>1. Len(list) <= Cap(l)
          BY <4>3 DEF ListSound
        <5>2. Cap(l) \in Nat /\ Cap(l) <= 2 * M /\ Len(list) \in Nat /\ M \in Nat
          <6>1. M \in Nat /\ (Cap(l) = 2 * M \/ Cap(l) = M)
            BY DegreeAssumption DEF Cap
          <6> HIDE DEF list, count
          <6>2. Len(list) \in Nat
            BY <4>4
          <6> QED  BY <6>1, <6>2
        <5> HIDE DEF list, count
        <5>3. Len(list) <= count
          BY <4>4, <4>6, <5>1, <5>2
        <5> QED  BY <5>3 DEF list, count
      <4> QED  BY <2>4, <4>5, <4>6
    <3> HIDE DEF count
    <3>2. ASSUME NEW r \in 1 .. count
          PROVE  Holdable(count, graph.nodes[r])
      <4> DEFINE node == graph.nodes[r]
      <4>1. \A l \in 0 .. node.level : Len(node.links[l]) <= count
        BY <3>1
      <4>2. node.level \in Nat
        <5>1. NodeSound(graph, r)
          BY <2>1 DEF Sound, count
        <5>2. node.level \in 0 .. MaxLevel
          BY <5>1 DEF NodeSound
        <5> QED  BY <5>2
      <4> HIDE DEF node
      <4>3. Holdable(count, node)
        BY <4>1, <4>2 DEF Holdable, Short
      <4> QED  BY <4>3 DEF node
    <3> QED  BY <3>2 DEF Taken, count
  <2>5. ASSUME graph.nodes # <<>>
        PROVE  LET loaded == Deserialize(Serialize(graph), Stored)
               IN  /\ loaded.ok => loaded.graph = graph
                   /\ SelfNearest \/ Len(graph.nodes) >= 2 * M => loaded.ok
    <3> DEFINE loaded == Deserialize(Serialize(graph), Stored)
    <3>1. loaded = IF Taken(graph, Len(graph.nodes))
                   THEN [ok |-> TRUE, graph |-> graph]
                   ELSE [ok |-> FALSE, graph |-> EmptyGraph]
      BY <2>1, <2>2, <2>3, <2>5, LoadsBack
    <3> HIDE DEF loaded
    <3>2. CASE Taken(graph, Len(graph.nodes))
      <4>1. loaded = [ok |-> TRUE, graph |-> graph]
        BY <3>1, <3>2
      <4>2. loaded.ok = TRUE /\ loaded.graph = graph
        BY <4>1
      <4> QED  BY <4>2 DEF loaded
    <3>3. CASE ~Taken(graph, Len(graph.nodes))
      <4>1. loaded = [ok |-> FALSE, graph |-> EmptyGraph]
        BY <3>1, <3>3
      <4>2. loaded.ok = FALSE /\ ~(SelfNearest \/ Len(graph.nodes) >= 2 * M)
        BY <2>4, <3>3, <4>1
      <4> QED  BY <4>2 DEF loaded
    <3> QED  BY <3>2, <3>3
  <2> QED  BY <2>5 DEF RoundTrip
<1> QED  BY <1>1, IndexInvariant, PTL

-----------------------------------------------------------------------------
(* What a search finds on layer 0.  The walk starts at row e; "skip" holds *)
(* the rows it must not name.                                              *)

\* The neighbours of a row that a search may queue.
Near(g, skip, r) == ToSet(Links(g, r, 0)) \ skip

\* A set that holds the start and is closed under links.
Spans(g, skip, e, S) ==
  {e} \ skip \subseteq S /\ \A r \in S : Near(g, skip, r) \subseteq S

\* The walk leaves no such set.
Confined(g, skip, e, b) ==
  \A S \in SUBSET (1 .. Len(g.nodes)) :
    Spans(g, skip, e, S) =>
      ToSet(b.cands) \subseteq S /\ ToSet(b.best) \subseteq S /\ ToSet(b.todo) \ skip \subseteq S

\* The rows the walk has looked at.
Met(skip, e, b) == ({e} \cup b.visited) \ skip

\* Until the beam is full it drops nothing.
Collected(ef, skip, e, b) ==
  Len(b.best) <= ef /\ (Len(b.best) < ef => Met(skip, e, b) \subseteq ToSet(b.best))

\* Nothing met is nearer than the first result.
Closest(g, q, skip, e, b) ==
  \A r \in Met(skip, e, b) : b.best # <<>> /\ Dist(g, q, b.best[1]) <= Dist(g, q, r)

\* Every result is still to be expanded, or its neighbours were met or are next.
Pending(g, skip, b) ==
  \A r \in ToSet(b.best) :
    r \in ToSet(b.cands) \/ Near(g, skip, r) \subseteq b.visited \cup ToSet(b.todo)

LEMMA ConfinedStays ==
  ASSUME NEW g, Sound(g), NEW q \in Points, NEW ef \in Nat \ {0}, NEW skip, NEW e,
         NEW b, BeamSound(g, q, skip, 0, b), Confined(g, skip, e, b)
  PROVE  Confined(g, skip, e, Turn(g, q, ef, skip, 0, b))
<1> DEFINE c == Turn(g, q, ef, skip, 0, b)
<1>1. \/ Halts(g, q, ef, b) /\ c = b
      \/ Expands(g, q, ef, 0, b, c)
      \/ Passes(g, q, ef, skip, b, c)
      \/ Queues(g, q, ef, skip, 0, b, c)
  BY TurnIs
<1> SUFFICES Confined(g, skip, e, c)
  OBVIOUS
<1> HIDE DEF c
<1> SUFFICES ASSUME NEW S \in SUBSET (1 .. Len(g.nodes)), Spans(g, skip, e, S)
             PROVE  /\ ToSet(c.cands) \subseteq S /\ ToSet(c.best) \subseteq S
                    /\ ToSet(c.todo) \ skip \subseteq S
  BY DEF Confined
<1>2. ToSet(b.cands) \subseteq S /\ ToSet(b.best) \subseteq S /\ ToSet(b.todo) \ skip \subseteq S
  BY DEF Confined
<1>3. /\ b.cands \in Seq(Queued(g, skip, 0)) /\ b.todo \in Seq(OnLayer(g, 0))
  BY DEF BeamSound
<1>4. /\ b.todo # <<>> => /\ ToSet(b.todo) = {Head(b.todo)} \cup ToSet(Tail(b.todo))
      /\ b.cands # <<>> => /\ ToSet(b.cands) = {Head(b.cands)} \cup ToSet(Tail(b.cands))
  BY <1>3, TailIs
<1>5. CASE c = b
  BY <1>2, <1>5
<1>6. CASE Expands(g, q, ef, 0, b, c)
  <2>1. /\ b.cands # <<>> /\ c.cands = Tail(b.cands) /\ c.best = b.best
        /\ c.todo = Links(g, Head(b.cands), 0)
    BY <1>6 DEF Expands
  <2>2. Head(b.cands) \in S
    BY <1>2, <1>4, <2>1
  <2>3. Near(g, skip, Head(b.cands)) \subseteq S
    BY <2>2 DEF Spans
  <2> QED  BY <1>2, <1>4, <2>1, <2>3 DEF Near
<1>7. CASE Passes(g, q, ef, skip, b, c)
  <2>1. b.todo # <<>> /\ c.todo = Tail(b.todo) /\ c.cands = b.cands /\ c.best = b.best
    BY <1>7 DEF Passes
  <2> QED  BY <1>2, <1>4, <2>1
<1>8. CASE Queues(g, q, ef, skip, 0, b, c)
  <2>1. /\ b.todo # <<>> /\ c.todo = Tail(b.todo) /\ Head(b.todo) \in Queued(g, skip, 0)
    BY <1>8 DEF Queues
  <2>q. HasQueued(g, q, ef, skip, 0, b, c)
    BY <1>8, QueuesAre
  <2>2. /\ ToSet(c.cands) = ToSet(b.cands) \cup {Head(b.todo)}
        /\ ToSet(c.best) \subseteq ToSet(b.best) \cup {Head(b.todo)}
    BY <2>q DEF HasQueued
  <2>3. Head(b.todo) \in S
    BY <1>2, <1>4, <2>1 DEF Queued
  <2> QED  BY <1>2, <1>4, <2>1, <2>2, <2>3
<1> QED  BY <1>1, <1>5, <1>6, <1>7, <1>8

LEMMA CollectedStays ==
  ASSUME NEW g, Sound(g), NEW q \in Points, NEW ef \in Nat \ {0}, NEW skip, NEW e,
         NEW b, BeamSound(g, q, skip, 0, b), Collected(ef, skip, e, b)
  PROVE  Collected(ef, skip, e, Turn(g, q, ef, skip, 0, b))
<1> DEFINE c == Turn(g, q, ef, skip, 0, b)
           n == Head(b.todo)
<1>1. \/ Halts(g, q, ef, b) /\ c = b
      \/ Expands(g, q, ef, 0, b, c)
      \/ Passes(g, q, ef, skip, b, c)
      \/ Queues(g, q, ef, skip, 0, b, c)
  BY TurnIs
<1> SUFFICES Collected(ef, skip, e, c)
  OBVIOUS
<1> HIDE DEF c, n
<1>2. /\ Len(b.best) <= ef
      /\ Len(b.best) < ef => ({e} \cup b.visited) \ skip \subseteq ToSet(b.best)
  BY DEF Collected, Met
<1>3. Len(b.best) \in Nat
  BY DEF BeamSound
<1>4. CASE c = b
  BY <1>4
<1>5. CASE Expands(g, q, ef, 0, b, c)
  BY <1>2, <1>5 DEF Expands, Collected, Met
<1>6. CASE Passes(g, q, ef, skip, b, c)
  <2>1. /\ c.best = b.best /\ c.visited = b.visited \cup {n}
        /\ n \in b.visited \/ n \in skip \/ Len(b.best) >= ef
    BY <1>6 DEF Passes, n
  <2>2. ~(Len(b.best) < ef /\ Len(b.best) >= ef)
    BY <1>3
  <2> QED  BY <1>2, <2>1, <2>2 DEF Collected, Met
<1>7. CASE Queues(g, q, ef, skip, 0, b, c)
  <2>q. HasQueued(g, q, ef, skip, 0, b, c)
    BY <1>7, QueuesAre
  <2>1. IF Len(b.best) < ef
        THEN /\ Len(c.best) = Len(b.best) + 1
             /\ ToSet(c.best) = ToSet(b.best) \cup {n}
        ELSE Len(c.best) = Len(b.best)
    BY <2>q DEF HasQueued, n
  <2>2. c.visited = b.visited \cup {n}
    BY <1>7 DEF Queues, n
  <2>3. Len(c.best) <= ef /\ (Len(c.best) < ef => Len(b.best) < ef)
    BY <1>2, <1>3, <2>1
  <2> QED  BY <1>2, <2>1, <2>2, <2>3 DEF Collected, Met
<1> QED  BY <1>1, <1>4, <1>5, <1>6, <1>7

LEMMA ClosestStays ==
  ASSUME NEW g, Sound(g), NEW q \in Points, NEW ef \in Nat \ {0}, NEW skip,
         NEW e \in OnLayer(g, 0),
         NEW b, BeamSound(g, q, skip, 0, b), Closest(g, q, skip, e, b)
  PROVE  Closest(g, q, skip, e, Turn(g, q, ef, skip, 0, b))
<1> DEFINE c == Turn(g, q, ef, skip, 0, b)
           n == Head(b.todo)
           R == 1 .. Len(g.nodes)
<1>1. \/ Halts(g, q, ef, b) /\ c = b
      \/ Expands(g, q, ef, 0, b, c)
      \/ Passes(g, q, ef, skip, b, c)
      \/ Queues(g, q, ef, skip, 0, b, c)
  BY TurnIs
<1> SUFFICES Closest(g, q, skip, e, c)
  OBVIOUS
<1> HIDE DEF c, n, R
<1>2. \A r \in ({e} \cup b.visited) \ skip :
        b.best # <<>> /\ Dist(g, q, b.best[1]) <= Dist(g, q, r)
  BY DEF Closest, Met
<1>3. /\ b.best \in Seq(Queued(g, skip, 0)) /\ Sorted(g, q, b.best)
      /\ b.visited \subseteq R /\ e \in R
  BY DEF BeamSound, OnLayer, R
<1>4. b.best # <<>> => /\ b.best[1] \in ToSet(b.best) /\ Last(b.best) \in ToSet(b.best)
                       /\ Dist(g, q, b.best[1]) <= Dist(g, q, Last(b.best))
  <2>1. ASSUME b.best # <<>>
        PROVE  /\ b.best[1] \in ToSet(b.best) /\ Last(b.best) \in ToSet(b.best)
               /\ \A x \in ToSet(b.best) : Dist(g, q, b.best[1]) <= Dist(g, q, x)
    BY <1>3, <2>1, SortedEnds
  <2> QED  BY <2>1
<1>5. Queued(g, skip, 0) \subseteq R
  BY DEF Queued, OnLayer, R
<1>6. ToSet(b.best) \subseteq R
  BY <1>3, <1>5, InSet
<1>7. \A r \in R : Dist(g, q, r) \in Int
  BY DistIs, SoundIsPositioned DEF R
<1>8. CASE c = b
  BY <1>8
<1>9. CASE Expands(g, q, ef, 0, b, c)
  BY <1>2, <1>9 DEF Expands, Closest, Met
<1>10. CASE Passes(g, q, ef, skip, b, c)
  <2>1. /\ c.best = b.best /\ c.visited = b.visited \cup {n}
        /\ \/ n \in b.visited \/ n \in skip
           \/ Len(b.best) >= ef /\ Dist(g, q, n) >= Dist(g, q, Last(b.best))
    BY <1>10 DEF Passes, n
  <2>2. CASE n \in b.visited \/ n \in skip
    BY <1>2, <2>1, <2>2 DEF Closest, Met
  <2>3. CASE Len(b.best) >= ef /\ Dist(g, q, n) >= Dist(g, q, Last(b.best))
    <3>1. b.best # <<>>
      BY <2>3
    <3>2. n \in R
      <4>1. b.todo # <<>> /\ b.todo \in Seq(OnLayer(g, 0))
        BY <1>10 DEF Passes, BeamSound
      <4>2. n \in OnLayer(g, 0)
        BY <4>1, TailIs DEF n
      <4> QED  BY <4>2 DEF OnLayer, R
    <3>3. Dist(g, q, b.best[1]) <= Dist(g, q, n)
      <4>1. /\ Dist(g, q, b.best[1]) \in Int /\ Dist(g, q, Last(b.best)) \in Int
            /\ Dist(g, q, n) \in Int
        BY <1>4, <1>6, <1>7, <3>1, <3>2
      <4>2. Dist(g, q, b.best[1]) <= Dist(g, q, Last(b.best))
        BY <1>4, <3>1
      <4> QED  BY <2>3, <4>1, <4>2
    <3> QED  BY <1>2, <2>1, <3>1, <3>3 DEF Closest, Met
  <2> QED  BY <2>1, <2>2, <2>3
<1>11. CASE Queues(g, q, ef, skip, 0, b, c)
  <2>q. HasQueued(g, q, ef, skip, 0, b, c)
    BY <1>11, QueuesAre
  <2>1. /\ c.best # <<>> /\ c.best \in Seq(Queued(g, skip, 0))
        /\ \A x \in ToSet(b.best) \cup {n} : Dist(g, q, c.best[1]) <= Dist(g, q, x)
    BY <2>q DEF HasQueued, n
  <2>2. c.visited = b.visited \cup {n}
    BY <1>11 DEF Queues, n
  <2>3. c.best[1] \in R
    BY <1>5, <2>1
  <2>4. ASSUME NEW r \in ({e} \cup b.visited) \ skip
        PROVE  Dist(g, q, c.best[1]) <= Dist(g, q, r)
    <3>1. b.best # <<>> /\ Dist(g, q, b.best[1]) <= Dist(g, q, r)
      BY <1>2
    <3>2. b.best[1] \in ToSet(b.best) /\ b.best[1] \in R /\ r \in R
      BY <1>3, <1>4, <1>6, <3>1
    <3>3. Dist(g, q, c.best[1]) <= Dist(g, q, b.best[1])
      BY <2>1, <3>2
    <3>4. /\ Dist(g, q, c.best[1]) \in Int /\ Dist(g, q, b.best[1]) \in Int
          /\ Dist(g, q, r) \in Int
      BY <1>7, <2>3, <3>2
    <3> QED  BY <3>1, <3>3, <3>4
  <2> QED  BY <2>1, <2>2, <2>4 DEF Closest, Met
<1> QED  BY <1>1, <1>8, <1>9, <1>10, <1>11

LEMMA PendingStays ==
  ASSUME NEW g, Sound(g), NEW q \in Points, NEW ef \in Nat \ {0}, NEW skip,
         NEW b, BeamSound(g, q, skip, 0, b), Pending(g, skip, b)
  PROVE  Pending(g, skip, Turn(g, q, ef, skip, 0, b))
<1> DEFINE c == Turn(g, q, ef, skip, 0, b)
           n == Head(b.todo)
<1>1. \/ Halts(g, q, ef, b) /\ c = b
      \/ Expands(g, q, ef, 0, b, c)
      \/ Passes(g, q, ef, skip, b, c)
      \/ Queues(g, q, ef, skip, 0, b, c)
  BY TurnIs
<1> SUFFICES Pending(g, skip, c)
  OBVIOUS
<1> HIDE DEF c, n
<1>2. \A r \in ToSet(b.best) :
        r \in ToSet(b.cands) \/ Near(g, skip, r) \subseteq b.visited \cup ToSet(b.todo)
  BY DEF Pending
<1>3. b.cands \in Seq(Queued(g, skip, 0)) /\ b.todo \in Seq(OnLayer(g, 0))
  BY DEF BeamSound
<1>4. /\ b.todo # <<>> => ToSet(b.todo) = {n} \cup ToSet(Tail(b.todo))
      /\ b.cands # <<>> => ToSet(b.cands) = {Head(b.cands)} \cup ToSet(Tail(b.cands))
  BY <1>3, TailIs DEF n
<1>5. CASE c = b
  BY <1>5
<1>6. CASE Expands(g, q, ef, 0, b, c)
  <2>1. /\ b.cands # <<>> /\ c.cands = Tail(b.cands) /\ c.best = b.best
        /\ c.visited = b.visited /\ b.todo = <<>>
        /\ c.todo = Links(g, Head(b.cands), 0)
    BY <1>6 DEF Expands
  <2>2. \A x : x \notin ToSet(b.todo)
    BY <2>1 DEF ToSet
  <2>3. ASSUME NEW r \in ToSet(c.best)
        PROVE  r \in ToSet(c.cands) \/ Near(g, skip, r) \subseteq c.visited \cup ToSet(c.todo)
    <3>1. CASE r = Head(b.cands)
      BY <2>1, <3>1 DEF Near
    <3>2. CASE r # Head(b.cands) /\ r \in ToSet(b.cands)
      BY <1>4, <2>1, <3>2
    <3>3. CASE r \notin ToSet(b.cands)
      BY <1>2, <2>1, <2>2, <3>3
    <3> QED  BY <3>1, <3>2, <3>3
  <2> QED  BY <2>3 DEF Pending
<1>7. CASE Passes(g, q, ef, skip, b, c)
  <2>1. /\ b.todo # <<>> /\ c.todo = Tail(b.todo) /\ c.cands = b.cands /\ c.best = b.best
        /\ c.visited = b.visited \cup {n}
    BY <1>7 DEF Passes, n
  <2> QED  BY <1>2, <1>4, <2>1 DEF Pending
<1>8. CASE Queues(g, q, ef, skip, 0, b, c)
  <2>1. b.todo # <<>> /\ c.todo = Tail(b.todo) /\ c.visited = b.visited \cup {n}
    BY <1>8 DEF Queues, n
  <2>q. HasQueued(g, q, ef, skip, 0, b, c)
    BY <1>8, QueuesAre
  <2>2. /\ ToSet(c.cands) = ToSet(b.cands) \cup {n}
        /\ ToSet(c.best) \subseteq ToSet(b.best) \cup {n}
    BY <2>q DEF HasQueued, n
  <2> QED  BY <1>2, <1>4, <2>1, <2>2 DEF Pending
<1> QED  BY <1>1, <1>5, <1>6, <1>7, <1>8

\* How many turns a beam can still take: a candidate is good for its own
\* expansion and for a full list of links.
Fuel(g, b) ==
  (Len(b.cands) + Cardinality(1 .. Len(g.nodes) \ b.visited)) * (1 + 2 * M) + Len(b.todo)

LEMMA Products ==
  ASSUME NEW k \in Nat \ {0}
  PROVE  \A x \in Nat : /\ x * k \in Nat /\ (x + 1) * k = x * k + k
                        /\ x * k <= 0 => x = 0
<1> TAKE x \in Nat
<1>1. x * k \in Nat /\ (x + 1) * k = x * k + k
  OBVIOUS
<1>2. ASSUME x # 0
      PROVE  x * k > 0
  <2>1. PICK y \in Nat : x = y + 1
    <3>1. x - 1 \in Nat /\ x = (x - 1) + 1
      BY <1>2
    <3> QED  BY <3>1
  <2>2. y * k \in Nat /\ (y + 1) * k = y * k + k
    OBVIOUS
  <2> QED  BY <2>1, <2>2
<1> QED  BY <1>1, <1>2

LEMMA FuelIs ==
  ASSUME NEW g, Sound(g), NEW q \in Points, NEW skip, NEW b, BeamSound(g, q, skip, 0, b)
  PROVE  /\ Fuel(g, b) \in Nat
         /\ Cardinality(1 .. Len(g.nodes) \ b.visited) \in Nat
         /\ Fuel(g, b) <= 0 => Len(b.cands) = 0 /\ Len(b.todo) = 0
<1> DEFINE u == Cardinality(1 .. Len(g.nodes) \ b.visited)
           a == Len(b.cands)
           t == Len(b.todo)
           k == 1 + 2 * M
<1>1. a \in Nat /\ t \in Nat
  BY DEF BeamSound
<1>2. u \in Nat
  <2>1. IsFiniteSet(1 .. Len(g.nodes))
    <3>1. Len(g.nodes) \in Int
      BY DEF Sound
    <3> QED  BY <3>1, FS_Interval
  <2>2. IsFiniteSet(1 .. Len(g.nodes) \ b.visited)
    BY <2>1, FS_Difference
  <2> QED  BY <2>2, FS_CardinalityType
<1>3. k \in Nat \ {0}
  BY DegreeAssumption
<1>4. Fuel(g, b) = (a + u) * k + t
  BY DEF Fuel
<1> HIDE DEF a, u, t, k
<1>5. a + u \in Nat
  BY <1>1, <1>2
<1>6. (a + u) * k \in Nat /\ ((a + u) * k <= 0 => a + u = 0)
  BY <1>3, <1>5, Products
<1>7. Fuel(g, b) \in Nat /\ (Fuel(g, b) <= 0 => a + u = 0 /\ t = 0)
  BY <1>1, <1>4, <1>6
<1>8. a + u = 0 => a = 0
  BY <1>1, <1>2
<1> QED  BY <1>2, <1>7, <1>8 DEF a, u, t

LEMMA FuelBurns ==
  ASSUME NEW g, Sound(g), NEW q \in Points, NEW ef \in Nat \ {0}, NEW skip,
         NEW b, BeamSound(g, q, skip, 0, b), ~Halts(g, q, ef, b)
  PROVE  Fuel(g, Turn(g, q, ef, skip, 0, b)) + 1 <= Fuel(g, b)
<1> DEFINE c == Turn(g, q, ef, skip, 0, b)
           n == Head(b.todo)
           R == 1 .. Len(g.nodes)
           u == Cardinality(R \ b.visited)
           a == Len(b.cands)
           t == Len(b.todo)
           k == 1 + 2 * M
           v == Cardinality(R \ c.visited)
           d == Len(c.cands)
           s == Len(c.todo)
<1>0. IsFiniteSet(R)
  <2>1. Len(g.nodes) \in Int
    BY DEF Sound
  <2> HIDE DEF c
  <2> QED  BY <2>1, FS_Interval
<1>1. \/ Expands(g, q, ef, 0, b, c)
      \/ Passes(g, q, ef, skip, b, c)
      \/ Queues(g, q, ef, skip, 0, b, c)
  BY TurnIs
<1>2. BeamSound(g, q, skip, 0, c)
  BY TurnStays
<1> SUFFICES Fuel(g, c) + 1 <= Fuel(g, b)
  OBVIOUS
<1> HIDE DEF c
<1>3. a \in Nat /\ t \in Nat /\ d \in Nat /\ s \in Nat
  BY <1>2 DEF BeamSound
<1>4. u \in Nat /\ v \in Nat
  BY <1>2, FuelIs
<1>5. k \in Nat \ {0}
  BY DegreeAssumption
<1>6. Fuel(g, b) = (a + u) * k + t /\ Fuel(g, c) = (d + v) * k + s
  BY DEF Fuel
<1>7. /\ b.todo # <<>> => /\ Len(Tail(b.todo)) = t - 1 /\ n \in R
      /\ b.cands # <<>> => /\ Len(Tail(b.cands)) = a - 1 /\ Head(b.cands) \in OnLayer(g, 0)
  <2>1. b.todo \in Seq(OnLayer(g, 0)) /\ b.cands \in Seq(Queued(g, skip, 0))
    BY DEF BeamSound
  <2>2. Queued(g, skip, 0) \subseteq OnLayer(g, 0) /\ OnLayer(g, 0) \subseteq R
    BY DEF Queued, OnLayer
  <2>3. b.todo # <<>> => Len(Tail(b.todo)) = t - 1 /\ n \in OnLayer(g, 0)
    BY <2>1, TailIs
  <2>4. b.cands # <<>> => Len(Tail(b.cands)) = a - 1 /\ Head(b.cands) \in Queued(g, skip, 0)
    BY <2>1, TailIs
  <2> QED  BY <2>2, <2>3, <2>4
<1>8. c.visited = b.visited \cup {n} /\ n \in R =>
        IF n \in b.visited THEN v = u ELSE u = v + 1
  <2> SUFFICES ASSUME c.visited = b.visited \cup {n}, n \in R
               PROVE  IF n \in b.visited THEN v = u ELSE u = v + 1
    OBVIOUS
  <2>1. CASE n \in b.visited
    <3>1. c.visited = b.visited
      BY <2>1
    <3> QED  BY <2>1, <3>1
  <2>2. CASE n \notin b.visited
    <3> DEFINE W == R \ b.visited
    <3>1. R \ c.visited = W \ {n} /\ n \in W
      BY <2>2
    <3>2. IsFiniteSet(W)
      BY <1>0, FS_Difference
    <3> HIDE DEF W
    <3>3. Cardinality(W \ {n}) = Cardinality(W) - 1
      BY <3>1, <3>2, FS_RemoveElement
    <3>4. v = Cardinality(W) - 1
      BY <3>1, <3>3
    <3>5. u = Cardinality(W)
      BY DEF W
    <3> HIDE DEF u, v
    <3> QED  BY <1>4, <2>2, <3>4, <3>5
  <2> QED  BY <2>1, <2>2
<1>9. CASE Expands(g, q, ef, 0, b, c)
  <2>1. /\ b.cands # <<>> /\ b.todo = <<>> /\ c.cands = Tail(b.cands)
        /\ c.visited = b.visited /\ c.todo = Links(g, Head(b.cands), 0)
    BY <1>9 DEF Expands
  <2>2. s <= 2 * M
    <3>1. Len(Links(g, Head(b.cands), 0)) <= Cap(0)
      BY <1>7, <2>1, LinksAre
    <3> QED  BY <2>1, <3>1 DEF Cap
  <2>3. t = 0 /\ d = a - 1 /\ v = u
    BY <1>7, <2>1
  <2>4. s + 1 <= k
    BY <1>3, <2>2, DegreeAssumption
  <2> HIDE DEF a, u, t, k, v, d, s
  <2>5. a + u = (d + v) + 1 /\ d + v \in Nat
    BY <1>3, <1>4, <2>3
  <2>6. (a + u) * k = (d + v) * k + k /\ (d + v) * k \in Nat
    BY <1>5, <2>5, Products
  <2> QED  BY <1>3, <1>5, <1>6, <2>3, <2>4, <2>6
<1>10. CASE Passes(g, q, ef, skip, b, c)
  <2>1. b.todo # <<>> /\ c.todo = Tail(b.todo) /\ c.cands = b.cands
        /\ c.visited = b.visited \cup {n}
    BY <1>10 DEF Passes
  <2>2. s = t - 1 /\ d = a /\ (v = u \/ u = v + 1)
    BY <1>7, <1>8, <2>1
  <2> HIDE DEF a, u, t, k, v, d, s
  <2>3. d + v \in Nat /\ (a + u = d + v \/ a + u = (d + v) + 1)
    BY <1>3, <1>4, <2>2
  <2>4. (d + v) * k \in Nat /\ (d + v + 1) * k = (d + v) * k + k
    BY <1>5, <2>3, Products
  <2>5. (a + u) * k >= (d + v) * k /\ (a + u) * k \in Nat
    <3>1. CASE a + u = d + v
      BY <2>4, <3>1
    <3>2. CASE a + u = (d + v) + 1
      BY <1>5, <2>4, <3>2
    <3> QED  BY <2>3, <3>1, <3>2
  <2>6. \A x, y \in Nat : x >= y => y + s + 1 <= x + t
    BY <1>3, <2>2
  <2> QED  BY <1>6, <2>4, <2>5, <2>6
<1>11. CASE Queues(g, q, ef, skip, 0, b, c)
  <2>1. b.todo # <<>> /\ c.todo = Tail(b.todo) /\ n \notin b.visited
        /\ c.visited = b.visited \cup {n}
    BY <1>11 DEF Queues
  <2>2. d = a + 1
    <3>1. HasQueued(g, q, ef, skip, 0, b, c)
      BY <1>11, QueuesAre
    <3> QED  BY <3>1 DEF HasQueued
  <2>3. s = t - 1 /\ u = v + 1
    BY <1>7, <1>8, <2>1
  <2> HIDE DEF a, u, t, k, v, d, s
  <2>4. a + u = d + v
    BY <1>3, <1>4, <2>2, <2>3
  <2>5. (a + u) * k = (d + v) * k
    BY <2>4
  <2>6. (a + u) * k \in Nat
    <3>1. a + u \in Nat
      BY <1>3, <1>4
    <3> QED  BY <1>5, <3>1, Products
  <2>7. \A x \in Nat : x + s + 1 <= x + t
    BY <1>3, <2>3
  <2> QED  BY <1>6, <2>5, <2>6, <2>7
<1> QED  BY <1>1, <1>9, <1>10, <1>11

\* All that a turn of the walk keeps.
Walked(g, q, ef, skip, e, b) ==
  /\ BeamSound(g, q, skip, 0, b)
  /\ Confined(g, skip, e, b) /\ Collected(ef, skip, e, b)
  /\ Closest(g, q, skip, e, b) /\ Pending(g, skip, b)

LEMMA WalkStarts ==
  ASSUME NEW g, Sound(g), NEW q \in Points, NEW ef \in Nat \ {0}, NEW skip,
         NEW e \in OnLayer(g, 0)
  PROVE  /\ Walked(g, q, ef, skip, e, EnterBeam(g, q, <<e>>, skip))
         /\ Fuel(g, EnterBeam(g, q, <<e>>, skip)) <= Turns(g, <<e>>)
<1> DEFINE b == EnterBeam(g, q, <<e>>, skip)
           k == 1 + 2 * M
           n == Len(g.nodes)
<1>1. <<e>> \in Seq(OnLayer(g, 0)) /\ Len(<<e>>) = 1 /\ \A x : x \in ToSet(<<e>>) <=> x = e
  <2>1. \A x : x \in ToSet(<<e>>) <=> x = e
    BY DEF ToSet
  <2> QED  BY <2>1
<1>2. /\ BeamSound(g, q, skip, 0, b)
      /\ b.cands = b.best /\ b.visited = {} /\ b.todo = <<>>
      /\ \A x : x \in ToSet(b.best) <=> x = e /\ x \notin skip
      /\ Len(b.best) <= 1
  <2>1. /\ BeamSound(g, q, skip, 0, b)
        /\ b.cands = b.best /\ b.visited = {} /\ b.todo = <<>>
        /\ ToSet(b.best) = ToSet(<<e>>) \ skip
        /\ Len(b.best) <= Len(<<e>>)
    BY <1>1, EnterStays
  <2> HIDE DEF b
  <2> QED  BY <1>1, <2>1
<1> HIDE DEF b
<1>3. /\ b.best \in Seq(Queued(g, skip, 0)) /\ Len(b.best) \in Nat /\ Sorted(g, q, b.best)
      /\ \A x : x \notin ToSet(b.todo)
  <2>1. \A x : x \notin ToSet(<<>>)
    BY DEF ToSet
  <2> QED  BY <1>2, <2>1 DEF BeamSound
<1>4. Confined(g, skip, e, b)
  BY <1>2, <1>3 DEF Confined, Spans
<1>5. Collected(ef, skip, e, b)
  <2>1. Len(b.best) <= ef
    BY <1>2, <1>3
  <2> QED  BY <1>2, <2>1 DEF Collected, Met
<1>6. Closest(g, q, skip, e, b)
  <2> SUFFICES ASSUME e \notin skip
               PROVE  b.best # <<>> /\ Dist(g, q, b.best[1]) <= Dist(g, q, e)
    BY <1>2 DEF Closest, Met
  <2>1. e \in ToSet(b.best)
    BY <1>2
  <2>2. b.best # <<>>
    <3>1. \A x : x \notin ToSet(<<>>)
      BY DEF ToSet
    <3> QED  BY <2>1, <3>1
  <2>3. \A x \in ToSet(b.best) : Dist(g, q, b.best[1]) <= Dist(g, q, x)
    BY <1>3, <2>2, SortedEnds
  <2> QED  BY <2>1, <2>2, <2>3
<1>7. Pending(g, skip, b)
  BY <1>2 DEF Pending
<1>8. Fuel(g, b) <= Turns(g, <<e>>)
  <2>1. n \in Nat /\ k \in Nat \ {0}
    BY DegreeAssumption DEF Sound
  <2>2. Cardinality(1 .. n \ b.visited) = n
    <3>1. 1 .. n \ b.visited = 1 .. n
      BY <1>2
    <3>2. Cardinality(1 .. n) = n
      <4> HIDE DEF n
      <4> QED  BY <2>1, FS_Interval
    <3> QED  BY <3>1, <3>2
  <2>3. Len(b.todo) = 0
    BY <1>2
  <2>4. Fuel(g, b) = (Len(b.cands) + n) * k + 0
    BY <2>2, <2>3 DEF Fuel
  <2>5. Turns(g, <<e>>) = (1 + n) * k
    BY <1>1 DEF Turns
  <2> HIDE DEF n, k
  <2>6. n * k \in Nat /\ (n + 1) * k = n * k + k /\ 1 + n = n + 1
    BY <2>1, Products
  <2>7. Len(b.cands) = 0 \/ Len(b.cands) = 1
    <3>1. b.cands = b.best /\ Len(b.best) <= 1
      BY <1>2
    <3>2. Len(b.best) \in Nat
      BY <1>3
    <3>3. \A m \in Nat : m <= 1 => m = 0 \/ m = 1
      OBVIOUS
    <3> QED  BY <3>1, <3>2, <3>3
  <2>8. Turns(g, <<e>>) = n * k + k
    BY <2>5, <2>6
  <2>9. CASE Len(b.cands) = 0
    <3>1. Fuel(g, b) = n * k
      <4>1. Len(b.cands) + n = n
        BY <2>1, <2>9
      <4> QED  BY <2>4, <2>6, <4>1
    <3> QED  BY <2>1, <2>6, <2>8, <3>1
  <2>10. CASE Len(b.cands) = 1
    <3>1. Fuel(g, b) = n * k + k
      <4>1. Len(b.cands) + n = n + 1
        BY <2>1, <2>10
      <4> QED  BY <2>1, <2>4, <2>6, <4>1
    <3> QED  BY <2>1, <2>6, <2>8, <3>1
  <2> QED  BY <2>7, <2>9, <2>10
<1> QED  BY <1>2, <1>4, <1>5, <1>6, <1>7, <1>8 DEF Walked, b

\* The turns are enough for the walk to end, and it ends as it went on.
LEMMA WalkEnds ==
  ASSUME NEW g, Sound(g), NEW q \in Points, NEW ef \in Nat \ {0}, NEW skip,
         NEW e \in OnLayer(g, 0)
  PROVE  \E b : /\ b.best = SearchLayer(g, q, ef, <<e>>, skip, 0)
                /\ Walked(g, q, ef, skip, e, b) /\ Halts(g, q, ef, b)
<1> DEFINE B == Beams(g, q, ef, <<e>>, skip, 0)
           last == Turns(g, <<e>>)
           Fit(i) == /\ Walked(g, q, ef, skip, e, B[i])
                     /\ Halts(g, q, ef, B[i]) \/ Fuel(g, B[i]) <= last - i
           S == {i \in 0 .. last : Fit(i)}
<1>1. <<e>> \in Seq(OnLayer(g, 0))
  OBVIOUS
<1>2. last \in Nat
  BY <1>1, TurnsAreNat
<1>3. /\ B[0] = EnterBeam(g, q, <<e>>, skip)
      /\ \A i \in 1 .. last : B[i] = Turn(g, q, ef, skip, 0, B[i - 1])
  <2>1. PICK w : w = <<e>>
    OBVIOUS
  <2>2. w \in Seq(OnLayer(g, 0)) /\ 0 \in Nat
    BY <1>1, <2>1
  <2>4. Beams(g, q, ef, w, skip, 0)[0] = EnterBeam(g, q, w, skip)
    BY <2>2, BeamsAre
  <2>3. /\ \A i \in 1 .. Turns(g, w) :
             Beams(g, q, ef, w, skip, 0)[i] =
               Turn(g, q, ef, skip, 0, Beams(g, q, ef, w, skip, 0)[i - 1])
    BY <2>2, BeamsAre
  <2> QED  BY <2>1, <2>3, <2>4
<1>4. /\ Walked(g, q, ef, skip, e, EnterBeam(g, q, <<e>>, skip))
      /\ Fuel(g, EnterBeam(g, q, <<e>>, skip)) <= last
  BY WalkStarts
<1> HIDE DEF B, last
<1>5. 0 \in S
  <2>1. last - 0 = last
    BY <1>2
  <2> QED  BY <1>2, <1>3, <1>4, <2>1
<1>6. ASSUME NEW i \in 0 .. last - 1, i \in S
      PROVE  i + 1 \in S
  <2> DEFINE b == B[i]
             c == Turn(g, q, ef, skip, 0, b)
  <2>1. PICK j \in 1 .. last : j = i + 1
    BY <1>2
  <2>2. j \in 0 .. last /\ j - 1 = i /\ last - i = (last - j) + 1 /\ last - j \in Nat
    BY <1>2, <2>1
  <2>3. B[j] = c
    BY <1>3, <2>2
  <2>4. Walked(g, q, ef, skip, e, b) /\ (Halts(g, q, ef, b) \/ Fuel(g, b) <= last - i)
    BY <1>6
  <2>5. /\ BeamSound(g, q, skip, 0, b)
        /\ Confined(g, skip, e, b) /\ Collected(ef, skip, e, b)
        /\ Closest(g, q, skip, e, b) /\ Pending(g, skip, b)
    BY <2>4 DEF Walked
  <2>6. Walked(g, q, ef, skip, e, c)
    <3>1. BeamSound(g, q, skip, 0, c)
      BY <2>5, TurnStays
    <3>2. Confined(g, skip, e, c)
      BY <2>5, ConfinedStays
    <3>3. Collected(ef, skip, e, c)
      BY <2>5, CollectedStays
    <3>4. Closest(g, q, skip, e, c)
      BY <2>5, ClosestStays
    <3>5. Pending(g, skip, c)
      BY <2>5, PendingStays
    <3> HIDE DEF b, c
    <3> QED  BY <3>1, <3>2, <3>3, <3>4, <3>5 DEF Walked
  <2>7. Halts(g, q, ef, c) \/ Fuel(g, c) <= last - j
    <3>1. CASE Halts(g, q, ef, b)
      <4>1. c = b
        BY <3>1 DEF Halts, Turn
      <4> QED  BY <3>1, <4>1
    <3>2. CASE ~Halts(g, q, ef, b)
      <4>1. Fuel(g, c) + 1 <= Fuel(g, b)
        BY <2>5, <3>2, FuelBurns
      <4>2. Fuel(g, c) \in Nat /\ Fuel(g, b) \in Nat
        <5>1. BeamSound(g, q, skip, 0, b) /\ BeamSound(g, q, skip, 0, c)
          BY <2>5, <2>6 DEF Walked
        <5> HIDE DEF b, c
        <5> QED  BY <5>1, FuelIs
      <4>3. Fuel(g, b) <= last - i
        BY <2>4, <3>2
      <4> HIDE DEF b, c
      <4> QED  BY <2>2, <4>1, <4>2, <4>3
    <3> QED  BY <3>1, <3>2
  <2> HIDE DEF c
  <2>8. Fit(j)
    BY <2>3, <2>6, <2>7
  <2> QED  BY <2>1, <2>2, <2>8
<1> HIDE DEF S
<1>7. \A i \in 0 .. last : i \in S
  BY <1>2, <1>5, <1>6, UpTo
<1>8. Fit(last)
  BY <1>2, <1>7 DEF S
<1>9. Walked(g, q, ef, skip, e, B[last])
  BY <1>8
<1>10. Halts(g, q, ef, B[last])
  <2> SUFFICES ASSUME Fuel(g, B[last]) <= 0
               PROVE  Halts(g, q, ef, B[last])
    BY <1>2, <1>8
  <2>1. BeamSound(g, q, skip, 0, B[last])
    BY <1>9 DEF Walked
  <2> DEFINE b == B[last]
  <2> HIDE DEF b
  <2>2. /\ BeamSound(g, q, skip, 0, b) /\ Len(b.cands) = 0 /\ Len(b.todo) = 0
    BY <2>1, FuelIs DEF b
  <2>3. b.cands = <<>> /\ b.todo = <<>>
    BY <2>2 DEF BeamSound
  <2> QED  BY <2>3 DEF b, Halts, Stopped
<1>11. B[last].best = SearchLayer(g, q, ef, <<e>>, skip, 0)
  BY SearchIs DEF B, last
<1> QED  BY <1>9, <1>10, <1>11

\* The rows in every set that holds the start and is closed under links.
Reach(g, skip, e) ==
  {r \in Rows(g) : \A S \in SUBSET Rows(g) : Spans(g, skip, e, S) => r \in S}

LEMMA WalkReaches ==
  ASSUME NEW g, Sound(g), NEW q \in Points, NEW ef \in Nat \ {0}, NEW skip,
         NEW e \in OnLayer(g, 0), NEW b, Walked(g, q, ef, skip, e, b), Halts(g, q, ef, b)
  PROVE  /\ ToSet(b.best) \subseteq Reach(g, skip, e)
         /\ Len(b.best) < ef => ToSet(b.best) = Reach(g, skip, e)
<1>1. Rows(g) = 1 .. Len(g.nodes)
  BY RowsAre
<1>2. b.best \in Seq(Queued(g, skip, 0)) /\ ToSet(b.best) \subseteq Rows(g)
  <2>1. b.best \in Seq(Queued(g, skip, 0))
    BY DEF Walked, BeamSound
  <2>2. Queued(g, skip, 0) \subseteq Rows(g)
    BY <1>1 DEF Queued, OnLayer
  <2> QED  BY <2>1, <2>2, InSet
<1>3. ToSet(b.best) \subseteq Reach(g, skip, e)
  <2>1. \A S \in SUBSET Rows(g) : Spans(g, skip, e, S) => ToSet(b.best) \subseteq S
    BY <1>1 DEF Walked, Confined
  <2> QED  BY <1>2, <2>1 DEF Reach
<1>4. ASSUME Len(b.best) < ef
      PROVE  Reach(g, skip, e) \subseteq ToSet(b.best)
  <2>1. b.todo = <<>> /\ b.cands = <<>>
    <3>1. Len(b.best) \in Nat
      BY <1>2
    <3>2. ~(Len(b.best) >= ef)
      BY <1>4, <3>1
    <3> QED  BY <3>2 DEF Halts, Stopped
  <2>2. \A x : x \notin ToSet(b.todo) /\ x \notin ToSet(b.cands)
    <3>1. \A x : x \notin ToSet(<<>>)
      BY DEF ToSet
    <3> QED  BY <2>1, <3>1
  <2>3. ({e} \cup b.visited) \ skip \subseteq ToSet(b.best)
    BY <1>4 DEF Walked, Collected, Met
  <2>4. ASSUME NEW r \in ToSet(b.best)
        PROVE  Near(g, skip, r) \subseteq ToSet(b.best)
    <3>1. Near(g, skip, r) \subseteq b.visited
      BY <2>2 DEF Walked, Pending
    <3>2. \A x \in Near(g, skip, r) : x \notin skip
      BY DEF Near
    <3> QED  BY <2>3, <3>1, <3>2
  <2>5. Spans(g, skip, e, ToSet(b.best))
    BY <2>3, <2>4 DEF Spans
  <2> QED  BY <1>2, <2>5 DEF Reach
<1> QED  BY <1>3, <1>4

LEMMA WalkIsNearest ==
  ASSUME NEW g, Sound(g), NEW q \in Points, NEW ef \in Nat \ {0}, NEW skip,
         NEW e \in OnLayer(g, 0), NEW b, Walked(g, q, ef, skip, e, b), Halts(g, q, ef, b)
  PROVE  /\ b.best = <<>> <=> e \in skip
         /\ b.best # <<>> =>
              \A n \in Near(g, skip, b.best[1]) : Dist(g, q, b.best[1]) <= Dist(g, q, n)
<1>1. \A r \in ({e} \cup b.visited) \ skip :
        b.best # <<>> /\ Dist(g, q, b.best[1]) <= Dist(g, q, r)
  BY DEF Walked, Closest, Met
<1>2. /\ b.best \in Seq(Queued(g, skip, 0)) /\ Sorted(g, q, b.best)
      /\ b.cands \in Seq(Queued(g, skip, 0)) /\ Sorted(g, q, b.cands)
  BY DEF Walked, BeamSound
<1>3. ASSUME e \in skip
      PROVE  b.best = <<>>
  <2>1. Spans(g, skip, e, {})
    BY <1>3 DEF Spans
  <2>2. {} \in SUBSET (1 .. Len(g.nodes))
    OBVIOUS
  <2>3. ToSet(b.best) \subseteq {}
    BY <2>1, <2>2 DEF Walked, Confined
  <2>4. b.best # <<>> => b.best[1] \in ToSet(b.best)
    BY <1>2, SortedEnds
  <2> QED  BY <2>3, <2>4
<1>4. ASSUME b.best # <<>>
      PROVE  \A n \in Near(g, skip, b.best[1]) : Dist(g, q, b.best[1]) <= Dist(g, q, n)
  <2> DEFINE first == b.best[1]
  <2>1. /\ first \in ToSet(b.best) /\ Last(b.best) \in ToSet(b.best)
        /\ \A x \in ToSet(b.best) : Dist(g, q, first) <= Dist(g, q, x)
    BY <1>2, <1>4, SortedEnds
  <2> HIDE DEF first
  <2>2. b.todo = <<>>
    BY DEF Halts
  <2>3. first \notin ToSet(b.cands)
    <3> SUFFICES ASSUME first \in ToSet(b.cands)
                 PROVE  FALSE
      OBVIOUS
    <3>1. b.cands # <<>>
      <4>1. \A x : x \notin ToSet(<<>>)
        BY DEF ToSet
      <4> QED  BY <4>1
    <3>2. Dist(g, q, Head(b.cands)) > Dist(g, q, Last(b.best))
      BY <3>1 DEF Halts, Stopped
    <3>3. /\ Head(b.cands) \in ToSet(b.cands)
          /\ Dist(g, q, Head(b.cands)) <= Dist(g, q, first)
      BY <1>2, <3>1, SortedEnds
    <3>4. Dist(g, q, first) <= Dist(g, q, Last(b.best))
      BY <2>1
    <3>5. /\ Dist(g, q, Head(b.cands)) \in Int /\ Dist(g, q, first) \in Int
          /\ Dist(g, q, Last(b.best)) \in Int
      <4>1. Queued(g, skip, 0) \subseteq 1 .. Len(g.nodes)
        BY DEF Queued, OnLayer
      <4>2. ToSet(b.cands) \subseteq 1 .. Len(g.nodes) /\ ToSet(b.best) \subseteq 1 .. Len(g.nodes)
        BY <1>2, <4>1, InSet
      <4>3. \A r \in 1 .. Len(g.nodes) : Dist(g, q, r) \in Int
        BY DistIs, SoundIsPositioned
      <4> QED  BY <2>1, <3>3, <4>2, <4>3
    <3> QED  BY <3>2, <3>3, <3>4, <3>5
  <2>4. \A x : x \notin ToSet(b.todo)
    BY <2>2 DEF ToSet
  <2>5. Near(g, skip, first) \subseteq b.visited
    BY <2>1, <2>3, <2>4 DEF Walked, Pending
  <2>6. \A n \in Near(g, skip, first) : n \notin skip
    BY DEF Near
  <2> QED  BY <1>1, <2>5, <2>6 DEF first
<1>5. e \notin skip => b.best # <<>>
  BY <1>1
<1> QED  BY <1>3, <1>4, <1>5

\* HnswIndex::search for as many rows as the beam is wide.
LEMMA SearchFinds ==
  ASSUME NEW g, Sound(g), g.entry # 0, NEW q \in Points, NEW ef \in Nat \ {0}, NEW skip
  PROVE  /\ Descend(g, q, 1) \in OnLayer(g, 0)
         /\ \E b : /\ Search(g, q, ef, ef, skip) = b.best
                   /\ Walked(g, q, ef, skip, Descend(g, q, 1), b) /\ Halts(g, q, ef, b)
<1> DEFINE e == Descend(g, q, 1)
           hits == SearchLayer(g, q, ef, <<e>>, skip, 0)
<1>1. e \in OnLayer(g, 0)
  <2>1. e \in OnLayer(g, Lower(1, g.top))
    BY DescendStays
  <2>2. g.top \in Nat
    BY EntryIs
  <2>3. Lower(1, g.top) \in Nat /\ 0 <= Lower(1, g.top)
    BY <2>2 DEF Lower
  <2> DEFINE m == Lower(1, g.top)
  <2> HIDE DEF e, m
  <2>4. m \in Nat /\ 0 <= m /\ e \in OnLayer(g, m)
    BY <2>1, <2>3 DEF m
  <2>5. OnLayer(g, m) \subseteq OnLayer(g, 0)
    BY <2>4, LowerLayer
  <2> QED  BY <2>4, <2>5
<1> HIDE DEF e
<1>2. PICK b : /\ b.best = hits
               /\ Walked(g, q, ef, skip, e, b) /\ Halts(g, q, ef, b)
  BY <1>1, WalkEnds
<1>3. hits \in Seq(Queued(g, skip, 0)) /\ Len(hits) \in Nat /\ Len(hits) <= ef
  <2>1. b.best \in Seq(Queued(g, skip, 0)) /\ Len(b.best) <= ef
    BY <1>2 DEF Walked, BeamSound, Collected
  <2> HIDE DEF hits
  <2> QED  BY <1>2, <2>1
<1>4. Search(g, q, ef, ef, skip) = SubSeq(hits, 1, Lower(ef, Len(hits)))
  <2>1. ~(ef < ef) /\ ef # 0
    OBVIOUS
  <2> QED  BY <2>1 DEF Search, e
<1> HIDE DEF hits
<1>5. Lower(ef, Len(hits)) = Len(hits)
  BY <1>3 DEF Lower
<1>6. SubSeq(hits, 1, Len(hits)) = hits
  BY <1>3
<1> QED  BY <1>1, <1>2, <1>4, <1>5, <1>6 DEF e

LEMMA NotEmpty ==
  ASSUME NEW g, Sound(g), g.nodes # <<>>
  PROVE  g.entry # 0
<1> SUFFICES ASSUME g.entry = 0
             PROVE  FALSE
  OBVIOUS
<1>1. g.nodes = [r \in 1 .. Len(g.nodes) |-> g.nodes[r]] /\ Len(g.nodes) = 0
  BY DEF Sound, EntrySound
<1>2. g.nodes = [r \in 1 .. 0 |-> g.nodes[r]]
  BY <1>1
<1> QED  BY <1>2

\* A query names only live rows that layer-0 links reach through live rows,
\* nearest first, and all of them unless the beam was full.
THEOREM IndexSearchIsReachability == Spec => []SearchIsReachability
<1>1. ASSUME IInv
      PROVE  SearchIsReachability
  <2> SUFFICES ASSUME graph.nodes # <<>>, NEW q \in Points, NEW ef \in 1 .. Wide
               PROVE  LET hits == Search(graph, q, ef, ef, deleted)
                      IN  /\ ToSet(hits) \subseteq Reachable(q, deleted)
                          /\ Len(hits) < ef => ToSet(hits) = Reachable(q, deleted)
                          /\ \A i, j \in DOMAIN hits :
                               i < j => Dist(graph, q, hits[i]) <= Dist(graph, q, hits[j])
    BY DEF SearchIsReachability
  <2> DEFINE e == Descend(graph, q, 1)
             hits == Search(graph, q, ef, ef, deleted)
  <2>1. Sound(graph) /\ graph.entry # 0 /\ q \in Points /\ ef \in Nat \ {0}
    <3>1. Sound(graph)
      BY <1>1 DEF IInv
    <3> QED  BY <3>1, NotEmpty
  <2>2. e \in OnLayer(graph, 0)
    BY <2>1, SearchFinds
  <2>3. PICK b : /\ hits = b.best
                 /\ Walked(graph, q, ef, deleted, e, b) /\ Halts(graph, q, ef, b)
    BY <2>1, SearchFinds
  <2>4. Reachable(q, deleted) = Reach(graph, deleted, e)
    BY DEF Reachable, Reach, Spans, Near
  <2> HIDE DEF e, hits
  <2>5. /\ ToSet(b.best) \subseteq Reach(graph, deleted, e)
        /\ Len(b.best) < ef => ToSet(b.best) = Reach(graph, deleted, e)
    BY <2>1, <2>2, <2>3, WalkReaches
  <2>6. \A i, j \in DOMAIN hits :
          i < j => Dist(graph, q, hits[i]) <= Dist(graph, q, hits[j])
    <3>1. hits \in Seq(Queued(graph, deleted, 0)) /\ Sorted(graph, q, hits)
      BY <2>3 DEF Walked, BeamSound
    <3>2. DOMAIN hits = 1 .. Len(hits)
      BY <3>1
    <3>3. \A i, j \in 1 .. Len(hits) : i < j => i <= j
      OBVIOUS
    <3> QED  BY <3>1, <3>2, <3>3 DEF Sorted
  <2>7. /\ ToSet(hits) \subseteq Reachable(q, deleted)
        /\ Len(hits) < ef => ToSet(hits) = Reachable(q, deleted)
    BY <2>3, <2>4, <2>5
  <2> QED  BY <2>6, <2>7 DEF hits
<1> QED  BY <1>1, IndexInvariant, PTL

\* The first row a query names has no nearer live neighbour, and there is one
\* unless the greedy descent ended on a deleted row.
THEOREM IndexNoNearerNeighbour == Spec => []NoNearerNeighbour
<1>1. ASSUME IInv
      PROVE  NoNearerNeighbour
  <2> SUFFICES ASSUME graph.nodes # <<>>, NEW q \in Points, NEW ef \in 1 .. Wide
               PROVE  LET hits == Search(graph, q, ef, ef, deleted)
                      IN  /\ hits = <<>> <=> Descend(graph, q, 1) \in deleted
                          /\ hits # <<>> =>
                               \A n \in ToSet(Links(graph, hits[1], 0)) \ deleted :
                                 Dist(graph, q, hits[1]) <= Dist(graph, q, n)
    BY DEF NoNearerNeighbour
  <2> DEFINE e == Descend(graph, q, 1)
             hits == Search(graph, q, ef, ef, deleted)
  <2>1. Sound(graph) /\ graph.entry # 0 /\ q \in Points /\ ef \in Nat \ {0}
    <3>1. Sound(graph)
      BY <1>1 DEF IInv
    <3> QED  BY <3>1, NotEmpty
  <2>2. e \in OnLayer(graph, 0)
    BY <2>1, SearchFinds
  <2>3. PICK b : /\ hits = b.best
                 /\ Walked(graph, q, ef, deleted, e, b) /\ Halts(graph, q, ef, b)
    BY <2>1, SearchFinds
  <2> HIDE DEF e, hits
  <2>4. /\ hits = <<>> <=> e \in deleted
        /\ hits # <<>> =>
             \A n \in Near(graph, deleted, hits[1]) :
               Dist(graph, q, hits[1]) <= Dist(graph, q, n)
    BY <2>1, <2>2, <2>3, WalkIsNearest
  <2> QED  BY <2>4 DEF e, hits, Near
<1> QED  BY <1>1, IndexInvariant, PTL
=============================================================================
