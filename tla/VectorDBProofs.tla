--------------------------- MODULE VectorDBProofs ---------------------------
(***************************************************************************)
(* A detached VectorDB, for any ids, vectors, paths and batches: rows that *)
(* are read from a mapped file stay in it, a saved file loads and gives    *)
(* back the lookups, and the flat search is exact.                         *)
(*                                                                         *)
(* The first needs nothing but types.  The others need that no id has two  *)
(* rows, which holds as long as no deleted id is inserted again.           *)
(***************************************************************************)
EXTENDS VectorDB, VectorTablesProofs

Rest == Typed /\ TablesConsistent(mem)

FreshOnly == UniqueIds(mem.rows)

-----------------------------------------------------------------------------
LEMMA InitRest == Init => Rest /\ ViewBacked
<1> SUFFICES ASSUME Init
             PROVE  Rest /\ ViewBacked
  OBVIOUS
<1>1. EmptyTables \in Tables /\ EmptyImage \in Images /\ TablesConsistent(EmptyTables)
  BY EmptyType, EmptyConsistent
<1> QED  BY <1>1 DEF Init, Rest, Typed, ViewBacked, Missing

LEMMA BatchIsRows ==
  ASSUME NEW batch \in Batches
  PROVE  batch \in Seq(Row)
<1>1. PICK n \in 1 .. MaxBatch : batch \in [1 .. n -> Row]
  BY DEF Batches
<1> QED  BY <1>1, SizesAssumption

\* Tables, files and the view of them.
LEMMA RestStep == Rest /\ ViewBacked /\ [Next]_vars => Rest' /\ ViewBacked'
<1> SUFFICES ASSUME Rest, ViewBacked, [Next]_vars
             PROVE  Rest' /\ ViewBacked'
  OBVIOUS
<1>t. Typed /\ TablesConsistent(mem) /\ SaveImage(mem) \in Images
  BY SaveImageType DEF Rest, Typed
<1>1. ASSUME NEW id \in Ids, NEW vec \in Vecs, Insert(id, vec)
      PROVE  Rest' /\ ViewBacked'
  <2>1. mem' \in Tables /\ TablesConsistent(mem')
    BY <1>1, <1>t, AddRowType, AddRowConsistent DEF Insert, Typed
  <2> QED  BY <2>1, <1>1, <1>t DEF Insert, Rest, Typed, ViewBacked
<1>2. ASSUME NEW batch \in Batches, InsertBulk(batch)
      PROVE  Rest' /\ ViewBacked'
  <2>1. mem' \in Tables /\ TablesConsistent(mem')
    BY <1>2, <1>t, BatchIsRows, AddBatchType, AddBatchConsistent
       DEF InsertBulk, Typed
  <2> QED  BY <2>1, <1>2, <1>t DEF InsertBulk, Rest, Typed, ViewBacked
<1>3. ASSUME NEW id \in Ids, Delete(id)
      PROVE  Rest' /\ ViewBacked'
  <2>1. mem' \in Tables /\ TablesConsistent(mem')
    BY <1>3, <1>t, RemoveRowType, RemoveRowConsistent DEF Delete, Typed
  <2>2. mem'.rows = mem.rows
    BY <1>3, <1>t DEF Delete, RemoveRow, Typed, Tables
  <2> QED  BY <2>1, <2>2, <1>3, <1>t DEF Delete, Rest, Typed, ViewBacked
<1>4. ASSUME NEW p \in Paths, Save(p)
      PROVE  Rest' /\ ViewBacked'
  <2>1. UNCHANGED <<mem, view>>
    BY <1>4 DEF Save
  <2>2. Typed'
    <3> DEFINE Contents == [kind : {"missing", "broken", "image"}, image : Images]
    <3>1. Broken \in Contents /\ Saved(mem) \in Contents
      BY <1>t, EmptyType DEF Broken, Saved
    <3> HIDE DEF Contents
    <3>2. files' \in [Paths -> Contents]
      BY <3>1, <1>4, <1>t DEF Save, Typed, Contents
    <3> QED  BY <3>2, <2>1, <1>4, <1>t DEF Save, Typed, Contents
  <2>3. TablesConsistent(mem')
    BY <2>1, <1>t
  <2>4. ASSUME view # NoPath, ~faulted'
        PROVE  files'[view].kind = "image" /\ files'[view].image.rows = mem.rows
    <3>1. view \in Paths /\ ~faulted
      BY <2>4, <1>4, <1>t DEF Save, Typed
    <3>2. files' = [files EXCEPT ![p] = Saved(mem)]
      BY <2>4, <1>4 DEF Save
    <3>3. CASE view = p
      BY <3>1, <3>2, <3>3, <1>t DEF Typed, Saved, SaveImage
    <3>4. CASE view # p
      BY <2>4, <3>1, <3>2, <3>4, <1>t DEF Typed, ViewBacked
    <3> QED  BY <3>3, <3>4
  <2> QED  BY <2>1, <2>2, <2>3, <2>4 DEF Rest, ViewBacked
<1>5. ASSUME NEW p \in Paths, Load(p)
      PROVE  Rest' /\ ViewBacked'
  <2>1. files[p].image \in Images /\ files[p].kind = "image"
    BY <1>5, <1>t DEF Load, Typed
  <2>2. mem' \in Tables /\ TablesConsistent(mem')
    BY <1>5, <2>1, RestoreType, RestoreConsistent DEF Load
  <2>3. mem'.rows = files[p].image.rows
    BY <1>5 DEF Load, Restore
  <2> QED  BY <2>1, <2>2, <2>3, <1>5, <1>t DEF Load, Rest, Typed, ViewBacked
<1>6. CASE UNCHANGED vars
  BY <1>6 DEF vars, Rest, Typed, ViewBacked
<1> QED  BY <1>1, <1>2, <1>3, <1>4, <1>5, <1>6 DEF Next

LEMMA RestHolds == Spec => [](Rest /\ ViewBacked)
<1> QED  BY InitRest, RestStep, PTL DEF Spec

\* Every table and file keeps its type, and no lookup reads beyond the rows.
THEOREM TypesHold == Spec => []TypeOK
<1>1. Rest => TypeOK
  <2> SUFFICES ASSUME Rest, NEW id \in Ids
               PROVE  mem.rowOf[id] \in 0 .. Len(mem.rows)
    BY DEF Rest, TypeOK
  <2>1. mem.rows \in Seq(Row) /\ mem.rowOf[id] \in Nat
    BY DEF Rest, Typed, Tables
  <2>2. DOMAIN mem.rows = 1 .. Len(mem.rows) /\ Len(mem.rows) \in Nat
    BY <2>1, LenProperties
  <2>3. mem.rowOf[id] = 0 \/ mem.rowOf[id] \in DOMAIN mem.rows
    BY DEF Rest, TablesConsistent, IsLive
  <2> QED  BY <2>1, <2>2, <2>3
<1> QED  BY <1>1, RestHolds, PTL

\* What a view reads is in the file, whichever ids come back.
THEOREM ViewIsBacked == Spec => []ViewBacked
<1> QED  BY RestHolds, PTL

-----------------------------------------------------------------------------
(* One row for each id.                                                    *)

LEMMA FreeIsFresh ==
  ASSUME "reinsert" \notin Ops, Rest, NEW id \in Ids, Free(id)
  PROVE  id \notin RowIds(mem.rows)
BY DEF Free, Rest, TablesConsistent

LEMMA FreshStep ==
  ASSUME "reinsert" \notin Ops
  PROVE  Rest /\ FreshOnly /\ [Next]_vars => FreshOnly'
<1> SUFFICES ASSUME Rest, FreshOnly, [Next]_vars
             PROVE  FreshOnly'
  OBVIOUS
<1>t. mem.rows \in Seq(Row) /\ UniqueIds(mem.rows) /\ Typed
  BY DEF Rest, Typed, Tables, FreshOnly
<1>1. ASSUME NEW id \in Ids, NEW vec \in Vecs, Insert(id, vec)
      PROVE  FreshOnly'
  <2>1. id \notin RowIds(mem.rows)
    BY <1>1, FreeIsFresh DEF Insert
  <2>2. mem'.rows = Append(mem.rows, [id |-> id, vec |-> vec])
    BY <1>1 DEF Insert, AddRow
  <2>3. [id |-> id, vec |-> vec] \in Row
    BY DEF Row
  <2> QED  BY <2>1, <2>2, <2>3, <1>t DEF FreshOnly, UniqueIds, RowIds
<1>2. ASSUME NEW batch \in Batches, InsertBulk(batch)
      PROVE  FreshOnly'
  <2> DEFINE rows == mem.rows \o batch
  <2>1. batch \in Seq(Row) /\ UniqueIds(batch)
    BY <1>2, BatchIsRows DEF InsertBulk
  <2>2. \A id \in RowIds(batch) : id \notin RowIds(mem.rows)
    <3>1. RowIds(batch) \subseteq Ids
      BY <2>1, RowIdsType
    <3> QED  BY <3>1, <1>2, FreeIsFresh DEF InsertBulk
  <2>3. mem'.rows = rows
    BY <1>2 DEF InsertBulk, AddBatch
  <2>4. /\ DOMAIN rows = 1 .. Len(mem.rows) + Len(batch)
        /\ \A i \in 1 .. Len(mem.rows) + Len(batch) :
             rows[i] = IF i <= Len(mem.rows) THEN mem.rows[i]
                       ELSE batch[i - Len(mem.rows)]
    BY <2>1, <1>t, ConcatProperties
  <2> HIDE DEF rows
  <2>5. ASSUME NEW i \in DOMAIN rows, NEW j \in DOMAIN rows,
               rows[i].id = rows[j].id
        PROVE  i = j
    <3>1. CASE i <= Len(mem.rows) /\ j <= Len(mem.rows)
      BY <3>1, <2>4, <2>5, <1>t DEF UniqueIds
    <3>2. CASE i > Len(mem.rows) /\ j > Len(mem.rows)
      <4>1. i - Len(mem.rows) \in DOMAIN batch /\ j - Len(mem.rows) \in DOMAIN batch
        BY <3>2, <2>1, <2>4, <1>t
      <4>2. i - Len(mem.rows) = j - Len(mem.rows)
        BY <4>1, <3>2, <2>1, <2>4, <2>5 DEF UniqueIds
      <4> QED  BY <4>2, <2>4, <1>t
    <3>3. ASSUME NEW m \in DOMAIN rows, NEW n \in DOMAIN rows,
                 m <= Len(mem.rows), n > Len(mem.rows)
          PROVE  rows[m].id # rows[n].id
      <4>1. rows[m].id \in RowIds(mem.rows)
        BY <3>3, <2>4, <1>t DEF RowIds
      <4>2. n - Len(mem.rows) \in DOMAIN batch
        BY <3>3, <2>1, <2>4, <1>t
      <4>3. rows[n].id \in RowIds(batch)
        BY <4>2, <3>3, <2>4 DEF RowIds
      <4> QED  BY <4>1, <4>3, <2>2
    <3> QED  BY <3>1, <3>2, <3>3, <2>4, <2>5, <1>t
  <2> QED  BY <2>3, <2>5 DEF FreshOnly, UniqueIds
<1>3. ASSUME NEW id \in Ids, Delete(id)
      PROVE  FreshOnly'
  BY <1>3, <1>t DEF Delete, RemoveRow, Typed, Tables, FreshOnly
<1>4. ASSUME NEW p \in Paths, Save(p)
      PROVE  FreshOnly'
  BY <1>4, <1>t DEF Save, FreshOnly
<1>5. ASSUME NEW p \in Paths, Load(p)
      PROVE  FreshOnly'
  BY <1>5 DEF Load, Restore, RestoreOK, FreshOnly
<1>6. CASE UNCHANGED vars
  BY <1>6, <1>t DEF vars, FreshOnly
<1> QED  BY <1>1, <1>2, <1>3, <1>4, <1>5, <1>6 DEF Next

LEMMA FreshHolds ==
  ASSUME "reinsert" \notin Ops
  PROVE  Spec => [](Rest /\ FreshOnly)
<1>1. Init => FreshOnly
  BY DEF Init, EmptyTables, FreshOnly, UniqueIds
<1>2. Rest /\ FreshOnly /\ [Next]_vars => FreshOnly'
  BY FreshStep
<1> QED  BY <1>1, <1>2, RestHolds, PTL DEF Spec

\* A file that was saved loads, and gives back what lookups saw.
THEOREM SavedLoads ==
  ASSUME "reinsert" \notin Ops
  PROVE  Spec => SavedIsLoadable
<1> DEFINE Loads ==
      \A p \in Paths \ {view} : files'[p] # files[p] =>
        /\ files'[p].kind = "image"
        /\ RestoreOK(files'[p].image)
        /\ Lookup(Restore(files'[p].image)) = Lookup(mem)
        /\ Restore(files'[p].image).deleted = mem.deleted
<1>1. Rest /\ FreshOnly /\ [Next]_vars => [Loads]_vars
  <2> SUFFICES ASSUME Rest, FreshOnly, Next, NEW p \in Paths \ {view},
                      files'[p] # files[p]
               PROVE  /\ files'[p].kind = "image"
                      /\ RestoreOK(files'[p].image)
                      /\ Lookup(Restore(files'[p].image)) = Lookup(mem)
                      /\ Restore(files'[p].image).deleted = mem.deleted
    OBVIOUS
  <2>1. PICK q \in Paths : Save(q)
    BY DEF Next, Insert, InsertBulk, Delete, Load
  <2>2. files'[p] = Saved(mem)
    BY <2>1 DEF Save, Rest, Typed
  <2>3. files'[p].kind = "image" /\ files'[p].image = SaveImage(mem)
    BY <2>2 DEF Saved
  <2>4. RestoreOK(SaveImage(mem)) /\ Restore(SaveImage(mem)).deleted = mem.deleted
    BY DEF FreshOnly, RestoreOK, SaveImage, Restore
  <2>5. Lookup(Restore(SaveImage(mem))) = Lookup(mem)
    BY LookupRestore DEF Rest, Typed, FreshOnly
  <2> QED  BY <2>3, <2>4, <2>5
<1>2. Spec => [](Rest /\ FreshOnly)
  BY FreshHolds
<1> QED  BY <1>1, <1>2, PTL DEF SavedIsLoadable, Spec
-----------------------------------------------------------------------------
(* One row more.                                                           *)

Far(q, row) == Distance(q, row.vec)

NearestFirst(q, best) ==
  \A i, j \in DOMAIN best : i < j => Far(q, best[i]) <= Far(q, best[j])

LEMMA FarType ==
  ASSUME NEW q \in Vecs, NEW row \in Row
  PROVE  Far(q, row) \in Int
<1>1. q \in Int /\ row.vec \in Int
  BY VectorsAreNumbers DEF Row
<1> QED  BY <1>1 DEF Far, Distance

LEMMA PlaceExists ==
  ASSUME NEW q \in Vecs, NEW best \in Seq(Row), NearestFirst(q, best), NEW row \in Row
  PROVE  /\ Place(q, best, row) \in 1 .. Len(best) + 1
         /\ \A i \in 1 .. Place(q, best, row) - 1 : Far(q, best[i]) <= Far(q, row)
         /\ \A i \in Place(q, best, row) .. Len(best) : Far(q, best[i]) > Far(q, row)
<1> DEFINE Behind == {p \in 1 .. Len(best) + 1 :
                        p = Len(best) + 1 \/ Far(q, best[p]) > Far(q, row)}
<1>1. Behind \in SUBSET Nat /\ Behind # {}
  <2>1. Len(best) + 1 \in Behind
    OBVIOUS
  <2> QED  BY <2>1
<1>2. PICK p \in Behind : \A n \in Behind : p <= n
  BY <1>1, LeastNumber
<1>3. p \in 1 .. Len(best) + 1
  OBVIOUS
<1>4. ASSUME NEW i \in 1 .. p - 1
      PROVE  Far(q, best[i]) <= Far(q, row)
  <2>1. i \in 1 .. Len(best) /\ i \notin Behind
    BY <1>2, <1>3
  <2>2. best[i] \in Row
    BY <2>1
  <2> QED  BY <2>1, <2>2, FarType
<1>5. ASSUME NEW i \in p .. Len(best)
      PROVE  Far(q, best[i]) > Far(q, row)
  <2>1. p \in 1 .. Len(best) /\ i \in 1 .. Len(best)
    BY <1>3
  <2>2. Far(q, best[p]) > Far(q, row)
    BY <1>2, <2>1
  <2>3. p = i \/ Far(q, best[p]) <= Far(q, best[i])
    BY <2>1 DEF NearestFirst
  <2>4. Far(q, best[p]) \in Int /\ Far(q, best[i]) \in Int /\ Far(q, row) \in Int
    BY <2>1, FarType
  <2> QED  BY <2>2, <2>3, <2>4
<1> QED  BY <1>3, <1>4, <1>5 DEF Place, Far

\* The heap with a row in its place, entry by entry.
LEMMA KeepEntries ==
  ASSUME NEW q \in Vecs, NEW k \in Nat \ {0}, NEW best \in Seq(Row), Len(best) <= k,
         NearestFirst(q, best), NEW row \in Row
  PROVE  /\ Keep(q, k, best, row) \in Seq(Row)
         /\ Len(Keep(q, k, best, row)) = IF Len(best) = k THEN k ELSE Len(best) + 1
         /\ \A j \in 1 .. Len(Keep(q, k, best, row)) :
              Keep(q, k, best, row)[j] =
                IF j < Place(q, best, row) THEN best[j]
                ELSE IF j = Place(q, best, row) THEN row ELSE best[j - 1]
<1> DEFINE p == Place(q, best, row)
           grown == InsertAt(best, p, row)
           n == IF Len(grown) > k THEN k ELSE Len(grown)
<1>1. p \in 1 .. Len(best) + 1
  BY PlaceExists
<1> HIDE DEF p
<1>2. /\ grown \in Seq(Row) /\ Len(grown) = Len(best) + 1
      /\ \A j \in 1 .. Len(best) + 1 :
           grown[j] = IF j < p THEN best[j] ELSE IF j = p THEN row ELSE best[j - 1]
  <2> DEFINE left == SubSeq(best, 1, p - 1)
             mid == <<row>>
             right == SubSeq(best, p, Len(best))
  <2>1. /\ left \in Seq(Row) /\ Len(left) = p - 1
        /\ \A j \in 1 .. p - 1 : left[j] = best[j]
    BY <1>1
  <2>2. /\ right \in Seq(Row) /\ Len(right) = Len(best) - p + 1
        /\ \A j \in 1 .. Len(best) - p + 1 : right[j] = best[p + j - 1]
    BY <1>1
  <2>3. mid \in Seq(Row) /\ Len(mid) = 1 /\ mid[1] = row
    OBVIOUS
  <2>4. grown = (left \o mid) \o right
    BY DEF InsertAt
  <2> HIDE DEF left, mid, right
  <2>5. /\ left \o mid \in Seq(Row) /\ Len(left \o mid) = p
        /\ \A j \in 1 .. p : (left \o mid)[j] = IF j < p THEN best[j] ELSE row
    <3>1. /\ left \o mid \in Seq(Row) /\ Len(left \o mid) = Len(left) + Len(mid)
          /\ \A j \in 1 .. Len(left) + Len(mid) :
               (left \o mid)[j] = IF j <= Len(left) THEN left[j]
                                  ELSE mid[j - Len(left)]
      BY <2>1, <2>3, ConcatProperties
    <3> QED  BY <3>1, <1>1, <2>1, <2>3
  <2> DEFINE front == left \o mid
  <2>6. /\ front \o right \in Seq(Row)
        /\ Len(front \o right) = Len(front) + Len(right)
        /\ \A j \in 1 .. Len(front) + Len(right) :
             (front \o right)[j] = IF j <= Len(front) THEN front[j]
                                   ELSE right[j - Len(front)]
    BY <2>2, <2>5, ConcatProperties
  <2> HIDE DEF front
  <2>7. /\ Len(front) = p
        /\ \A j \in 1 .. p : front[j] = IF j < p THEN best[j] ELSE row
    BY <2>5 DEF front
  <2>8. grown = front \o right
    BY <2>4 DEF front
  <2> HIDE DEF grown
  <2>9. ASSUME NEW j \in 1 .. Len(best) + 1, j > p
        PROVE  grown[j] = best[j - 1]
    <3>1. j - p \in 1 .. Len(best) - p + 1
      BY <1>1, <2>9
    <3> QED  BY <3>1, <1>1, <2>2, <2>6, <2>7, <2>8, <2>9
  <2>10. Len(front) + Len(right) = Len(best) + 1
    BY <1>1, <2>2, <2>7
  <2>11. \A j \in 1 .. Len(best) + 1 :
           grown[j] = IF j < p THEN best[j] ELSE IF j = p THEN row ELSE best[j - 1]
    <3>1. ASSUME NEW j \in 1 .. Len(best) + 1, j <= p
          PROVE  grown[j] = IF j < p THEN best[j] ELSE row
      <4>1. j \in 1 .. p
        BY <3>1, <1>1
      <4> QED  BY <4>1, <1>1, <2>6, <2>7, <2>8, <2>10
    <3> QED  BY <3>1, <2>9, <1>1
  <2> QED  BY <2>6, <2>8, <2>10, <2>11
<1> HIDE DEF grown
<1>3. n \in 1 .. Len(grown) /\ n = IF Len(best) = k THEN k ELSE Len(best) + 1
  BY <1>2
<1>4. Keep(q, k, best, row) = SubSeq(grown, 1, n)
  BY DEF Keep, grown, p
<1> HIDE DEF n
<1>5. /\ SubSeq(grown, 1, n) \in Seq(Row) /\ Len(SubSeq(grown, 1, n)) = n
      /\ \A j \in 1 .. n : SubSeq(grown, 1, n)[j] = grown[j]
  BY <1>2, <1>3
<1>6. n <= Len(best) + 1
  BY <1>2, <1>3
<1> QED  BY <1>2, <1>3, <1>4, <1>5, <1>6 DEF p

-----------------------------------------------------------------------------
(* The scan.                                                               *)

\* The heap after n rows: live rows in order, and nothing nearer left out.
Found(rows, dead, q, k, n, best) ==
  /\ best \in Seq(Row) /\ Len(best) <= k
  /\ NearestFirst(q, best)
  /\ UniqueIds(best)
  /\ \A j \in DOMAIN best : \E m \in 1 .. n :
       best[j] = rows[m] /\ rows[m].id \notin dead
  /\ \A m \in 1 .. n :
       \/ rows[m].id \in dead
       \/ rows[m].id \in RowIds(best)
       \/ /\ Len(best) = k
          /\ \A j \in DOMAIN best : Far(q, best[j]) <= Far(q, rows[m])

LEMMA KeepRow ==
  ASSUME NEW rows \in Seq(Row), UniqueIds(rows), NEW dead,
         NEW q \in Vecs, NEW k \in Nat \ {0}, NEW n \in 1 .. Len(rows),
         NEW row \in Row, row = rows[n], row.id \notin dead,
         NEW best \in Seq(Row), Found(rows, dead, q, k, n - 1, best),
         Len(best) = k => Far(q, row) < Far(q, best[k])
  PROVE  Found(rows, dead, q, k, n, Keep(q, k, best, row))
<1> DEFINE p == Place(q, best, row)
           kept == Keep(q, k, best, row)
<1>1. /\ Len(best) \in Nat /\ Len(best) <= k
      /\ k \in Nat /\ k >= 1 /\ n \in Nat /\ n >= 1
      /\ n \in DOMAIN rows
  BY DEF Found
<1>0. NearestFirst(q, best)
  BY DEF Found
<1>2. /\ p \in 1 .. Len(best) + 1
      /\ \A i \in 1 .. p - 1 : Far(q, best[i]) <= Far(q, row)
      /\ \A i \in p .. Len(best) : Far(q, best[i]) > Far(q, row)
  BY <1>0, <1>1, PlaceExists
<1>3. /\ kept \in Seq(Row)
      /\ Len(kept) = IF Len(best) = k THEN k ELSE Len(best) + 1
      /\ \A j \in 1 .. Len(kept) :
           kept[j] = IF j < p THEN best[j] ELSE IF j = p THEN row ELSE best[j - 1]
  <2>1. Len(best) <= k
    BY <1>1
  <2> QED  BY <2>1, <1>0, KeepEntries
<1>4. /\ \A j \in 1 .. Len(best) : best[j] \in Row /\ Far(q, best[j]) \in Int
      /\ Far(q, row) \in Int
  <2>1. \A j \in 1 .. Len(best) : best[j] \in Row
    BY <1>1
  <2> QED  BY <2>1, <1>1, FarType
<1> HIDE DEF p, kept
<1>5. p \in 1 .. Len(kept)
  <2>1. CASE Len(best) = k
    <3>1. Far(q, best[k]) > Far(q, row) /\ k \in 1 .. Len(best)
      BY <2>1, <1>1, <1>4
    <3>2. ~(k \in 1 .. p - 1)
      BY <3>1, <1>2, <1>4
    <3> QED  BY <3>2, <2>1, <1>2, <1>3
  <2>2. CASE Len(best) # k
    BY <2>2, <1>2, <1>3
  <2> QED  BY <2>1, <2>2
<1>6. \A j \in 1 .. Len(kept) :
        /\ j < p => j \in 1 .. Len(best)
        /\ j > p => j - 1 \in 1 .. Len(best) /\ j - 1 \in p .. Len(best)
  BY <1>1, <1>2, <1>3
<1>7. NearestFirst(q, kept)
  <2> SUFFICES ASSUME NEW i \in 1 .. Len(kept), NEW j \in 1 .. Len(kept), i < j
               PROVE  Far(q, kept[i]) <= Far(q, kept[j])
    <3>1. DOMAIN kept = 1 .. Len(kept)
      BY <1>3
    <3> QED  BY <3>1 DEF NearestFirst
  <2>1. CASE j < p
    <3>1. /\ i \in 1 .. Len(best) /\ j \in 1 .. Len(best)
          /\ kept[i] = best[i] /\ kept[j] = best[j]
      BY <2>1, <1>2, <1>3, <1>6
    <3> QED  BY <3>1, <1>0 DEF NearestFirst
  <2>2. CASE j = p
    <3>1. i \in 1 .. p - 1 /\ kept[i] = best[i] /\ kept[j] = row
      BY <2>2, <1>2, <1>3
    <3> QED  BY <3>1, <1>2
  <2>3. CASE j > p /\ i < p
    <3>1. /\ i \in 1 .. Len(best) /\ j - 1 \in 1 .. Len(best) /\ i \in 1 .. p - 1
          /\ j - 1 \in p .. Len(best)
          /\ kept[i] = best[i] /\ kept[j] = best[j - 1]
      BY <2>3, <1>2, <1>3, <1>6
    <3>2. Far(q, best[i]) <= Far(q, row) /\ Far(q, best[j - 1]) > Far(q, row)
      BY <3>1, <1>2
    <3>3. /\ Far(q, best[i]) \in Int /\ Far(q, best[j - 1]) \in Int
          /\ Far(q, row) \in Int
      BY <3>1, <1>4
    <3>4. Far(q, best[i]) <= Far(q, best[j - 1])
      BY <3>2, <3>3
    <3> QED  BY <3>1, <3>4
  <2>4. CASE j > p /\ i = p
    <3>1. /\ kept[i] = row /\ kept[j] = best[j - 1] /\ j - 1 \in p .. Len(best)
          /\ j - 1 \in 1 .. Len(best)
      BY <2>4, <1>2, <1>3, <1>6
    <3>2. Far(q, best[j - 1]) > Far(q, row) /\ Far(q, best[j - 1]) \in Int
      BY <3>1, <1>2, <1>4
    <3>3. Far(q, row) <= Far(q, best[j - 1])
      BY <3>2, <1>4
    <3> QED  BY <3>1, <3>3
  <2>5. CASE j > p /\ i > p
    <3>1. /\ kept[i] = best[i - 1] /\ kept[j] = best[j - 1] /\ i - 1 < j - 1
          /\ i - 1 \in 1 .. Len(best) /\ j - 1 \in 1 .. Len(best)
      BY <2>5, <1>2, <1>3, <1>6
    <3> QED  BY <3>1, <1>0 DEF NearestFirst
  <2> QED  BY <2>1, <2>2, <2>3, <2>4, <2>5, <1>2
<1>8. row.id \notin RowIds(best)
  <2>1. ASSUME NEW j \in 1 .. Len(best), best[j].id = row.id
        PROVE  FALSE
    <3>1. PICK m \in 1 .. n - 1 : best[j] = rows[m]
      BY DEF Found
    <3>2. m \in DOMAIN rows /\ n \in DOMAIN rows /\ m # n
      BY <3>1, <1>1
    <3> QED  BY <3>1, <3>2, <2>1 DEF UniqueIds
  <2> QED  BY <2>1 DEF RowIds
<1>9. UniqueIds(kept)
  <2> SUFFICES ASSUME NEW i \in 1 .. Len(kept), NEW j \in 1 .. Len(kept),
                      kept[i].id = kept[j].id, i < j
               PROVE  FALSE
    <3>1. DOMAIN kept = 1 .. Len(kept)
      BY <1>3
    <3> QED  BY <3>1, <1>3 DEF UniqueIds
  <2>1. UniqueIds(best)
    BY DEF Found
  <2>2. CASE i = p \/ j = p
    <3>1. PICK m \in 1 .. Len(best) : best[m].id = row.id
      <4>1. CASE i = p
        <5>1. kept[i] = row /\ kept[j] = best[j - 1] /\ j - 1 \in 1 .. Len(best)
          BY <4>1, <1>2, <1>3, <1>6
        <5> QED  BY <5>1
      <4>2. CASE j = p
        <5>1. kept[j] = row /\ kept[i] = best[i] /\ i \in 1 .. Len(best)
          BY <4>2, <1>2, <1>3, <1>6
        <5> QED  BY <5>1
      <4> QED  BY <2>2, <4>1, <4>2
    <3> QED  BY <3>1, <1>8 DEF RowIds
  <2>3. CASE i # p /\ j # p
    <3>1. PICK a \in 1 .. Len(best), b \in 1 .. Len(best) :
            a # b /\ kept[i] = best[a] /\ kept[j] = best[b]
      <4>1. CASE j < p
        BY <4>1, <1>3, <1>6, <1>2
      <4>2. CASE j > p /\ i < p
        <5>1. /\ i \in 1 .. Len(best) /\ j - 1 \in 1 .. Len(best)
              /\ i # j - 1
              /\ kept[i] = best[i] /\ kept[j] = best[j - 1]
          BY <4>2, <1>2, <1>3, <1>6
        <5> QED  BY <5>1
      <4>3. CASE j > p /\ i > p
        <5>1. /\ i - 1 \in 1 .. Len(best) /\ j - 1 \in 1 .. Len(best)
              /\ i - 1 # j - 1
              /\ kept[i] = best[i - 1] /\ kept[j] = best[j - 1]
          BY <4>3, <1>2, <1>3, <1>6
        <5> QED  BY <5>1
      <4> QED  BY <4>1, <4>2, <4>3, <2>3, <1>2
    <3> QED  BY <3>1, <2>1 DEF UniqueIds
  <2> QED  BY <2>2, <2>3
<1>10. ASSUME NEW j \in 1 .. Len(kept)
       PROVE  \E m \in 1 .. n : /\ kept[j] = rows[m]
                                /\ rows[m].id \notin dead
  <2>1. CASE j = p
    <3>1. kept[j] = row /\ n \in 1 .. n
      BY <2>1, <1>2, <1>3
    <3> QED  BY <3>1
  <2>2. CASE j # p
    <3>1. PICK i \in 1 .. Len(best) : kept[j] = best[i]
      BY <2>2, <1>2, <1>3, <1>6
    <3>2. PICK m \in 1 .. n - 1 : /\ best[i] = rows[m]
                                  /\ rows[m].id \notin dead
      BY DEF Found
    <3> QED  BY <3>1, <3>2
  <2> QED  BY <2>1, <2>2
\* What is not dropped at the far end is still there.
<1>11. ASSUME NEW i \in 1 .. Len(best), i < k \/ Len(best) # k
       PROVE  \E j \in 1 .. Len(kept) : kept[j] = best[i]
  <2>1. CASE i < p
    <3>1. i \in 1 .. Len(kept) /\ kept[i] = best[i]
      BY <2>1, <1>1, <1>2, <1>3, <1>11
    <3> QED  BY <3>1
  <2>2. CASE i >= p
    <3>1. i + 1 \in 1 .. Len(kept) /\ kept[i + 1] = best[i]
      BY <2>2, <1>1, <1>2, <1>3, <1>11
    <3> QED  BY <3>1
  <2> QED  BY <2>1, <2>2, <1>1, <1>2
\* Nothing kept is farther than what was the far end.
<1>12. ASSUME Len(best) = k, NEW j \in 1 .. Len(kept)
       PROVE  Far(q, kept[j]) <= Far(q, best[k])
  <2>1. k \in 1 .. Len(best) /\ Far(q, best[k]) \in Int
    BY <1>1, <1>4, <1>12
  <2>2. \A i \in 1 .. Len(best) : Far(q, best[i]) <= Far(q, best[k])
    <3>1. \A i \in 1 .. Len(best) : i = k \/ i < k
      BY <1>1, <1>12
    <3> QED  BY <3>1, <2>1, <1>0 DEF NearestFirst
  <2>3. Far(q, row) <= Far(q, best[k])
    BY <2>1, <1>4, <1>12
  <2> QED  BY <2>2, <2>3, <1>2, <1>3, <1>6
<1>13. ASSUME NEW m \in 1 .. n
       PROVE  \/ rows[m].id \in dead
              \/ rows[m].id \in RowIds(kept)
              \/ /\ Len(kept) = k
                 /\ \A j \in 1 .. Len(kept) : Far(q, kept[j]) <= Far(q, rows[m])
  <2>1. CASE m = n
    <3>1. kept[p] = row /\ p \in 1 .. Len(kept)
      BY <1>3, <1>5
    <3> QED  BY <3>1, <2>1 DEF RowIds
  <2>2. CASE m # n
    <3>1. m \in 1 .. n - 1 /\ rows[m] \in Row /\ Far(q, rows[m]) \in Int
      BY <2>2, <1>1, FarType
    <3>2. CASE rows[m].id \in RowIds(best)
      <4>1. PICK i \in 1 .. Len(best) : best[i].id = rows[m].id
        <5>1. DOMAIN best = 1 .. Len(best)
          OBVIOUS
        <5> QED  BY <3>2, <5>1 DEF RowIds
      <4>2. CASE i < k \/ Len(best) # k
        <5>1. PICK j \in 1 .. Len(kept) : kept[j] = best[i]
          BY <4>2, <1>11
        <5>2. rows[m].id \in RowIds(kept)
          BY <5>1, <4>1, <1>3 DEF RowIds
        <5> QED  BY <5>2
      <4>3. CASE i = k /\ Len(best) = k
        <5>1. PICK l \in 1 .. n - 1 : best[i] = rows[l]
          BY DEF Found
        <5>2. l = m
          <6>1. l \in DOMAIN rows /\ m \in DOMAIN rows
            BY <5>1, <3>1, <1>1
          <6> QED  BY <6>1, <5>1, <4>1 DEF UniqueIds
        <5>3. best[k] = rows[m]
          BY <5>1, <5>2, <4>3
        <5> QED  BY <5>3, <4>3, <1>3, <1>12
      <4> QED  BY <4>2, <4>3, <1>1
    <3>3. CASE /\ Len(best) = k
               /\ \A j \in 1 .. Len(best) : Far(q, best[j]) <= Far(q, rows[m])
      <4>1. k \in 1 .. Len(best) /\ Far(q, best[k]) \in Int
        BY <3>3, <1>1, <1>4
      <4>2. \A j \in 1 .. Len(kept) : kept[j] \in Row /\ Far(q, kept[j]) \in Int
        <5>1. \A j \in 1 .. Len(kept) : kept[j] \in Row
          BY <1>3
        <5> QED  BY <5>1, FarType
      <4> QED  BY <4>1, <4>2, <3>1, <3>3, <1>3, <1>12
    <3> QED  BY <3>1, <3>2, <3>3 DEF Found
  <2> QED  BY <2>1, <2>2
<1>14. DOMAIN kept = 1 .. Len(kept) /\ Len(kept) <= k
  BY <1>1, <1>3
<1> QED  BY <1>3, <1>7, <1>9, <1>10, <1>13, <1>14 DEF Found, kept

\* A full heap rejects what is no nearer than its last, and a tombstone hides.
LEMMA ConsiderRow ==
  ASSUME mem.rows \in Seq(Row), UniqueIds(mem.rows),
         NEW q \in Vecs, NEW k \in Nat \ {0}, NEW n \in 1 .. Len(mem.rows),
         NEW best \in Seq(Row), Found(mem.rows, mem.deleted, q, k, n - 1, best)
  PROVE  Found(mem.rows, mem.deleted, q, k, n,
               Consider(q, k, best, mem.rows[n]))
<1> DEFINE row == mem.rows[n]
<1>1. row \in Row
  OBVIOUS
<1>2. \A m \in 1 .. n : m \in 1 .. n - 1 \/ m = n
  OBVIOUS
<1>3. \A m \in 1 .. n - 1 : m \in 1 .. n
  OBVIOUS
<1>4. Len(best) = k => Last(best) = best[k]
  BY DEF Last
<1>5. CASE row.id \in mem.deleted
  <2>1. Consider(q, k, best, row) = best
    BY <1>5 DEF Consider
  <2> HIDE DEF row
  <2>2. row = mem.rows[n]
    BY DEF row
  <2> QED  BY <2>1, <2>2, <1>2, <1>3, <1>5 DEF Found
<1>6. CASE Full(q, k, best, row)
  <2>1. Consider(q, k, best, row) = best
    BY <1>6 DEF Consider
  <2>2. Len(best) = k /\ Far(q, row) >= Far(q, best[k]) /\ k \in 1 .. Len(best)
    BY <1>4, <1>6 DEF Full, Far
  <2>3. ASSUME NEW j \in 1 .. Len(best)
        PROVE  Far(q, best[j]) <= Far(q, row)
    <3>1. best[j] \in Row /\ best[k] \in Row
      BY <2>2
    <3>2. Far(q, best[j]) \in Int /\ Far(q, best[k]) \in Int /\ Far(q, row) \in Int
      BY <3>1, <1>1, FarType
    <3>3. j = k \/ Far(q, best[j]) <= Far(q, best[k])
      <4>1. j = k \/ j < k
        BY <2>2
      <4>2. j \in DOMAIN best /\ k \in DOMAIN best
        BY <2>2
      <4> QED  BY <4>1, <4>2 DEF Found, NearestFirst
    <3> QED  BY <3>2, <3>3, <2>2
  <2>4. DOMAIN best = 1 .. Len(best)
    OBVIOUS
  <2> HIDE DEF row
  <2>5. row = mem.rows[n]
    BY DEF row
  <2> QED  BY <2>1, <2>2, <2>3, <2>4, <2>5, <1>2, <1>3 DEF Found
<1>7. CASE row.id \notin mem.deleted /\ ~Full(q, k, best, row)
  <2>1. Consider(q, k, best, row) = Keep(q, k, best, row)
    BY <1>7 DEF Consider
  <2>2. ASSUME Len(best) = k
        PROVE  Far(q, row) < Far(q, best[k])
    <3>1. ~(Far(q, row) >= Far(q, best[k])) /\ best[k] \in Row
      BY <2>2, <1>4, <1>7 DEF Full, Far
    <3>2. Far(q, best[k]) \in Int /\ Far(q, row) \in Int
      BY <3>1, <1>1, FarType
    <3> QED  BY <3>1, <3>2
  <2>3. Found(mem.rows, mem.deleted, q, k, n, Keep(q, k, best, row))
    BY <2>2, <1>1, <1>7, KeepRow
  <2> QED  BY <2>1, <2>3
<1> QED  BY <1>5, <1>6, <1>7

LEMMA ScanFinds ==
  ASSUME mem.rows \in Seq(Row), UniqueIds(mem.rows),
         NEW q \in Vecs, NEW k \in Nat \ {0}
  PROVE  Found(mem.rows, mem.deleted, q, k, Len(mem.rows),
               ScanRows(q, k)[Len(mem.rows)])
<1> DEFINE last == Len(mem.rows)
           Good(n, best) == Found(mem.rows, mem.deleted, q, k, n, best)
           Next1(n, best) == Consider(q, k, best, mem.rows[n])
           Run(f, n) == /\ f \in [0 .. n -> Seq(Row)]
                        /\ f[0] = <<>>
                        /\ \A i \in 0 .. n : Good(i, f[i])
                        /\ \A i \in 1 .. n : f[i] = Next1(i, f[i - 1])
           Runs == {n \in 0 .. last : \E f : Run(f, n)}
<1>1. last \in Nat
  OBVIOUS
<1>2. Good(0, <<>>) /\ <<>> \in Seq(Row)
  BY DEF Found, NearestFirst, UniqueIds
<1>3. \A n \in 1 .. last : \A best : Good(n - 1, best) =>
        Good(n, Next1(n, best)) /\ Next1(n, best) \in Seq(Row)
  <2> SUFFICES ASSUME NEW n \in 1 .. last, NEW best, Good(n - 1, best)
               PROVE  Good(n, Next1(n, best)) /\ Next1(n, best) \in Seq(Row)
    OBVIOUS
  <2>1. best \in Seq(Row)
    BY DEF Found
  <2>2. Good(n, Next1(n, best))
    BY <2>1, ConsiderRow
  <2> QED  BY <2>2 DEF Found
<1> HIDE DEF last, Good, Next1
<1>4. 0 \in Runs
  <2> DEFINE g == [i \in {0} |-> <<>>]
  <2>1. Run(g, 0)
    <3>1. 0 .. 0 = {0}
      OBVIOUS
    <3> QED  BY <3>1, <1>2
  <2> HIDE DEF Run, g
  <2>2. 0 \in 0 .. last
    BY <1>1
  <2> QED  BY <2>1, <2>2
<1>5. ASSUME NEW n \in 0 .. last - 1, n \in Runs
      PROVE  n + 1 \in Runs
  <2>1. PICK f : Run(f, n)
    BY <1>5
  <2> DEFINE g == [i \in 0 .. n + 1 |-> IF i = n + 1 THEN Next1(n + 1, f[n])
                                        ELSE f[i]]
  <2>2. n + 1 \in 1 .. last /\ n \in Nat /\ n + 1 - 1 = n
    BY <1>1
  <2>3. Good(n + 1, Next1(n + 1, f[n])) /\ Next1(n + 1, f[n]) \in Seq(Row)
    BY <2>1, <2>2, <1>3
  <2>4. \A i \in 0 .. n + 1 : i = n + 1 \/ i \in 0 .. n
    BY <2>2
  <2>5. \A i \in 1 .. n + 1 : (i = n + 1 \/ i \in 1 .. n) /\ i - 1 \in 0 .. n
    BY <2>2
  <2>6. Run(g, n + 1)
    <3>1. g \in [0 .. n + 1 -> Seq(Row)]
      BY <2>1, <2>3, <2>4
    <3>2. g[0] = <<>> /\ \A i \in 0 .. n : g[i] = f[i]
      BY <2>1, <2>2
    <3>3. g[n + 1] = Next1(n + 1, f[n])
      BY <2>2
    <3> HIDE DEF g
    <3>4. \A i \in 0 .. n + 1 : Good(i, g[i])
      BY <3>2, <3>3, <2>1, <2>3, <2>4
    <3>5. \A i \in 1 .. n + 1 : g[i] = Next1(i, g[i - 1])
      <4>1. ASSUME NEW i \in 1 .. n
            PROVE  g[i] = Next1(i, g[i - 1])
        <5>1. i \in 0 .. n /\ i - 1 \in 0 .. n /\ f[i] = Next1(i, f[i - 1])
          BY <2>1, <2>2, <2>5
        <5> QED  BY <5>1, <3>2
      <4>2. g[n + 1] = Next1(n + 1, g[n + 1 - 1])
        <5>1. n \in 0 .. n
          BY <2>2
        <5> QED  BY <5>1, <2>2, <3>2, <3>3
      <4>3. ASSUME NEW i \in 1 .. n + 1
            PROVE  g[i] = Next1(i, g[i - 1])
        <5>1. CASE i \in 1 .. n
          BY <5>1, <4>1
        <5>2. CASE i = n + 1
          BY <5>2, <4>2
        <5> QED  BY <5>1, <5>2, <2>5
      <4> QED  BY <4>3
    <3> QED  BY <3>1, <3>2, <3>4, <3>5, <2>2
  <2> HIDE DEF Run
  <2> QED  BY <2>6, <2>2
<1> HIDE DEF Run
<1>6. last \in Runs
  <2> HIDE DEF Runs
  <2>1. \A n \in 0 .. last : n \in Runs
    BY <1>1, <1>4, <1>5, UpTo
  <2> QED  BY <2>1, <1>1
<1>7. PICK f : Run(f, last)
  BY <1>6
<1> DEFINE Step(g) == [n \in 0 .. last |->
                         IF n = 0 THEN <<>>
                         ELSE Consider(q, k, g[n - 1], mem.rows[n])]
<1>8. f = Step(f)
  <2>1. /\ f \in [0 .. last -> Seq(Row)] /\ f[0] = <<>>
        /\ \A n \in 1 .. last : f[n] = Consider(q, k, f[n - 1], mem.rows[n])
    BY <1>7 DEF Run, Next1
  <2>2. \A n \in 0 .. last : n = 0 \/ n \in 1 .. last
    BY <1>1
  <2>3. \A n \in 0 .. last : f[n] = Step(f)[n]
    BY <2>1, <2>2
  <2>4. f = [n \in 0 .. last |-> f[n]]
    BY <2>1
  <2> HIDE DEF Step
  <2>5. Step(f) = [n \in 0 .. last |-> Step(f)[n]]
    BY DEF Step
  <2> QED  BY <2>3, <2>4, <2>5
<1> DEFINE scan == ScanRows(q, k)
<1>9. scan = Step(scan)
  <2>1. scan = CHOOSE g : g = Step(g)
    BY DEF ScanRows, last
  <2> HIDE DEF scan, Step
  <2> QED  BY <2>1, <1>8
<1>10. scan[0] = <<>> /\ \A n \in 1 .. last : scan[n] = Next1(n, scan[n - 1])
  <2> HIDE DEF scan
  <2>1. \A n \in 0 .. last : scan[n] = Step(scan)[n]
    BY <1>9
  <2>2. \A n \in 1 .. last : n \in 0 .. last /\ n # 0
    BY <1>1
  <2> QED  BY <2>1, <2>2, <1>1 DEF Next1
<1> DEFINE Fine == {n \in 0 .. last : Good(n, scan[n])}
<1> HIDE DEF scan, Step
<1>11. 0 \in Fine
  BY <1>2, <1>10, <1>1
<1>12. \A n \in 0 .. last - 1 : n \in Fine => n + 1 \in Fine
  <2> SUFFICES ASSUME NEW n \in 0 .. last - 1, Good(n, scan[n])
               PROVE  Good(n + 1, scan[n + 1]) /\ n + 1 \in 0 .. last
    OBVIOUS
  <2>1. n + 1 \in 1 .. last /\ n + 1 - 1 = n /\ n + 1 \in 0 .. last
    BY <1>1
  <2> QED  BY <2>1, <1>3, <1>10
<1>13. last \in Fine
  <2> HIDE DEF Fine
  <2>1. \A n \in 0 .. last : n \in Fine
    BY <1>1, <1>11, <1>12, UpTo
  <2> QED  BY <2>1, <1>1
<1> QED  BY <1>13 DEF Good, scan, last

LEMMA FoundIsExact ==
  ASSUME Rest, FreshOnly, NEW q \in Vecs, NEW k \in Nat \ {0}, NEW hits,
         Found(mem.rows, mem.deleted, q, k, Len(mem.rows), hits)
  PROVE  LET Near(id) == Distance(q, Lookup(mem)[id])
         IN  /\ UniqueIds(hits)
             /\ \A i \in DOMAIN hits : hits[i].id \in LiveIds
                                       /\ hits[i].vec = Lookup(mem)[hits[i].id]
             /\ Len(hits) = k \/ RowIds(hits) = LiveIds
             /\ \A i, j \in DOMAIN hits :
                  i < j => Near(hits[i].id) <= Near(hits[j].id)
             /\ \A i \in DOMAIN hits, id \in LiveIds \ RowIds(hits) :
                  Near(hits[i].id) <= Near(id)
<1> DEFINE Near(id) == Distance(q, Lookup(mem)[id])
<1>1. /\ mem.rows \in Seq(Row) /\ UniqueIds(mem.rows) /\ TablesConsistent(mem)
      /\ hits \in Seq(Row) /\ UniqueIds(hits)
  BY DEF Rest, Typed, Tables, FreshOnly, Found
\* The row of a live id is the one that carries it.
<1>2. ASSUME NEW m \in 1 .. Len(mem.rows), mem.rows[m].id \notin mem.deleted
      PROVE  /\ mem.rows[m].id \in LiveIds
             /\ Lookup(mem)[mem.rows[m].id] = mem.rows[m].vec
  <2> DEFINE id == mem.rows[m].id
  <2>1. m \in DOMAIN mem.rows /\ id \in Ids
    <3>1. mem.rows[m] \in Row
      BY <1>1
    <3> QED  BY <3>1, <1>1 DEF Row
  <2>2. IsLive(mem, id)
    BY <2>1, <1>1, <1>2 DEF TablesConsistent, RowIds
  <2>3. mem.rowOf[id] \in DOMAIN mem.rows /\ mem.rows[mem.rowOf[id]].id = id
    BY <2>1, <2>2, <1>1 DEF TablesConsistent
  <2>4. mem.rowOf[id] = m
    BY <2>1, <2>3, <1>1 DEF UniqueIds
  <2> QED  BY <2>1, <2>2, <2>4 DEF LiveIds, Lookup
<1>3. ASSUME NEW id \in LiveIds
      PROVE  \E m \in 1 .. Len(mem.rows) :
               /\ mem.rows[m].id = id /\ id \notin mem.deleted
               /\ Lookup(mem)[id] = mem.rows[m].vec
  <2>1. id \in Ids /\ IsLive(mem, id)
    BY DEF LiveIds
  <2>2. /\ mem.rowOf[id] \in DOMAIN mem.rows
        /\ mem.rows[mem.rowOf[id]].id = id /\ id \notin mem.deleted
    BY <2>1, <1>1 DEF TablesConsistent
  <2>3. mem.rowOf[id] \in 1 .. Len(mem.rows)
    BY <2>2, <1>1
  <2> QED  BY <2>1, <2>2, <2>3 DEF Lookup
<1>4. ASSUME NEW i \in DOMAIN hits
      PROVE  /\ hits[i].id \in LiveIds
             /\ hits[i].vec = Lookup(mem)[hits[i].id]
             /\ Near(hits[i].id) = Far(q, hits[i])
  <2>1. PICK m \in 1 .. Len(mem.rows) :
          hits[i] = mem.rows[m] /\ mem.rows[m].id \notin mem.deleted
    BY DEF Found
  <2> QED  BY <2>1, <1>2 DEF Far
<1>5. ASSUME NEW id \in LiveIds, id \notin RowIds(hits)
      PROVE  /\ Len(hits) = k
             /\ \A j \in DOMAIN hits : Far(q, hits[j]) <= Near(id)
  <2>1. PICK m \in 1 .. Len(mem.rows) :
          /\ mem.rows[m].id = id /\ id \notin mem.deleted
          /\ Lookup(mem)[id] = mem.rows[m].vec
    BY <1>3
  <2> QED  BY <2>1, <1>5 DEF Found, Far
<1>6. Len(hits) = k \/ RowIds(hits) = LiveIds
  <2>1. RowIds(hits) \subseteq LiveIds
    BY <1>4 DEF RowIds
  <2> QED  BY <2>1, <1>5
<1>7. \A i, j \in DOMAIN hits : i < j => Near(hits[i].id) <= Near(hits[j].id)
  BY <1>4 DEF Found, NearestFirst
<1>8. \A i \in DOMAIN hits, id \in LiveIds \ RowIds(hits) :
        Near(hits[i].id) <= Near(id)
  BY <1>4, <1>5
<1> QED  BY <1>1, <1>4, <1>6, <1>7, <1>8

\* The k nearest live vectors, whatever the rows and the query are.
THEOREM SearchIsExact ==
  ASSUME "reinsert" \notin Ops
  PROVE  Spec => []SearchExact
<1>1. Rest /\ FreshOnly => SearchExact
  <2> SUFFICES ASSUME Rest, FreshOnly, NEW q \in Vecs, NEW k \in 0 .. MaxRows
               PROVE  LET hits == FlatSearch(q, k)
                          Near(id) == Distance(q, Lookup(mem)[id])
                      IN  /\ UniqueIds(hits)
                          /\ \A i \in DOMAIN hits :
                               hits[i].id \in LiveIds
                               /\ hits[i].vec = Lookup(mem)[hits[i].id]
                          /\ Len(hits) = k \/ RowIds(hits) = LiveIds
                          /\ \A i, j \in DOMAIN hits :
                               i < j => Near(hits[i].id) <= Near(hits[j].id)
                          /\ \A i \in DOMAIN hits, id \in LiveIds \ RowIds(hits) :
                               Near(hits[i].id) <= Near(id)
    BY DEF SearchExact
  <2>1. CASE k = 0
    <3>1. FlatSearch(q, k) = <<>>
      BY <2>1 DEF FlatSearch
    <3> QED  BY <3>1, <2>1 DEF UniqueIds
  <2>2. CASE k # 0
    <3>1. k \in Nat \ {0}
      BY <2>2, SizesAssumption
    <3>2. mem.rows \in Seq(Row) /\ UniqueIds(mem.rows)
      BY DEF Rest, Typed, Tables, FreshOnly
    <3>3. Found(mem.rows, mem.deleted, q, k, Len(mem.rows), FlatSearch(q, k))
      BY <3>1, <3>2, <2>2, ScanFinds DEF FlatSearch
    <3> QED  BY <3>1, <3>3, FoundIsExact
  <2> QED  BY <2>1, <2>2
<1>2. Spec => [](Rest /\ FreshOnly)
  BY FreshHolds
<1> QED  BY <1>1, <1>2, PTL
=============================================================================
