------------------------- MODULE VectorTablesProofs -------------------------
(***************************************************************************)
(* What the table updates of VectorTables return and preserve, for any set *)
(* of ids and vectors.                                                     *)
(***************************************************************************)
EXTENDS VectorTables, Integers, SequenceTheorems, WellFoundedInduction, TLAPS

LEMMA EmptyType == EmptyTables \in Tables /\ EmptyImage \in Images
BY DEF EmptyTables, Tables, EmptyImage, SaveImage, Images

\* An id that occurs in a batch occurs at the position PositionIn names.
LEMMA PositionInRows ==
  ASSUME NEW rows \in Seq(Row), NEW id \in RowIds(rows)
  PROVE  /\ PositionIn(rows, id) \in 1 .. Len(rows)
         /\ rows[PositionIn(rows, id)].id = id
<1>1. PICK i \in DOMAIN rows : rows[i].id = id
  BY DEF RowIds
<1>2. DOMAIN rows = 1 .. Len(rows)
  BY LenProperties
<1> QED  BY <1>1, <1>2 DEF PositionIn

LEMMA RowIdsType ==
  ASSUME NEW rows \in Seq(Row)
  PROVE  RowIds(rows) \subseteq Ids
<1> SUFFICES ASSUME NEW i \in DOMAIN rows
             PROVE  rows[i].id \in Ids
  BY DEF RowIds
<1>1. i \in 1 .. Len(rows)
  BY LenProperties
<1>2. rows[i] \in Row
  BY <1>1, ElementOfSeq
<1> QED  BY <1>2 DEF Row

LEMMA AddRowType ==
  ASSUME NEW t \in Tables, NEW id \in Ids, NEW vec \in Vecs
  PROVE  AddRow(t, id, vec) \in Tables
<1>1. Append(t.rows, [id |-> id, vec |-> vec]) \in Seq(Row)
  BY DEF Tables, Row
<1>2. Len(t.rows) + 1 \in Nat
  BY LenProperties DEF Tables
<1> QED  BY <1>1, <1>2 DEF AddRow, Tables

LEMMA AddBatchType ==
  ASSUME NEW t \in Tables, NEW batch \in Seq(Row)
  PROVE  AddBatch(t, batch) \in Tables
<1>1. t.rows \o batch \in Seq(Row)
  BY ConcatProperties DEF Tables
<1>2. Len(t.rows) \in Nat
  BY LenProperties DEF Tables
<1>3. ASSUME NEW id \in Ids
      PROVE  (IF id \in RowIds(batch) THEN Len(t.rows) + PositionIn(batch, id)
                                      ELSE t.rowOf[id]) \in Nat
  <2>1. CASE id \in RowIds(batch)
    BY <2>1, <1>2, PositionInRows
  <2>2. CASE id \notin RowIds(batch)
    BY <2>2 DEF Tables
  <2> QED  BY <2>1, <2>2
<1> QED  BY <1>1, <1>3 DEF AddBatch, Tables

LEMMA RemoveRowType ==
  ASSUME NEW t \in Tables, NEW id \in Ids
  PROVE  RemoveRow(t, id) \in Tables
BY DEF RemoveRow, Tables

LEMMA SaveImageType ==
  ASSUME NEW t \in Tables
  PROVE  SaveImage(t) \in Images
BY DEF SaveImage, Tables, Images

LEMMA RestoreType ==
  ASSUME NEW img \in Images
  PROVE  Restore(img) \in Tables
<1>1. img.rows \in Seq(Row) /\ img.deleted \in SUBSET Ids
  BY DEF Images
<1>2. ASSUME NEW id \in RowIds(img.rows) \ img.deleted
      PROVE  PositionIn(img.rows, id) \in Nat
  BY <1>1, PositionInRows
<1> QED  BY <1>1, <1>2 DEF Restore, Tables

LEMMA LookupType ==
  ASSUME NEW t \in Tables, TablesConsistent(t)
  PROVE  Lookup(t) \in [Ids -> Vecs \cup {NoVec}]
<1>1. ASSUME NEW id \in Ids, IsLive(t, id)
      PROVE  t.rows[t.rowOf[id]].vec \in Vecs
  <2>1. t.rows \in Seq(Row) /\ t.rowOf[id] \in 1 .. Len(t.rows)
    BY <1>1, LenProperties DEF Tables, TablesConsistent
  <2>2. t.rows[t.rowOf[id]] \in Row
    BY <2>1, ElementOfSeq
  <2> QED  BY <2>2 DEF Row
<1> QED  BY <1>1 DEF Lookup

-----------------------------------------------------------------------------
(* Consistency of the tables.                                              *)

LEMMA EmptyConsistent == TablesConsistent(EmptyTables)
BY DEF TablesConsistent, EmptyTables, IsLive, RowIds

LEMMA AddRowConsistent ==
  ASSUME NEW t \in Tables, TablesConsistent(t), NEW id \in Ids, NEW vec \in Vecs
  PROVE  TablesConsistent(AddRow(t, id, vec))
<1> DEFINE u == AddRow(t, id, vec)
           row == [id |-> id, vec |-> vec]
<1>1. t.rows \in Seq(Row) /\ t.rowOf \in [Ids -> Nat] /\ row \in Row
      /\ Len(t.rows) \in Nat /\ DOMAIN t.rows = 1 .. Len(t.rows)
  BY LenProperties DEF Tables, Row
<1>2. u.rows = Append(t.rows, row)
      /\ u.rowOf = [t.rowOf EXCEPT ![id] = Len(t.rows) + 1]
      /\ u.deleted = t.deleted \ {id}
  BY DEF AddRow
<1>3. /\ DOMAIN u.rows = 1 .. Len(t.rows) + 1
      /\ \A i \in 1 .. Len(t.rows) : u.rows[i] = t.rows[i]
      /\ u.rows[Len(t.rows) + 1] = row
  BY <1>1, <1>2
<1>4. ASSUME NEW j \in Ids, IsLive(u, j)
      PROVE  /\ u.rowOf[j] \in DOMAIN u.rows
             /\ u.rows[u.rowOf[j]].id = j
             /\ j \notin u.deleted
  <2>1. CASE j = id
    BY <2>1, <1>1, <1>2, <1>3
  <2>2. CASE j # id
    <3>1. u.rowOf[j] = t.rowOf[j] /\ IsLive(t, j)
      BY <2>2, <1>1, <1>2, <1>4 DEF IsLive
    <3>2. t.rowOf[j] \in 1 .. Len(t.rows) /\ t.rows[t.rowOf[j]].id = j
          /\ j \notin t.deleted
      BY <3>1, <1>1 DEF TablesConsistent
    <3> QED  BY <3>1, <3>2, <1>1, <1>2, <1>3
  <2> QED  BY <2>1, <2>2
<1>5. ASSUME NEW j \in RowIds(u.rows)
      PROVE  j \in {i \in Ids : IsLive(u, i)} \cup u.deleted
  <2>1. PICK i \in 1 .. Len(t.rows) + 1 : u.rows[i].id = j
    BY <1>3 DEF RowIds
  <2>2. CASE j = id
    BY <2>2, <1>1, <1>2 DEF IsLive
  <2>3. CASE j # id
    <3>1. i \in 1 .. Len(t.rows) /\ t.rows[i].id = j
      BY <2>1, <2>3, <1>1, <1>3
    <3>2. j \in {n \in Ids : IsLive(t, n)} \cup t.deleted
      BY <3>1, <1>1 DEF TablesConsistent, RowIds
    <3> QED  BY <3>2, <2>3, <1>1, <1>2 DEF IsLive
  <2> QED  BY <2>2, <2>3
<1> QED  BY <1>4, <1>5 DEF TablesConsistent

LEMMA AddBatchConsistent ==
  ASSUME NEW t \in Tables, TablesConsistent(t), NEW batch \in Seq(Row)
  PROVE  TablesConsistent(AddBatch(t, batch))
<1> DEFINE u == AddBatch(t, batch)
           n == Len(t.rows)
<1>1. t.rows \in Seq(Row) /\ t.rowOf \in [Ids -> Nat] /\ n \in Nat
      /\ DOMAIN t.rows = 1 .. n /\ Len(batch) \in Nat
      /\ DOMAIN batch = 1 .. Len(batch)
  BY LenProperties DEF Tables
<1>2. u.rows = t.rows \o batch /\ u.deleted = t.deleted \ RowIds(batch)
      /\ \A j \in Ids : u.rowOf[j] = IF j \in RowIds(batch)
                                     THEN n + PositionIn(batch, j)
                                     ELSE t.rowOf[j]
  BY DEF AddBatch
<1>3. /\ DOMAIN u.rows = 1 .. n + Len(batch)
      /\ \A i \in 1 .. n : u.rows[i] = t.rows[i]
      /\ \A i \in 1 .. Len(batch) : u.rows[n + i] = batch[i]
  <2>1. u.rows \in Seq(Row) /\ Len(u.rows) = n + Len(batch)
    BY <1>1, <1>2, ConcatProperties
  <2>2. \A i \in 1 .. n + Len(batch) :
          u.rows[i] = IF i <= n THEN t.rows[i] ELSE batch[i - n]
    BY <1>1, <1>2, ConcatProperties
  <2>3. DOMAIN u.rows = 1 .. n + Len(batch)
    BY <2>1, LenProperties
  <2>4. ASSUME NEW i \in 1 .. n
        PROVE  u.rows[i] = t.rows[i]
    <3>1. i \in 1 .. n + Len(batch) /\ i <= n
      BY <1>1
    <3> HIDE DEF u, n
    <3> QED  BY <3>1, <2>2
  <2>5. ASSUME NEW i \in 1 .. Len(batch)
        PROVE  u.rows[n + i] = batch[i]
    <3>1. n + i \in 1 .. n + Len(batch) /\ ~(n + i <= n) /\ (n + i) - n = i
      BY <1>1
    <3> HIDE DEF u, n
    <3> QED  BY <3>1, <2>2
  <2> QED  BY <2>3, <2>4, <2>5
<1>4. ASSUME NEW j \in Ids, IsLive(u, j)
      PROVE  /\ u.rowOf[j] \in DOMAIN u.rows
             /\ u.rows[u.rowOf[j]].id = j
             /\ j \notin u.deleted
  <2>1. CASE j \in RowIds(batch)
    <3>1. PositionIn(batch, j) \in 1 .. Len(batch)
          /\ batch[PositionIn(batch, j)].id = j
      BY <2>1, PositionInRows
    <3> QED  BY <3>1, <2>1, <1>1, <1>2, <1>3
  <2>2. CASE j \notin RowIds(batch)
    <3>1. u.rowOf[j] = t.rowOf[j] /\ IsLive(t, j)
      BY <2>2, <1>2, <1>4 DEF IsLive
    <3>2. t.rowOf[j] \in 1 .. n /\ t.rows[t.rowOf[j]].id = j
          /\ j \notin t.deleted
      BY <3>1, <1>1 DEF TablesConsistent
    <3> QED  BY <3>1, <3>2, <1>1, <1>2, <1>3
  <2> QED  BY <2>1, <2>2
<1>5. ASSUME NEW j \in RowIds(u.rows)
      PROVE  j \in {i \in Ids : IsLive(u, i)} \cup u.deleted
  <2>1. PICK i \in 1 .. n + Len(batch) : u.rows[i].id = j
    BY <1>3 DEF RowIds
  <2>2. CASE j \in RowIds(batch)
    <3>1. j \in Ids
      BY <2>2, RowIdsType
    <3>2. u.rowOf[j] = n + PositionIn(batch, j)
          /\ PositionIn(batch, j) \in 1 .. Len(batch)
      BY <3>1, <2>2, <1>2, PositionInRows
    <3> QED  BY <3>1, <3>2, <1>1 DEF IsLive
  <2>3. CASE j \notin RowIds(batch)
    <3>1. i \in 1 .. n
      <4>1. CASE i > n
        <5>1. PICK k \in 1 .. Len(batch) : i = n + k
          <6>1. i - n \in 1 .. Len(batch) /\ i = n + (i - n)
            BY <4>1, <1>1
          <6> HIDE DEF n
          <6> QED  BY <6>1
        <5>2. batch[k].id = j
          <6> HIDE DEF n, u
          <6> QED  BY <5>1, <2>1, <1>3
        <5> QED  BY <5>2, <2>3, <1>1 DEF RowIds
      <4> QED  BY <4>1, <1>1
    <3>2. j \in {m \in Ids : IsLive(t, m)} \cup t.deleted
      BY <3>1, <2>1, <1>1, <1>3 DEF TablesConsistent, RowIds
    <3> QED  BY <3>2, <2>3, <1>1, <1>2 DEF IsLive
  <2> QED  BY <2>2, <2>3
<1> QED  BY <1>4, <1>5 DEF TablesConsistent

LEMMA RemoveRowConsistent ==
  ASSUME NEW t \in Tables, TablesConsistent(t), NEW id \in Ids
  PROVE  TablesConsistent(RemoveRow(t, id))
BY DEF TablesConsistent, RemoveRow, Tables, IsLive

\* Whatever image is restored, even one with the id of a row repeated, the
\* tables agree.
LEMMA RestoreConsistent ==
  ASSUME NEW img \in Images
  PROVE  TablesConsistent(Restore(img))
<1> DEFINE u == Restore(img)
<1>1. img.rows \in Seq(Row) /\ DOMAIN img.rows = 1 .. Len(img.rows)
      /\ Len(img.rows) \in Nat
  BY LenProperties DEF Images
<1>2. u.rows = img.rows /\ u.deleted = img.deleted
      /\ \A j \in Ids : u.rowOf[j] = IF j \in RowIds(img.rows) \ img.deleted
                                     THEN PositionIn(img.rows, j) ELSE 0
  BY DEF Restore
<1>3. ASSUME NEW j \in Ids, IsLive(u, j)
      PROVE  /\ u.rowOf[j] \in DOMAIN u.rows
             /\ u.rows[u.rowOf[j]].id = j
             /\ j \notin u.deleted
  <2>1. j \in RowIds(img.rows) \ img.deleted
    BY <1>2, <1>3 DEF IsLive
  <2> QED  BY <2>1, <1>1, <1>2, PositionInRows
<1>4. ASSUME NEW j \in RowIds(u.rows)
      PROVE  j \in {i \in Ids : IsLive(u, i)} \cup u.deleted
  <2>1. CASE j \in img.deleted
    BY <2>1, <1>2
  <2>2. CASE j \notin img.deleted
    <3>1. j \in RowIds(img.rows) /\ j \in Ids
      BY <1>1, <1>2, RowIdsType
    <3>2. u.rowOf[j] \in 1 .. Len(img.rows)
      BY <3>1, <2>2, <1>1, <1>2, PositionInRows
    <3> QED  BY <3>1, <3>2, <1>1 DEF IsLive
  <2> QED  BY <2>1, <2>2
<1> QED  BY <1>3, <1>4 DEF TablesConsistent

-----------------------------------------------------------------------------
(* A batch, row by row.                                                   *)

\* A batch of no rows changes nothing.
LEMMA AddBatchNone ==
  ASSUME NEW t \in Tables
  PROVE  AddBatch(t, <<>>) = t
<1>1. t.rows \o <<>> = t.rows
  BY ConcatEmptySeq DEF Tables
<1>2. RowIds(<<>>) = {}
  BY DEF RowIds
<1>3. [id \in Ids |-> t.rowOf[id]] = t.rowOf
  BY DEF Tables
<1>4. t = [rows |-> t.rows, rowOf |-> t.rowOf, deleted |-> t.deleted]
  BY DEF Tables
<1> QED  BY <1>1, <1>2, <1>3, <1>4 DEF AddBatch

\* A part of a batch of distinct ids: where its ids stand.
LEMMA PartOfBatch ==
  ASSUME NEW rows \in Seq(Row), UniqueIds(rows), NEW r \in 0 .. Len(rows)
  PROVE  /\ SubSeq(rows, 1, r) \in Seq(Row)
         /\ Len(SubSeq(rows, 1, r)) = r
         /\ RowIds(SubSeq(rows, 1, r)) = {rows[i].id : i \in 1 .. r}
         /\ \A i \in 1 .. r : PositionIn(SubSeq(rows, 1, r), rows[i].id) = i
<1> DEFINE part == SubSeq(rows, 1, r)
<1>1. Len(rows) \in Nat /\ DOMAIN rows = 1 .. Len(rows) /\ r \in Nat
  BY LenProperties
<1>2. \A i \in 1 .. r : rows[i] \in Row
  BY <1>1, ElementOfSeq
<1>3. part \in Seq(Row) /\ Len(part) = r /\ \A i \in 1 .. r : part[i] = rows[i]
  BY <1>1, <1>2, SubSeqProperties
<1>4. DOMAIN part = 1 .. r
  BY <1>3, LenProperties
<1>5. RowIds(part) = {rows[i].id : i \in 1 .. r}
  <2> HIDE DEF part
  <2> QED  BY <1>3, <1>4 DEF RowIds
<1>6. ASSUME NEW i \in 1 .. r
      PROVE  PositionIn(part, rows[i].id) = i
  <2>1. \A j \in DOMAIN part : part[j].id = rows[i].id <=> j = i
    <3> HIDE DEF part
    <3> QED  BY <1>1, <1>3, <1>4 DEF UniqueIds
  <2>2. i \in DOMAIN part
    BY <1>4
  <2> HIDE DEF part
  <2> QED  BY <2>1, <2>2 DEF PositionIn
<1> QED  BY <1>3, <1>5, <1>6

LEMMA ConcatRows ==
  ASSUME NEW a \in Seq(Row), NEW b \in Seq(Row), NEW c \in Seq(Row)
  PROVE  (a \o b) \o c = a \o (b \o c)
BY ConcatAssociative

\* insert_bulk is repeated insert: one row more of a batch of distinct ids.
LEMMA AddBatchOneMore ==
  ASSUME NEW t \in Tables, NEW rows \in Seq(Row), UniqueIds(rows),
         NEW r \in 1 .. Len(rows)
  PROVE  AddBatch(t, SubSeq(rows, 1, r)) =
           AddRow(AddBatch(t, SubSeq(rows, 1, r - 1)), rows[r].id, rows[r].vec)
<1> DEFINE more == SubSeq(rows, 1, r)
           less == SubSeq(rows, 1, r - 1)
           u    == AddBatch(t, less)
<1>1. Len(rows) \in Nat /\ r \in 0 .. Len(rows) /\ r - 1 \in 0 .. Len(rows)
      /\ rows[r] \in Row
  BY LenProperties, ElementOfSeq
<1>2. rows[r] = [id |-> rows[r].id, vec |-> rows[r].vec]
  BY <1>1 DEF Row
<1>3. more = less \o <<rows[r]>> /\ less \in Seq(Row)
  <2>1. more = less \o <<rows[r]>>
    BY <1>1, SubSeqRecursiveSecond
  <2> QED  BY <2>1, <1>1, PartOfBatch
<1>4. t.rows \o more = Append(t.rows \o less, rows[r])
  <2>1. t.rows \in Seq(Row) /\ <<rows[r]>> \in Seq(Row)
    BY <1>1 DEF Tables
  <2>2. t.rows \o more = (t.rows \o less) \o <<rows[r]>>
    <3>1. less \in Seq(Row)
      BY <1>3
    <3> HIDE DEF less
    <3>2. (t.rows \o less) \o <<rows[r]>> = t.rows \o (less \o <<rows[r]>>)
      BY <2>1, <3>1, ConcatRows, Zenon
    <3> QED  BY <3>2, <1>3, Zenon
  <2>3. t.rows \o less \in Seq(Row)
    BY <1>3, <2>1, ConcatProperties
  <2> HIDE DEF more, less
  <2> QED  BY <2>2, <2>3, <1>1, AppendIsConcat
<1>5. /\ RowIds(more) = {rows[i].id : i \in 1 .. r}
      /\ RowIds(less) = {rows[i].id : i \in 1 .. r - 1}
      /\ \A i \in 1 .. r : PositionIn(more, rows[i].id) = i
      /\ \A i \in 1 .. r - 1 : PositionIn(less, rows[i].id) = i
      /\ Len(less) = r - 1
  BY <1>1, PartOfBatch
<1>6. RowIds(more) = RowIds(less) \cup {rows[r].id}
  <2>1. 1 .. r = (1 .. r - 1) \cup {r}
    BY <1>1
  <2> HIDE DEF more, less
  <2> QED  BY <1>5, <2>1
<1>7. Len(t.rows \o less) + 1 = Len(t.rows) + r /\ Len(t.rows) \in Nat
  <2>1. t.rows \in Seq(Row)
    BY DEF Tables
  <2>2. Len(t.rows \o less) = Len(t.rows) + Len(less) /\ Len(t.rows) \in Nat
    BY <2>1, <1>3, ConcatProperties, LenProperties
  <2> HIDE DEF less
  <2> QED  BY <2>2, <1>1, <1>5
<1>8. ASSUME NEW id \in Ids
      PROVE  (IF id \in RowIds(more) THEN Len(t.rows) + PositionIn(more, id)
                                     ELSE t.rowOf[id])
             = [u.rowOf EXCEPT ![rows[r].id] = Len(u.rows) + 1][id]
  <2>1. u.rows = t.rows \o less /\ DOMAIN u.rowOf = Ids
        /\ u.rowOf[id] = IF id \in RowIds(less) THEN Len(t.rows) + PositionIn(less, id)
                         ELSE t.rowOf[id]
    BY DEF AddBatch
  <2> HIDE DEF u, more, less
  <2>2. CASE id = rows[r].id
    <3>1. id \in RowIds(more) /\ PositionIn(more, id) = r
      BY <2>2, <1>1, <1>5, <1>6
    <3> QED  BY <3>1, <2>1, <2>2, <1>7
  <2>3. CASE id # rows[r].id /\ id \in RowIds(less)
    <3>1. PICK i \in 1 .. r - 1 : id = rows[i].id
      BY <2>3, <1>5
    <3>2. i \in 1 .. r
      BY <1>1
    <3>3. PositionIn(more, id) = i /\ PositionIn(less, id) = i
      BY <3>1, <3>2, <1>5
    <3> QED  BY <3>3, <2>1, <2>3, <1>6
  <2>4. CASE id # rows[r].id /\ id \notin RowIds(less)
    BY <2>4, <2>1, <1>6
  <2> QED  BY <2>2, <2>3, <2>4
<1>9. AddBatch(t, more).rowOf = [u.rowOf EXCEPT ![rows[r].id] = Len(u.rows) + 1]
  <2>1. DOMAIN u.rowOf = Ids
    BY DEF AddBatch
  <2>2. AddBatch(t, more).rowOf =
          [id \in Ids |-> IF id \in RowIds(more) THEN Len(t.rows) + PositionIn(more, id)
                          ELSE t.rowOf[id]]
    BY DEF AddBatch
  <2> HIDE DEF u, more, less
  <2> QED  BY <2>1, <2>2, <1>8
<1>10. AddBatch(t, more).deleted = u.deleted \ {rows[r].id}
  <2>1. AddBatch(t, more).deleted = t.deleted \ RowIds(more)
        /\ u.deleted = t.deleted \ RowIds(less)
    BY DEF AddBatch
  <2> HIDE DEF u, more, less
  <2> QED  BY <2>1, <1>6
<1>11. AddBatch(t, more).rows = Append(u.rows, [id |-> rows[r].id, vec |-> rows[r].vec])
  <2>1. AddBatch(t, more).rows = t.rows \o more /\ u.rows = t.rows \o less
    BY DEF AddBatch
  <2> HIDE DEF u, more, less
  <2> QED  BY <2>1, <1>2, <1>4
<1>12. AddBatch(t, more) = [rows    |-> AddBatch(t, more).rows,
                            rowOf   |-> AddBatch(t, more).rowOf,
                            deleted |-> AddBatch(t, more).deleted]
  BY DEF AddBatch
<1>13. AddBatch(t, more) = AddRow(u, rows[r].id, rows[r].vec)
  <2> HIDE DEF u, more, less
  <2> QED  BY <1>9, <1>10, <1>11, <1>12 DEF AddRow
<1> QED  BY <1>13
-----------------------------------------------------------------------------
(* What the application sees of an update.                                 *)

\* insert adds one vector to the map ...
LEMMA LookupAddRow ==
  ASSUME NEW t \in Tables, TablesConsistent(t), NEW id \in Ids, NEW vec \in Vecs,
         NEW j \in Ids
  PROVE  Lookup(AddRow(t, id, vec))[j] = IF j = id THEN vec ELSE Lookup(t)[j]
<1> DEFINE u == AddRow(t, id, vec)
           row == [id |-> id, vec |-> vec]
<1>1. /\ t.rows \in Seq(Row) /\ t.rowOf \in [Ids -> Nat] /\ row \in Row
      /\ Len(t.rows) \in Nat /\ DOMAIN t.rows = 1 .. Len(t.rows)
  BY LenProperties DEF Tables, Row
<1>2. /\ u.rows = Append(t.rows, row)
      /\ u.rowOf = [t.rowOf EXCEPT ![id] = Len(t.rows) + 1]
  BY DEF AddRow
<1>3. /\ \A i \in 1 .. Len(t.rows) : u.rows[i] = t.rows[i]
      /\ u.rows[Len(t.rows) + 1] = row
  BY <1>1, <1>2
<1>4. CASE j = id
  <2>1. u.rowOf[j] = Len(t.rows) + 1
    BY <1>4, <1>1, <1>2
  <2> QED  BY <2>1, <1>1, <1>3, <1>4 DEF Lookup, IsLive
<1>5. CASE j # id
  <2>1. u.rowOf[j] = t.rowOf[j]
    BY <1>5, <1>1, <1>2
  <2>2. IsLive(t, j) => t.rowOf[j] \in 1 .. Len(t.rows)
    BY <1>1 DEF TablesConsistent
  <2> QED  BY <2>1, <2>2, <1>3, <1>5 DEF Lookup, IsLive
<1> QED  BY <1>4, <1>5

\* ... insert_bulk those of the batch ...
LEMMA LookupAddBatch ==
  ASSUME NEW t \in Tables, TablesConsistent(t), NEW batch \in Seq(Row),
         NEW j \in Ids
  PROVE  Lookup(AddBatch(t, batch))[j] =
           IF j \in RowIds(batch) THEN batch[PositionIn(batch, j)].vec
                                  ELSE Lookup(t)[j]
<1> DEFINE u == AddBatch(t, batch)
           n == Len(t.rows)
<1>1. t.rows \in Seq(Row) /\ t.rowOf \in [Ids -> Nat] /\ n \in Nat
      /\ DOMAIN t.rows = 1 .. n /\ Len(batch) \in Nat
  BY LenProperties DEF Tables
<1>2. u.rows = t.rows \o batch
      /\ u.rowOf[j] = IF j \in RowIds(batch) THEN n + PositionIn(batch, j)
                                             ELSE t.rowOf[j]
  BY DEF AddBatch
<1>3. \A i \in 1 .. n + Len(batch) :
          u.rows[i] = IF i <= n THEN t.rows[i] ELSE batch[i - n]
  BY <1>1, <1>2, ConcatProperties
<1>4. Lookup(u)[j] = IF u.rowOf[j] # 0 THEN u.rows[u.rowOf[j]].vec ELSE NoVec
  BY DEF Lookup, IsLive
<1>5. Lookup(t)[j] = IF t.rowOf[j] # 0 THEN t.rows[t.rowOf[j]].vec ELSE NoVec
  BY DEF Lookup, IsLive
<1>6. CASE j \in RowIds(batch)
  <2>1. PositionIn(batch, j) \in 1 .. Len(batch)
    BY <1>6, PositionInRows
  <2>2. PICK p \in 1 .. Len(batch) : p = PositionIn(batch, j)
    BY <2>1
  <2>3. /\ n + p \in 1 .. n + Len(batch) /\ ~(n + p <= n) /\ (n + p) - n = p
        /\ n + p # 0
    BY <1>1
  <2>4. Lookup(u)[j] = batch[p].vec
    <3> HIDE DEF u, n
    <3> QED  BY <2>2, <2>3, <1>2, <1>3, <1>4, <1>6
  <2> QED  BY <2>2, <2>4, <1>6
<1>7. CASE j \notin RowIds(batch)
  <2>1. t.rowOf[j] # 0 => t.rowOf[j] \in 1 .. n
    BY <1>1 DEF TablesConsistent, IsLive
  <2>2. \A i \in 1 .. n : i \in 1 .. n + Len(batch) /\ i <= n
    BY <1>1
  <2>3. Lookup(u)[j] = Lookup(t)[j]
    <3> HIDE DEF u, n
    <3> QED  BY <2>1, <2>2, <1>2, <1>3, <1>4, <1>5, <1>7
  <2> QED  BY <2>3, <1>7
<1> QED  BY <1>6, <1>7

\* ... and remove takes one away.
LEMMA LookupRemoveRow ==
  ASSUME NEW t \in Tables, NEW id \in Ids, NEW j \in Ids
  PROVE  Lookup(RemoveRow(t, id))[j] = IF j = id THEN NoVec ELSE Lookup(t)[j]
BY DEF Lookup, RemoveRow, IsLive, Tables

\* An id has a vector exactly when it is live.
LEMMA LookupLive ==
  ASSUME NEW t \in Tables, TablesConsistent(t), NEW id \in Ids
  PROVE  IsLive(t, id) <=> Lookup(t)[id] # NoVec
<1>1. ASSUME IsLive(t, id)
      PROVE  Lookup(t)[id] \in Vecs
  <2>1. t.rows \in Seq(Row) /\ t.rowOf[id] \in 1 .. Len(t.rows)
    BY <1>1, LenProperties DEF Tables, TablesConsistent
  <2>2. t.rows[t.rowOf[id]] \in Row
    BY <2>1, ElementOfSeq
  <2> QED  BY <2>2, <1>1 DEF Row, Lookup
<1>2. ~IsLive(t, id) => Lookup(t)[id] = NoVec
  BY DEF Lookup
<1> QED  BY <1>1, <1>2, NoVecAssumption

\* save and load bring every vector back when no id has two rows.
LEMMA LookupRestore ==
  ASSUME NEW t \in Tables, TablesConsistent(t), UniqueIds(t.rows)
  PROVE  Lookup(Restore(SaveImage(t))) = Lookup(t)
<1> DEFINE u == Restore(SaveImage(t))
<1>1. /\ t.rows \in Seq(Row) /\ DOMAIN t.rows = 1 .. Len(t.rows)
      /\ u.rows = t.rows
      /\ \A j \in Ids : u.rowOf[j] = IF j \in RowIds(t.rows) \ t.deleted
                                     THEN PositionIn(t.rows, j) ELSE 0
  BY LenProperties DEF Tables, Restore, SaveImage
<1>2. ASSUME NEW j \in Ids
      PROVE  u.rowOf[j] = t.rowOf[j]
  <2>1. CASE IsLive(t, j)
    <3>1. /\ t.rowOf[j] \in DOMAIN t.rows /\ t.rows[t.rowOf[j]].id = j
          /\ j \notin t.deleted
      BY <2>1 DEF TablesConsistent
    <3>2. j \in RowIds(t.rows)
      BY <3>1 DEF RowIds
    <3>3. PositionIn(t.rows, j) \in DOMAIN t.rows
          /\ t.rows[PositionIn(t.rows, j)].id = j
      BY <3>2, <1>1, PositionInRows
    <3>4. PositionIn(t.rows, j) = t.rowOf[j]
      BY <3>1, <3>3 DEF UniqueIds
    <3> QED  BY <3>1, <3>2, <3>4, <1>1
  <2>2. CASE ~IsLive(t, j)
    <3>1. j \notin RowIds(t.rows) \ t.deleted
      BY <2>2 DEF TablesConsistent
    <3> QED  BY <3>1, <2>2, <1>1 DEF IsLive
  <2> QED  BY <2>1, <2>2
<1> QED  BY <1>1, <1>2 DEF Lookup, IsLive

-----------------------------------------------------------------------------
(* Induction and recursion over positions.  The library states them of     *)
(* operators; a set and a function say the same.                           *)

LEMMA LeastNumber ==
  ASSUME NEW T \in SUBSET Nat, T # {}
  PROVE  \E m \in T : \A n \in T : m <= n
<1> DEFINE R == OpToRel(<, Nat)
<1>1. \E x \in T : \A y \in T : ~ (<<y, x>> \in R)
  <2>1. IsWellFoundedOn(R, Nat)
    BY NatLessThanWellFounded
  <2> HIDE DEF R
  <2> QED  BY <2>1, WFMin
<1>2. \A x, y \in Nat : y < x => <<y, x>> \in R
  BY DEF OpToRel
<1> HIDE DEF R
<1>3. PICK x \in T : \A y \in T : ~ (<<y, x>> \in R)
  BY <1>1
<1>4. ASSUME NEW y \in T
      PROVE  x <= y
  <2>1. x \in Nat /\ y \in Nat /\ ~(y < x)
    BY <1>2, <1>3
  <2> QED  BY <2>1
<1> QED  BY <1>4

LEMMA UpTo ==
  ASSUME NEW last \in Nat, NEW S, 0 \in S,
         \A n \in 0 .. last - 1 : n \in S => n + 1 \in S
  PROVE  \A n \in 0 .. last : n \in S
<1> SUFFICES ASSUME NEW bad \in 0 .. last, bad \notin S
             PROVE  FALSE
  OBVIOUS
<1> DEFINE Bad == {n \in 0 .. last : n \notin S}
<1>1. Bad \in SUBSET Nat /\ Bad # {}
  OBVIOUS
<1> HIDE DEF Bad
<1>2. PICK m \in Bad : \A n \in Bad : m <= n
  BY <1>1, LeastNumber
<1>3. m \in 0 .. last /\ m \notin S /\ m # 0
  BY <1>2 DEF Bad
<1>4. m - 1 \in 0 .. last /\ m - 1 \in 0 .. last - 1
  BY <1>3
<1>5. m - 1 \in S
  BY <1>2, <1>3, <1>4 DEF Bad
<1> QED  BY <1>3, <1>4, <1>5

\* A function over 0 .. n that starts at base and goes on by step.
Iterates(f, n, V, base, step) ==
  /\ f \in [0 .. n -> V]
  /\ f[0] = base
  /\ \A i \in 1 .. n : f[i] = step[i][f[i - 1]]

\* There is one.
LEMMA Recursion ==
  ASSUME NEW last \in Nat, NEW V, NEW base \in V,
         NEW step \in [1 .. last -> [V -> V]]
  PROVE  \E f : Iterates(f, last, V, base, step)
<1> DEFINE Run(f, n) == Iterates(f, n, V, base, step)
           Runs == {n \in 0 .. last : \E f : Run(f, n)}
<1> USE DEF Iterates
<1>1. 0 \in Runs
  <2> DEFINE g == [i \in {0} |-> base]
  <2>1. Run(g, 0)
    <3>1. 0 .. 0 = {0}
      OBVIOUS
    <3> QED  BY <3>1
  <2> HIDE DEF Run, g
  <2>2. 0 \in 0 .. last
    OBVIOUS
  <2> QED  BY <2>1, <2>2
<1>2. ASSUME NEW n \in 0 .. last - 1, n \in Runs
      PROVE  n + 1 \in Runs
  <2>1. PICK f : Run(f, n)
    BY <1>2
  <2> DEFINE v == step[n + 1][f[n]]
             g == [i \in 0 .. n + 1 |-> IF i = n + 1 THEN v ELSE f[i]]
  <2>2. n + 1 \in 1 .. last /\ n \in Nat /\ n + 1 - 1 = n
    OBVIOUS
  <2>3. v \in V
    <3>1. f[n] \in V
      BY <2>1, <2>2
    <3> QED  BY <3>1, <2>2
  <2> HIDE DEF v
  <2>4. \A i \in 0 .. n + 1 : i = n + 1 \/ i \in 0 .. n
    BY <2>2
  <2>5. \A i \in 1 .. n + 1 : (i = n + 1 \/ i \in 1 .. n) /\ i - 1 \in 0 .. n
    BY <2>2
  <2>6. g \in [0 .. n + 1 -> V]
    BY <2>1, <2>3, <2>4
  <2>7. g[0] = base /\ g[n + 1] = v /\ \A i \in 0 .. n : g[i] = f[i]
    BY <2>1, <2>2
  <2> HIDE DEF g
  <2>8. ASSUME NEW i \in 1 .. n + 1
        PROVE  g[i] = step[i][g[i - 1]]
    <3>1. CASE i \in 1 .. n
      <4>1. i \in 0 .. n /\ i - 1 \in 0 .. n /\ f[i] = step[i][f[i - 1]]
        BY <3>1, <2>1, <2>2
      <4> QED  BY <4>1, <2>7
    <3>2. CASE i = n + 1
      <4>1. n \in 0 .. n
        BY <2>2
      <4> QED  BY <4>1, <3>2, <2>2, <2>7 DEF v
    <3> QED  BY <3>1, <3>2, <2>5
  <2>9. Run(g, n + 1)
    BY <2>6, <2>7, <2>8
  <2> HIDE DEF Run
  <2> QED  BY <2>9, <2>2
<1> HIDE DEF Run
<1>3. last \in Runs
  <2> HIDE DEF Runs
  <2>1. \A n \in 0 .. last : n \in Runs
    BY <1>1, <1>2, UpTo
  <2> QED  BY <2>1
<1> QED  BY <1>3 DEF Run
=============================================================================
