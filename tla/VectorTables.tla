---------------------------- MODULE VectorTables ----------------------------
(***************************************************************************)
(* The in-memory tables of a VectorDB (db.hpp, FlatIndex) as pure          *)
(* operators: the row buffer, the live-id map row_of_ and the tombstone    *)
(* set deleted_, with the update that insert, insert_bulk, remove, the     *)
(* snapshot writer and the snapshot loader make.                           *)
(*                                                                         *)
(* A row is named by its position in the buffer, counted from 1; position  *)
(* 0 in rowOf stands for "id is not a key of row_of_".  A vector is an     *)
(* opaque value of Vecs.                                                   *)
(***************************************************************************)
EXTENDS Naturals, Sequences

CONSTANTS
  Ids,     \* the 64-bit ids the application uses
  Vecs,    \* the vectors it stores
  NoVec    \* what a lookup of an id that is not live returns

ASSUME NoVecAssumption == NoVec \notin Vecs

Row == [id : Ids, vec : Vecs]

Tables == [rows : Seq(Row), rowOf : [Ids -> Nat], deleted : SUBSET Ids]

\* What a snapshot file stores: payload and ids blocks, then the tombstones.
Images == [rows : Seq(Row), deleted : SUBSET Ids]

EmptyTables == [rows    |-> <<>>,
                rowOf   |-> [id \in Ids |-> 0],
                deleted |-> {}]

IsLive(t, id) == t.rowOf[id] # 0

\* VectorDB::get of every id at once: the map the application sees.
Lookup(t) ==
  [id \in Ids |-> IF IsLive(t, id) THEN t.rows[t.rowOf[id]].vec ELSE NoVec]

-----------------------------------------------------------------------------
(* Updates.  Their callers check the precondition, as in the code.         *)

RowIds(rows) == {rows[i].id : i \in DOMAIN rows}

\* The position of an id in a batch whose ids are distinct.
PositionIn(rows, id) == CHOOSE i \in DOMAIN rows : rows[i].id = id

\* Mutant of AddRow: the row number is taken from the count after the append.
AddRowPastEnd(t, id, vec) ==
  LET rows == Append(t.rows, [id |-> id, vec |-> vec])
  IN  [rows    |-> rows,
       rowOf   |-> [t.rowOf EXCEPT ![id] = Len(rows) + 1],
       deleted |-> t.deleted \ {id}]

\* insert: the fresh row becomes the live one, an older row of a revived id
\* stays in the buffer, the tombstone goes.
AddRow(t, id, vec) ==
  [rows    |-> Append(t.rows, [id |-> id, vec |-> vec]),
   rowOf   |-> [t.rowOf EXCEPT ![id] = Len(t.rows) + 1],
   deleted |-> t.deleted \ {id}]

\* insert_bulk: the same for every row of a batch of distinct ids.
AddBatch(t, batch) ==
  [rows    |-> t.rows \o batch,
   rowOf   |-> [id \in Ids |-> IF id \in RowIds(batch)
                               THEN Len(t.rows) + PositionIn(batch, id)
                               ELSE t.rowOf[id]],
   deleted |-> t.deleted \ RowIds(batch)]

\* Mutant of RemoveRow: the tombstone is forgotten.
RemoveRowNoTombstone(t, id) == [t EXCEPT !.rowOf[id] = 0]

\* remove: the row stays in the buffer behind a tombstone.
RemoveRow(t, id) ==
  [t EXCEPT !.rowOf[id] = 0, !.deleted = @ \cup {id}]

-----------------------------------------------------------------------------
(* Snapshots.                                                              *)

\* Mutant of SaveImage: the tombstones are not written.
SaveImageRowsOnly(t) == [rows |-> t.rows, deleted |-> {}]

\* save_body writes every row of the buffer and the tombstone set; which of
\* two rows of an id is the live one is not written.
SaveImage(t) == [rows |-> t.rows, deleted |-> t.deleted]

EmptyImage == SaveImage(EmptyTables)

UniqueIds(rows) ==
  \A i, j \in DOMAIN rows : rows[i].id = rows[j].id => i = j

\* restore_from_file rebuilds row_of_ from the ids block and refuses the
\* file when an id occurs twice ...
RestoreOK(img) == UniqueIds(img.rows)

\* ... then erases the ids that have a tombstone.
Restore(img) ==
  [rows    |-> img.rows,
   rowOf   |-> [id \in Ids |-> IF id \in RowIds(img.rows) \ img.deleted
                               THEN PositionIn(img.rows, id) ELSE 0],
   deleted |-> img.deleted]

-----------------------------------------------------------------------------
(* Consistency of the three tables.                                        *)

\* Every live id names a row of its own, an id is never both live and
\* deleted, and a row that no lookup reaches is hidden behind a tombstone or
\* was superseded by a live row of the same id.
TablesConsistent(t) ==
  /\ \A id \in Ids :
       IsLive(t, id) => /\ t.rowOf[id] \in DOMAIN t.rows
                        /\ t.rows[t.rowOf[id]].id = id
                        /\ id \notin t.deleted
  /\ RowIds(t.rows) \subseteq {id \in Ids : IsLive(t, id)} \cup t.deleted
=============================================================================
