------------------------------ MODULE VectorDB ------------------------------
(***************************************************************************)
(* A detached VectorDB (db.hpp) of kind kFlatIndex: the write path, point  *)
(* lookup, exact search and save / load.                                   *)
(*                                                                         *)
(* load() does not copy the rows: FlatIndex::adopt points into a private   *)
(* read-only mapping of the file, and the first row added afterwards       *)
(* copies them (materialise).  "view" names the file the rows are still    *)
(* read from, or NoPath.  Writing that file under the mapping takes the    *)
(* rows away; "faulted" is a database whose rows are gone.                 *)
(***************************************************************************)
EXTENDS VectorTables, Integers, SequencesExt

CONSTANTS
  Paths,     \* file names the application saves to
  NoPath,
  Ops,       \* subset of {"insert", "bulk", "remove", "reinsert"}
  MaxBatch,  \* bound: rows of one insert_bulk
  MaxRows    \* bound: rows in the buffer

ASSUME PathsAssumption == NoPath \notin Paths
ASSUME VectorsAreNumbers == Vecs \subseteq Int
ASSUME SizesAssumption == MaxBatch \in Nat /\ MaxRows \in Nat

VARIABLES mem, view, faulted, files

vars == <<mem, view, faulted, files>>

\* save_body of a detached database; a path nobody wrote is Missing, one
\* whose writing failed is Broken.
Missing == [kind |-> "missing", image |-> EmptyImage]
Broken  == [kind |-> "broken", image |-> EmptyImage]
Saved(t) == [kind |-> "image", image |-> SaveImage(t)]

Typed ==
  /\ mem \in Tables
  /\ view \in Paths \cup {NoPath}
  /\ faulted \in BOOLEAN
  /\ files \in [Paths -> [kind : {"missing", "broken", "image"},
                          image : Images]]

\* No lookup reads beyond the row buffer.
TypeOK == Typed /\ \A id \in Ids : mem.rowOf[id] \in 0 .. Len(mem.rows)

Init ==
  /\ mem = EmptyTables
  /\ view = NoPath
  /\ faulted = FALSE
  /\ files = [p \in Paths |-> Missing]

-----------------------------------------------------------------------------
(* Write path                                                              *)

Free(id) == ~IsLive(mem, id) /\ ("reinsert" \in Ops \/ id \notin mem.deleted)

\* Mutant of Insert: the rows are extended without being copied first.
InsertUncopied(id, vec) ==
  /\ "insert" \in Ops
  /\ ~faulted /\ Len(mem.rows) < MaxRows
  /\ Free(id)
  /\ mem' = AddRow(mem, id, vec)
  /\ UNCHANGED <<view, faulted, files>>

Insert(id, vec) ==
  /\ "insert" \in Ops
  /\ ~faulted /\ Len(mem.rows) < MaxRows
  /\ Free(id)
  /\ mem' = AddRow(mem, id, vec)
  /\ view' = NoPath
  /\ UNCHANGED <<faulted, files>>

InsertBulk(batch) ==
  /\ "bulk" \in Ops
  /\ ~faulted /\ Len(mem.rows) + Len(batch) <= MaxRows
  /\ UniqueIds(batch)
  /\ \A id \in RowIds(batch) : Free(id)
  /\ mem' = AddBatch(mem, batch)
  /\ view' = NoPath
  /\ UNCHANGED <<faulted, files>>

\* The rows are not touched: a view stays a view.
Delete(id) ==
  /\ "remove" \in Ops
  /\ IsLive(mem, id)
  /\ mem' = RemoveRow(mem, id)
  /\ UNCHANGED <<view, faulted, files>>

-----------------------------------------------------------------------------
(* Persistence                                                             *)

\* The file is truncated before the rows are written: when they are read
\* from that very file there is nothing left to write, and nothing to serve.
Save(p) ==
  /\ ~faulted
  /\ IF view = p /\ mem.rows # <<>>
     THEN files' = [files EXCEPT ![p] = Broken] /\ faulted' = TRUE
     ELSE files' = [files EXCEPT ![p] = Saved(mem)] /\ UNCHANGED faulted
  /\ UNCHANGED <<mem, view>>

\* A successful load replaces the object; a refused one leaves it alone.
Load(p) ==
  /\ files[p].kind = "image"
  /\ RestoreOK(files[p].image)
  /\ mem' = Restore(files[p].image)
  /\ view' = p
  /\ faulted' = FALSE
  /\ UNCHANGED files

Batches == UNION {[1 .. n -> Row] : n \in 1 .. MaxBatch}

Next ==
  \/ \E id \in Ids, vec \in Vecs : Insert(id, vec)
  \/ \E batch \in Batches : InsertBulk(batch)
  \/ \E id \in Ids : Delete(id)
  \/ \E p \in Paths : Save(p)
  \/ \E p \in Paths : Load(p)

Spec == Init /\ [][Next]_vars

-----------------------------------------------------------------------------
(* FlatIndex::search                                                       *)

Distance(q, vec) == IF q > vec THEN q - vec ELSE vec - q

\* Where a row goes among those found, nearest first: behind all as near.
Place(q, best, row) ==
  CHOOSE p \in 1 .. Len(best) + 1 :
    /\ \A i \in 1 .. p - 1 : Distance(q, best[i].vec) <= Distance(q, row.vec)
    /\ \A i \in p .. Len(best) : Distance(q, best[i].vec) > Distance(q, row.vec)

\* The k best with one row more.
Keep(q, k, best, row) ==
  LET grown == InsertAt(best, Place(q, best, row), row)
  IN  SubSeq(grown, 1, IF Len(grown) > k THEN k ELSE Len(grown))

Full(q, k, best, row) ==
  Len(best) = k /\ Distance(q, row.vec) >= Distance(q, Last(best).vec)

\* Mutant of Consider: the skip set is not looked at.
ConsiderAll(q, k, best, row) ==
  IF Full(q, k, best, row) THEN best ELSE Keep(q, k, best, row)

\* One row of the scan; "best" is the heap.
Consider(q, k, best, row) ==
  IF Full(q, k, best, row) \/ row.id \in mem.deleted THEN best
  ELSE Keep(q, k, best, row)

\* The heap after each number of rows.
ScanRows(q, k) ==
  LET best[n \in 0 .. Len(mem.rows)] ==
        IF n = 0 THEN <<>> ELSE Consider(q, k, best[n - 1], mem.rows[n])
  IN  best

FlatSearch(q, k) == IF k = 0 THEN <<>> ELSE ScanRows(q, k)[Len(mem.rows)]

-----------------------------------------------------------------------------
(* Properties                                                              *)

LiveIds == {id \in Ids : IsLive(mem, id)}

\* "k-NN search over all live (non-deleted) vectors ... exact ... at most k
\* hits sorted by ascending distance" (db.hpp): hits are distinct live ids
\* with the vector that get() returns, as many as there are up to k, and no
\* live id that was left out is nearer than one that was returned.
SearchExact ==
  ~faulted =>
    \A q \in Vecs, k \in 0 .. MaxRows :
      LET hits == FlatSearch(q, k)
          Far(id) == Distance(q, Lookup(mem)[id])
      IN  /\ UniqueIds(hits)
          /\ \A i \in DOMAIN hits : hits[i].id \in LiveIds
                                    /\ hits[i].vec = Lookup(mem)[hits[i].id]
          /\ Len(hits) = k \/ RowIds(hits) = LiveIds
          /\ \A i, j \in DOMAIN hits : i < j => Far(hits[i].id) <= Far(hits[j].id)
          /\ \A i \in DOMAIN hits, id \in LiveIds \ RowIds(hits) :
               Far(hits[i].id) <= Far(id)

\* Whatever sequence of writes, saves and loads came before, a file that was
\* saved can be loaded, and gives back what lookups saw when it was saved,
\* unless it is the file the rows were still read from.
SavedIsLoadable ==
  [][\A p \in Paths \ {view} : files'[p] # files[p] =>
       /\ files'[p].kind = "image"
       /\ RestoreOK(files'[p].image)
       /\ Lookup(Restore(files'[p].image)) = Lookup(mem)
       /\ Restore(files'[p].image).deleted = mem.deleted]_vars

\* A loaded database reads its rows from the file until its first insert:
\* what that file holds is still what the lookups rely on, and nothing but
\* saving to it takes the rows away.
ViewBacked ==
  view # NoPath /\ ~faulted => files[view].kind = "image" /\ files[view].image.rows = mem.rows
=============================================================================
