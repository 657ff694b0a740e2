------------------------------ MODULE SharedDB ------------------------------
(***************************************************************************)
(* One directory-backed VectorDB used by several threads.  Every public    *)
(* method takes a side of the lock rw_ for its whole body, but wal_sync(). *)
(* A method body is a chain of actions, one for each container or file it  *)
(* touches, so that a lock that is missing or of the wrong side shows.     *)
(*                                                                         *)
(*   pc[th]: idle --Invoke--> called --Lock--> enter --> ... --> done      *)
(*           --Return--> idle                                              *)
(*                                                                         *)
(* The log is the records since the last truncation, the snapshot an       *)
(* image; crashes and failed calls are DurableStore's.  "settled" is       *)
(* auxiliary: the tables after the last mutator that returned.             *)
(***************************************************************************)
EXTENDS VectorTables, FiniteSets

CONSTANTS
  Threads,
  NoThread,
  Calls,      \* the requests an application may make, see AtomicDB
  Loaded,     \* the row buffers a database is opened with
  Garbage,    \* what a read outside of the row buffer gives
  MaxCalls    \* bound: calls in a behaviour

ASSUME NoThreadAssumption == NoThread \notin Threads

ASSUME RequestsAssumption ==
         /\ Loaded \subseteq Seq(Row)
         /\ \A c \in Calls :
              /\ c.op = "insert" => c.rows \in Seq(Row) /\ c.rows # <<>>
              /\ c.op \in {"remove", "get"} => c.id \in Ids

VARIABLES mem, log, snapshot, closed, settings,   \* the object and its files
          owner, readers,                         \* rw_
          pc, call, local, result,                \* per thread
          settled, calls

object  == <<mem, log, snapshot, closed, settings>>
threads == <<pc, call, local, result>>
vars    == <<object, owner, readers, threads, settled, calls>>

None == <<>>

Init ==
  /\ \E rows \in Loaded :
       /\ snapshot = [rows |-> rows, deleted |-> {}]
       /\ mem = Restore(snapshot)
  /\ log = <<>>
  /\ closed = FALSE
  /\ settings = [wal_sync |-> "checkpoint", ef |-> "default"]
  /\ owner = NoThread /\ readers = {}
  /\ pc = [th \in Threads |-> "idle"]
  /\ call = [th \in Threads |-> None]
  /\ local = [th \in Threads |-> None]
  /\ result = [th \in Threads |-> None]
  /\ settled = mem
  /\ calls = 0

-----------------------------------------------------------------------------
(* The lock.                                                               *)

Mutators == {"insert", "remove", "close", "set", "checkpoint"}

\* Mutant of Side: get() forgets the lock.
SideNoneForGet(c) ==
  IF c.op \in Mutators THEN "exclusive"
  ELSE IF c.op = "get" \/ (c.op = "read" /\ c.field = "wal_sync") THEN "none"
  ELSE "shared"

\* Mutant of Side: checkpoint() takes the shared side, as save() does.
SideSharedForCheckpoint(c) ==
  IF c.op \in Mutators \ {"checkpoint"} THEN "exclusive"
  ELSE IF c.op = "read" /\ c.field = "wal_sync" THEN "none"
  ELSE "shared"

\* The side of rw_ a method takes.
Side(c) ==
  IF c.op \in Mutators THEN "exclusive"
  ELSE IF c.op = "read" /\ c.field = "wal_sync" THEN "none"
  ELSE "shared"

Invoke(th) ==
  /\ pc[th] = "idle" /\ calls < MaxCalls
  /\ pc' = [pc EXCEPT ![th] = "called"]
  /\ \E c \in Calls : call' = [call EXCEPT ![th] = c]
  /\ calls' = calls + 1
  /\ UNCHANGED <<object, owner, readers, local, result, settled>>

\* std::shared_mutex: one owner, or any number of readers.
Lock(th) ==
  /\ pc[th] = "called"
  /\ pc' = [pc EXCEPT ![th] = "enter"]
  /\ CASE Side(call[th]) = "exclusive" ->
            /\ owner = NoThread /\ readers = {}
            /\ owner' = th /\ UNCHANGED readers
       [] Side(call[th]) = "shared" ->
            /\ owner = NoThread
            /\ readers' = readers \cup {th} /\ UNCHANGED owner
       [] OTHER -> UNCHANGED <<owner, readers>>
  /\ UNCHANGED <<object, call, local, result, settled, calls>>

\* The guard's destructor runs when the method returns.
Leave(th, answer) ==
  /\ pc' = [pc EXCEPT ![th] = "done"]
  /\ result' = [result EXCEPT ![th] = answer]
  /\ local' = [local EXCEPT ![th] = None]
  /\ owner' = IF owner = th THEN NoThread ELSE owner
  /\ readers' = readers \ {th}
  /\ UNCHANGED <<call, calls>>

\* On to the next statement with these local variables.
GoTo(th, label, values) ==
  /\ pc' = [pc EXCEPT ![th] = label]
  /\ local' = [local EXCEPT ![th] = values]
  /\ UNCHANGED <<call, result, owner, readers, calls>>

At(th, label, op) == pc[th] = label /\ call[th].op = op

Return(th) ==
  /\ pc[th] = "done"
  /\ pc' = [pc EXCEPT ![th] = "idle"]
  /\ UNCHANGED <<object, owner, readers, call, local, result, settled, calls>>

-----------------------------------------------------------------------------
(* insert and insert_bulk: check, log one record, then for every row map   *)
(* the id, append the row, erase the tombstone.                            *)

Insert(th) ==
  LET rows == call[th].rows
      refused == closed \/ ~UniqueIds(rows)
                 \/ \E id \in RowIds(rows) : IsLive(mem, id)
  IN  /\ At(th, "enter", "insert")
      /\ \/ /\ refused
            /\ Leave(th, IF closed THEN "io_error" ELSE "duplicate")
            /\ UNCHANGED log
         \/ /\ ~refused
            /\ log' = Append(log, call[th])
            /\ GoTo(th, "map", [start |-> Len(mem.rows), row |-> 1])
      /\ UNCHANGED <<mem, snapshot, closed, settings, settled>>

MapId(th) ==
  LET l == local[th]
  IN  /\ pc[th] = "map"
      /\ mem' = [mem EXCEPT !.rowOf[call[th].rows[l.row].id] = l.start + l.row]
      /\ GoTo(th, "add", l)
      /\ UNCHANGED <<log, snapshot, closed, settings, settled>>

AddVector(th) ==
  LET l == local[th]
  IN  /\ pc[th] = "add"
      /\ mem' = [mem EXCEPT !.rows = Append(@, call[th].rows[l.row])]
      /\ GoTo(th, "revive", l)
      /\ UNCHANGED <<log, snapshot, closed, settings, settled>>

Revive(th) ==
  LET l == local[th]
      rows == call[th].rows
  IN  /\ pc[th] = "revive"
      /\ mem' = [mem EXCEPT !.deleted = @ \ {rows[l.row].id}]
      /\ IF l.row < Len(rows)
         THEN GoTo(th, "map", [l EXCEPT !.row = @ + 1]) /\ UNCHANGED settled
         ELSE Leave(th, "ok") /\ settled' = mem'
      /\ UNCHANGED <<log, snapshot, closed, settings>>

-----------------------------------------------------------------------------
(* remove, close, set_wal_sync, set_search_ef                              *)

Remove(th) ==
  LET id == call[th].id
  IN  /\ At(th, "enter", "remove")
      /\ \/ /\ closed \/ ~IsLive(mem, id)
            /\ Leave(th, IF closed THEN "io_error" ELSE "not_found")
            /\ UNCHANGED log
         \/ /\ ~closed /\ IsLive(mem, id)
            /\ log' = Append(log, call[th])
            /\ GoTo(th, "unmap", None)
      /\ UNCHANGED <<mem, snapshot, closed, settings, settled>>

Unmap(th) ==
  /\ pc[th] = "unmap"
  /\ mem' = [mem EXCEPT !.rowOf[call[th].id] = 0]
  /\ GoTo(th, "bury", None)
  /\ UNCHANGED <<log, snapshot, closed, settings, settled>>

Bury(th) ==
  /\ pc[th] = "bury"
  /\ mem' = [mem EXCEPT !.deleted = @ \cup {call[th].id}]
  /\ settled' = mem'
  /\ Leave(th, "ok")
  /\ UNCHANGED <<log, snapshot, closed, settings>>

Close(th) ==
  /\ At(th, "enter", "close")
  /\ closed' = TRUE
  /\ Leave(th, "ok")
  /\ UNCHANGED <<mem, log, snapshot, settings, settled>>

Set(th) ==
  /\ At(th, "enter", "set")
  /\ settings' = [settings EXCEPT ![call[th].field] = call[th].value]
  /\ Leave(th, "ok")
  /\ UNCHANGED <<mem, log, snapshot, closed, settled>>

-----------------------------------------------------------------------------
(* Readers.                                                                *)

Get(th) ==
  LET row == mem.rowOf[call[th].id]
  IN  /\ At(th, "enter", "get")
      /\ IF row = 0 THEN Leave(th, NoVec) ELSE GoTo(th, "read", row)
      /\ UNCHANGED <<object, settled>>

ReadVector(th) ==
  /\ pc[th] = "read"
  /\ Leave(th, IF local[th] \in DOMAIN mem.rows THEN mem.rows[local[th]].vec
               ELSE Garbage)
  /\ UNCHANGED <<object, settled>>

Search(th) ==
  /\ At(th, "enter", "search")
  /\ GoTo(th, "scan", [row |-> 1, hits |-> {}])
  /\ UNCHANGED <<object, settled>>

\* One row of the flat scan, with the skip set.
Scan(th) ==
  LET l == local[th]
  IN  /\ pc[th] = "scan"
      /\ IF l.row \notin DOMAIN mem.rows THEN Leave(th, l.hits)
         ELSE GoTo(th, "scan",
                   [row  |-> l.row + 1,
                    hits |-> IF mem.rows[l.row].id \in mem.deleted THEN l.hits
                             ELSE l.hits \cup {mem.rows[l.row]}])
      /\ UNCHANGED <<object, settled>>

Size(th) ==
  /\ At(th, "enter", "size")
  /\ Leave(th, Cardinality({id \in Ids : IsLive(mem, id)}))
  /\ UNCHANGED <<object, settled>>

Read(th) ==
  /\ At(th, "enter", "read")
  /\ Leave(th, settings[call[th].field])
  /\ UNCHANGED <<object, settled>>

-----------------------------------------------------------------------------
(* save and checkpoint: save_body writes the rows, then the tombstones.    *)

\* Mutant of StartSave: checkpoint() calls save(), which locks again.
StartSaveRelocks(th) ==
  /\ At(th, "enter", "save") \/ (At(th, "enter", "checkpoint") /\ ~closed)
  /\ owner = NoThread
  /\ GoTo(th, "tombstones", mem.rows)
  /\ UNCHANGED <<object, settled>>

StartSave(th) ==
  /\ At(th, "enter", "save") \/ (At(th, "enter", "checkpoint") /\ ~closed)
  /\ GoTo(th, "tombstones", mem.rows)
  /\ UNCHANGED <<object, settled>>

FinishSave(th) ==
  LET image == [rows |-> local[th], deleted |-> mem.deleted]
  IN  /\ pc[th] = "tombstones"
      /\ IF call[th].op = "save" THEN Leave(th, image)
         ELSE GoTo(th, "publish", image)
      /\ UNCHANGED <<object, settled>>

NothingToDo(th) ==
  /\ At(th, "enter", "checkpoint") /\ closed
  /\ Leave(th, "ok")
  /\ UNCHANGED <<object, settled>>

\* The rename, with its fsyncs.
Publish(th) ==
  /\ pc[th] = "publish"
  /\ snapshot' = local[th]
  /\ GoTo(th, "truncate", None)
  /\ UNCHANGED <<mem, log, closed, settings, settled>>

Truncate(th) ==
  /\ pc[th] = "truncate"
  /\ log' = <<>>
  /\ Leave(th, "ok")
  /\ UNCHANGED <<mem, snapshot, closed, settings, settled>>

-----------------------------------------------------------------------------
Proceed(th) ==
  \/ Lock(th) \/ Return(th)
  \/ Insert(th) \/ MapId(th) \/ AddVector(th) \/ Revive(th)
  \/ Remove(th) \/ Unmap(th) \/ Bury(th) \/ Close(th) \/ Set(th)
  \/ Get(th) \/ ReadVector(th) \/ Search(th) \/ Scan(th) \/ Size(th)
  \/ Read(th)
  \/ StartSave(th) \/ FinishSave(th) \/ NothingToDo(th)
  \/ Publish(th) \/ Truncate(th)

Next == \E th \in Threads : Invoke(th) \/ Proceed(th)

\* Every thread that can run is run.  Nothing is assumed of the order in
\* which rw_ admits waiting threads.
Fairness == \A th \in Threads : WF_vars(Proceed(th))

Spec == Init /\ [][Next]_vars /\ Fairness

-----------------------------------------------------------------------------
TypeOK ==
  /\ mem \in Tables /\ settled \in Tables
  /\ snapshot \in Images
  /\ log \in Seq(Calls)
  /\ closed \in BOOLEAN
  /\ owner \in Threads \cup {NoThread}
  /\ readers \subseteq Threads
  /\ \A th \in Threads : pc[th] = "read" => local[th] \in DOMAIN mem.rows

\* Where a thread is for its caller.
AtomicAt ==
  [th \in Threads |-> IF pc[th] \in {"idle", "done"} THEN pc[th] ELSE "called"]

Atomic == INSTANCE AtomicDB WITH tables <- settled, at <- AtomicAt

\* All threads see one sequence of calls, each of which takes effect between
\* its invocation and its return, also wal_sync(), which takes no lock.
Linearizable == Atomic!Spec

\* What a record of the log does to an image.
Redo(image, record) ==
  IF record.op = "insert"
  THEN [rows    |-> image.rows \o record.rows,
        deleted |-> image.deleted \ RowIds(record.rows)]
  ELSE [image EXCEPT !.deleted = @ \cup {record.id}]

\* The image after each number of records.
After(image, records) ==
  LET f[n \in 0 .. Len(records)] ==
        IF n = 0 THEN image ELSE Redo(f[n - 1], records[n])
  IN  f

Replayed(image, records) == After(image, records)[Len(records)]

\* Whenever no call holds the lock, the snapshot and the log hold exactly
\* what memory does: records were logged in the order in which they took
\* effect, and no checkpoint dropped a record its snapshot does not hold.
DiskCoversMemory ==
  owner = NoThread => Replayed(snapshot, log) = SaveImage(mem)

\* With finitely many calls every call returns: no method waits for a lock
\* that it, or a thread waiting for it, holds.
EveryCallReturns == \A th \in Threads : pc[th] = "called" ~> pc[th] = "idle"
=============================================================================
