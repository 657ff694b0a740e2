---------------------------- MODULE DurableStore ----------------------------
(***************************************************************************)
(* A directory-backed VectorDB (VectorDB::open in db.cpp, WalWriter and    *)
(* WalReader in wal.cpp) and the disk under it, across crashes.            *)
(*                                                                         *)
(* Every public mutator runs under the exclusive side of rw_, so at most   *)
(* one operation is in progress; an operation is a chain of actions, one   *)
(* per effect on a file, because a crash can fall between any two of them. *)
(* "phase" is the place reached:                                           *)
(*                                                                         *)
(*   down --OpenDir--> replay --> replayed --AttachWal--> ready            *)
(*   ready --append--> logged --sync--> durable --apply--> ready           *)
(*   ready --> saved --> tmpsynced --> renamed --> dirsynced               *)
(*         --> truncated --> marked --> ready            (checkpoint)      *)
(*   ready --> closed;  refused is an open() that returned kIoError.       *)
(*                                                                         *)
(* The disk: "log" is every frame handed to fwrite; of these the first     *)
(* "flushed" have left the stdio buffer and the first "synced" are on the  *)
(* medium.  snap.cur is the snapshot.bin that programs see, snap.disk the  *)
(* one a power failure would leave.                                        *)
(*                                                                         *)
(* Auxiliary variables (no counterpart in the code): "states" is the       *)
(* history of lookup maps, one per accepted mutation; "base" is the index  *)
(* in it that the start of the log corresponds to; "promised" the last     *)
(* index whose survival of a process or a machine crash was acknowledged;  *)
(* "aligned" is FALSE once the log has lost its place in the history: a    *)
(* frame was accepted behind a torn one (Write), a refused one stayed in   *)
(* the log (SyncFails), a crash took frames that only a snapshot whose     *)
(* rename is not synced still holds (ProcessCrash), or a part of a log     *)
(* that the snapshot covers was replayed over it (AttachWal).  "mishaps"   *)
(* counts the crashes and the failed calls.                                *)
(***************************************************************************)
EXTENDS VectorTables

CONSTANTS
  Policies,    \* WalSync values the application selects
  CrashKinds,  \* subset of {"process", "machine"}
  Faults,      \* subset of {"torn", "append", "ckpt"}
  Ops,         \* subset of {"insert", "bulk", "remove", "reinsert"}
  MaxBatch,    \* bound: rows of one insert_bulk
  MaxStates,   \* bound: length of the history
  MaxLog,      \* bound: frames in the log
  MaxMishaps   \* bound: crashes and failed calls

AllPolicies == {"always", "checkpoint", "close"}

ASSUME PoliciesAssumption == Policies \subseteq AllPolicies
ASSUME BoundsAssumption ==
         /\ MaxBatch \in Nat /\ MaxStates \in Nat
         /\ MaxLog \in Nat /\ MaxMishaps \in Nat

VARIABLES mem, phase, sync, log, flushed, synced, snap, tmp, marker, cursor,
          states, base, promised, aligned, mishaps

files == <<snap, tmp, marker>>
ghost == <<states, base, promised, aligned>>
vars  == <<mem, phase, sync, log, flushed, synced, files, cursor, ghost,
           mishaps>>

-----------------------------------------------------------------------------
(* Frames of the log and their reading.                                    *)

Torn == [op |-> "torn", rows |-> <<>>]

Frames == [op : {"insert", "bulk"}, rows : Seq(Row)]
          \cup [op : {"remove"}, rows : Seq([id : Ids, vec : {NoVec}])]
          \cup {Torn}

InsertFrame(id, vec) == [op |-> "insert", rows |-> <<[id |-> id, vec |-> vec]>>]
BulkFrame(batch)     == [op |-> "bulk", rows |-> batch]
RemoveFrame(id)      == [op   |-> "remove",
                         rows |-> <<[id |-> id, vec |-> NoVec]>>]

\* The tail of insert, insert_bulk and remove: what the accepted frame does
\* to the tables.
Apply(t, frame) ==
  CASE frame.op = "insert" -> AddRow(t, frame.rows[1].id, frame.rows[1].vec)
    [] frame.op = "bulk"   -> AddBatch(t, frame.rows)
    [] frame.op = "remove" -> RemoveRow(t, frame.rows[1].id)
    [] OTHER               -> t

\* One call of insert() or remove() by replay_wal: a duplicate insert and a
\* remove of an unknown id are tolerated and change nothing.
ReplayOne(t, op, row) ==
  IF op = "remove"
  THEN IF IsLive(t, row.id) THEN RemoveRow(t, row.id) ELSE t
  ELSE IF IsLive(t, row.id) THEN t ELSE AddRow(t, row.id, row.vec)

\* WalReader::next returns false at the end of the file and at the first
\* frame that is cut or fails its checksum.
CanRead(n) == n \in DOMAIN log /\ log[n].op # "torn"

\* Frames the replay has read so far.
Read == cursor.rec - 1

-----------------------------------------------------------------------------
(* Snapshot files.  "safe" tells whether the bytes were fsynced; "at" is   *)
(* the auxiliary index of the state the image holds.  A missing file       *)
(* restores like an image of the empty database.                           *)

Files == [kind : {"absent", "image", "broken"}, safe : BOOLEAN,
          image : Images, at : Nat \ {0}]

Absent == [kind |-> "absent", safe |-> TRUE, image |-> EmptyImage, at |-> 1]

\* What a power failure leaves of a file.
AfterPowerLoss(file) ==
  IF file.safe THEN {file} ELSE {file, [file EXCEPT !.kind = "broken"]}

-----------------------------------------------------------------------------
Typed ==
  /\ mem \in Tables
  /\ phase \in {"down", "replay", "replayed", "refused", "ready", "logged",
                "durable", "saved", "tmpsynced", "renamed", "dirsynced",
                "truncated", "marked", "closed"}
  /\ sync \in AllPolicies
  /\ log \in Seq(Frames)
  /\ flushed \in Nat /\ synced \in Nat
  /\ snap \in [cur : Files, disk : Files]
  /\ tmp \in Files
  /\ marker \in {"none", "cached", "durable"}
  /\ cursor \in [rec : Nat \ {0}, row : Nat \ {0}]
  /\ states \in Seq([Ids -> Vecs \cup {NoVec}]) /\ states # <<>>
  /\ base \in Nat \ {0}
  /\ promised \in [process : Nat, machine : Nat]
  /\ aligned \in BOOLEAN
  /\ mishaps \in Nat

\* The replay never indexes past the rows of a record.
CursorOK ==
  phase = "replay" /\ CanRead(cursor.rec) =>
    cursor.row \in DOMAIN log[cursor.rec].rows

TypeOK == Typed /\ CursorOK

Start == [rec |-> 1, row |-> 1]

Init ==
  /\ mem = EmptyTables
  /\ phase = "down"
  /\ sync = "checkpoint"
  /\ log = <<>> /\ flushed = 0 /\ synced = 0
  /\ snap = [cur |-> Absent, disk |-> Absent]
  /\ tmp = Absent
  /\ marker = "none"
  /\ cursor = Start
  /\ states = <<Lookup(EmptyTables)>>
  /\ base = 1
  /\ promised = [process |-> 1, machine |-> 1]
  /\ aligned = TRUE
  /\ mishaps = 0

-----------------------------------------------------------------------------
(* insert, insert_bulk and remove: validate, append to the log, sync,      *)
(* change the tables, return kOk.                                          *)

\* A crash or a failed call.
Mishap == mishaps < MaxMishaps /\ mishaps' = mishaps + 1

\* The calls that pass validation.  The others return before any effect.
\* An id with a tombstone is accepted again; a workload without "reinsert"
\* does not do it.
MayInsert(id) ==
  ~IsLive(mem, id) /\ ("reinsert" \in Ops \/ id \notin mem.deleted)

Batches == UNION {[1 .. n -> Row] : n \in 1 .. MaxBatch}

Accepts(frame) ==
  \/ /\ "insert" \in Ops
     /\ \E id \in Ids, vec \in Vecs :
          MayInsert(id) /\ frame = InsertFrame(id, vec)
  \/ /\ "bulk" \in Ops
     /\ \E batch \in Batches :
          /\ UniqueIds(batch)
          /\ \A id \in RowIds(batch) : MayInsert(id)
          /\ frame = BulkFrame(batch)
  \/ /\ "remove" \in Ops
     /\ \E id \in Ids : IsLive(mem, id) /\ frame = RemoveFrame(id)

Requests == {InsertFrame(id, vec) : id \in Ids, vec \in Vecs}
            \cup {BulkFrame(batch) : batch \in Batches}
            \cup {RemoveFrame(id) : id \in Ids}

\* The application picks its policy before it writes.
CanWrite == phase = "ready" /\ sync \in Policies /\ Len(log) < MaxLog

\* wal_.append succeeded.  A frame behind a torn one will never be read.
Write(frame) ==
  /\ CanWrite /\ Len(states) < MaxStates
  /\ Accepts(frame)
  /\ phase' = "logged"
  /\ log' = Append(log, frame)
  /\ states' = Append(states, Lookup(Apply(mem, frame)))
  /\ aligned' = (aligned /\ \A k \in DOMAIN log : log[k].op # "torn")
  /\ UNCHANGED <<mem, sync, flushed, synced, files, cursor, base, promised,
                 mishaps>>

\* wal_.append returned false: the frame is gone or cut; kIoError.
AppendFails(frame) ==
  /\ "append" \in Faults /\ Mishap
  /\ CanWrite
  /\ Accepts(frame)
  /\ log' \in {log, Append(log, Torn)}
  /\ UNCHANGED <<mem, phase, sync, flushed, synced, files, cursor, ghost>>

\* Mutant of SyncRecord: only kSyncAlways flushes the stdio buffer.
SyncOnlyAlways ==
  /\ phase = "logged"
  /\ phase' = "durable"
  /\ flushed' = IF sync = "always" THEN Len(log) ELSE flushed
  /\ synced'  = IF sync = "always" THEN Len(log) ELSE synced
  /\ UNCHANGED <<mem, sync, log, files, cursor, ghost, mishaps>>

\* wal_.sync(sync_): nothing, fflush, or fflush and fsync.
SyncRecord ==
  /\ phase = "logged"
  /\ phase' = "durable"
  /\ flushed' = IF sync = "close" THEN flushed ELSE Len(log)
  /\ synced'  = IF sync = "always" THEN Len(log) ELSE synced
  /\ UNCHANGED <<mem, sync, log, files, cursor, ghost, mishaps>>

\* wal_.sync returned false: the caller gets kIoError and no row is added,
\* but the frame stays in the log.
SyncFails ==
  /\ "append" \in Faults /\ Mishap
  /\ phase = "logged" /\ sync # "close"
  /\ phase' = "ready"
  /\ states' = SubSeq(states, 1, Len(states) - 1)
  /\ aligned' = FALSE
  /\ UNCHANGED <<mem, sync, log, flushed, synced, files, cursor, base,
                 promised>>

\* The tables change and the call returns kOk.  What is promised depends on
\* the policy: "always" survives every crash, "checkpoint" a process crash.
ApplyRecord ==
  /\ phase = "durable"
  /\ phase' = "ready"
  /\ mem' = Apply(mem, log[Len(log)])
  /\ promised' =
       [process |-> IF sync = "close" THEN promised.process ELSE Len(states),
        machine |-> IF sync = "always" THEN Len(states) ELSE promised.machine]
  /\ UNCHANGED <<sync, log, flushed, synced, files, cursor, states, base,
                 aligned, mishaps>>

SetPolicy(policy) ==
  /\ phase = "ready"
  /\ sync' = policy
  /\ UNCHANGED <<mem, phase, log, flushed, synced, files, cursor, ghost,
                 mishaps>>

-----------------------------------------------------------------------------
(* checkpoint                                                              *)

SaveTmp ==
  /\ phase = "ready"
  /\ phase' = "saved"
  /\ tmp' = [kind |-> "image", safe |-> FALSE, image |-> SaveImage(mem),
             at |-> Len(states)]
  /\ UNCHANGED <<mem, sync, log, flushed, synced, snap, marker, cursor, ghost,
                 mishaps>>

\* Mutant of FsyncTmp: the fsync of the temporary file is left out.
SkipFsyncTmp ==
  /\ phase = "saved"
  /\ phase' = "tmpsynced"
  /\ UNCHANGED <<mem, sync, log, flushed, synced, files, cursor, ghost, mishaps>>

FsyncTmp ==
  /\ phase = "saved"
  /\ phase' = "tmpsynced"
  /\ tmp' = [tmp EXCEPT !.safe = TRUE]
  /\ UNCHANGED <<mem, sync, log, flushed, synced, snap, marker, cursor, ghost,
                 mishaps>>

Rename ==
  /\ phase = "tmpsynced"
  /\ phase' = "renamed"
  /\ snap' = [snap EXCEPT !.cur = tmp]
  /\ tmp' = Absent
  /\ UNCHANGED <<mem, sync, log, flushed, synced, marker, cursor, ghost,
                 mishaps>>

\* Mutant of FsyncDir: the fsync of the directory is left out.
SkipFsyncDir ==
  /\ phase = "renamed"
  /\ phase' = "dirsynced"
  /\ UNCHANGED <<mem, sync, log, flushed, synced, files, cursor, ghost, mishaps>>

\* The directory's entries reach the medium: the renamed snapshot, and a
\* marker an earlier checkpoint failed to sync.
FsyncDir ==
  /\ phase = "renamed"
  /\ phase' = "dirsynced"
  /\ snap' = [snap EXCEPT !.disk = snap.cur]
  /\ marker' = IF marker = "cached" THEN "durable" ELSE marker
  /\ UNCHANGED <<mem, sync, log, flushed, synced, tmp, cursor, ghost, mishaps>>

\* Mutant of TruncateLog: the log is emptied before the directory is synced.
TruncateEarly ==
  /\ phase = "renamed"
  /\ phase' = "truncated"
  /\ log' = <<>> /\ flushed' = 0 /\ synced' = 0
  /\ base' = Len(states)
  /\ aligned' = TRUE
  /\ UNCHANGED <<mem, sync, files, cursor, states, promised, mishaps>>

\* WalWriter::truncate: freopen with "wb", fsync of the empty file.  A power
\* failure between the two leaves what FsyncDir left.
TruncateLog ==
  /\ phase = "dirsynced"
  /\ phase' = "truncated"
  /\ log' = <<>> /\ flushed' = 0 /\ synced' = 0
  /\ base' = Len(states)
  /\ aligned' = TRUE
  /\ UNCHANGED <<mem, sync, files, cursor, states, promised, mishaps>>

CreateMarker ==
  /\ phase = "truncated"
  /\ phase' = "marked"
  /\ marker' = IF marker = "none" THEN "cached" ELSE marker
  /\ UNCHANGED <<mem, sync, log, flushed, synced, snap, tmp, cursor, ghost,
                 mishaps>>

\* checkpoint() returns kOk: every accepted write is on the medium.
FsyncMarker ==
  /\ phase = "marked"
  /\ phase' = "ready"
  /\ marker' = "durable"
  /\ promised' = [process |-> Len(states), machine |-> Len(states)]
  /\ UNCHANGED <<mem, sync, log, flushed, synced, snap, tmp, cursor, states,
                 base, aligned, mishaps>>

\* The step after "phase" failed: checkpoint() returns kIoError with the
\* effects of the steps before.  A failed directory sync may still have
\* reached the medium.
CheckpointFails ==
  /\ "ckpt" \in Faults /\ Mishap
  /\ phase \in {"saved", "tmpsynced", "renamed", "truncated", "marked"}
  /\ phase' = "ready"
  /\ \/ UNCHANGED snap
     \/ phase = "renamed" /\ snap' = [snap EXCEPT !.disk = snap.cur]
  /\ tmp' = Absent
  /\ UNCHANGED <<mem, sync, log, flushed, synced, marker, cursor, ghost>>

-----------------------------------------------------------------------------
(* close, and the end of the process                                       *)

\* Mutators called after close() return kIoError without an effect.
Close ==
  /\ phase = "ready"
  /\ phase' = "closed"
  /\ flushed' = Len(log) /\ synced' = Len(log)
  /\ promised' = [process |-> Len(states), machine |-> Len(states)]
  /\ UNCHANGED <<mem, sync, log, files, cursor, states, base, aligned, mishaps>>

\* What lives in the VectorDB object is gone; a fresh one has the policy
\* kSyncOnCheckpoint.
ObjectGone == mem' = EmptyTables /\ sync' = "checkpoint" /\ cursor' = Start

\* The VectorDB is destroyed; ~WalWriter flushes the stdio buffer.  After a
\* refused open() the application may try again.
Exit ==
  /\ phase \in {"ready", "closed", "refused"}
  /\ phase' = "down"
  /\ ObjectGone
  /\ flushed' = Len(log)
  /\ UNCHANGED <<log, synced, files, ghost, mishaps>>

\* The log after a crash: at least the first "kept" frames, then any number
\* of the others (stdio and the kernel write the buffer back when they like),
\* the last of which may be cut.
Remains(kept) ==
  {SubSeq(log, 1, k) : k \in kept .. Len(log)}
  \cup (IF "torn" \in Faults
        THEN {Append(SubSeq(log, 1, k), Torn) : k \in kept .. Len(log) - 1}
        ELSE {})

CanCrash(kind) == kind \in CrashKinds /\ Mishap

\* A log that does not reach from the snapshot on the medium to the one that
\* was renamed over it: frames that stdio still held are gone.
Orphans(remaining) ==
  /\ snap.disk.at < snap.cur.at
  /\ \E k \in 1 .. snap.cur.at - base :
       k \notin DOMAIN remaining \/ remaining[k].op = "torn"

\* The process dies: what was handed to the kernel is still there.
ProcessCrash ==
  /\ CanCrash("process")
  /\ phase \notin {"down", "refused"}
  /\ phase' = "down"
  /\ ObjectGone
  /\ log' \in Remains(flushed)
  /\ flushed' = Len(log')
  /\ tmp' = Absent      \* a leftover snapshot.bin.tmp is never read
  /\ aligned' = (aligned /\ ~Orphans(log'))
  /\ UNCHANGED <<synced, snap, marker, states, base, promised>>

\* The machine stops: only what reached the medium is sure to be there.
MachineCrash ==
  /\ CanCrash("machine")
  /\ phase' = "down"
  /\ ObjectGone
  /\ log' \in Remains(synced)
  /\ flushed' = Len(log') /\ synced' = Len(log')
  /\ \E file \in AfterPowerLoss(snap.cur) \cup AfterPowerLoss(snap.disk) :
       snap' = [cur |-> file, disk |-> file]
  /\ tmp' = Absent
  /\ \/ UNCHANGED marker
     \/ marker = "cached" /\ marker' \in {"none", "durable"}
  /\ promised' = [promised EXCEPT !.process = promised.machine]
  /\ UNCHANGED <<states, base, aligned>>

-----------------------------------------------------------------------------
(* open: check the marker, restore the snapshot, replay, attach            *)

\* With a marker there was a snapshot: refuse to open without it.
Refuses ==
  \/ marker # "none" /\ snap.cur.kind = "absent"
  \/ snap.cur.kind = "broken"
  \/ ~RestoreOK(snap.cur.image)

OpenDir ==
  /\ phase = "down"
  /\ IF Refuses
     THEN phase' = "refused" /\ UNCHANGED mem
     ELSE phase' = "replay" /\ mem' = Restore(snap.cur.image)
  /\ cursor' = Start
  /\ UNCHANGED <<sync, log, flushed, synced, files, ghost, mishaps>>

\* Mutant of ReplayRow: the loop over the rows of a record goes one too far.
ReplayRowPastEnd ==
  /\ phase = "replay"
  /\ CanRead(cursor.rec)
  /\ LET frame == log[cursor.rec]
     IN  /\ mem' = ReplayOne(mem, frame.op, frame.rows[cursor.row])
         /\ cursor' = IF cursor.row <= Len(frame.rows)
                      THEN [cursor EXCEPT !.row = @ + 1]
                      ELSE [rec |-> cursor.rec + 1, row |-> 1]
  /\ UNCHANGED <<phase, sync, log, flushed, synced, files, ghost, mishaps>>

\* Mutant of ReplayRow: a record is taken for a single row.
ReplayFirstRow ==
  /\ phase = "replay"
  /\ CanRead(cursor.rec)
  /\ LET frame == log[cursor.rec]
     IN  /\ mem' = ReplayOne(mem, frame.op, frame.rows[cursor.row])
         /\ cursor' = [rec |-> cursor.rec + 1, row |-> 1]
  /\ UNCHANGED <<phase, sync, log, flushed, synced, files, ghost, mishaps>>

\* replay_wal, one row at a time: a bulk record is inserted row by row.
ReplayRow ==
  /\ phase = "replay"
  /\ CanRead(cursor.rec)
  /\ LET frame == log[cursor.rec]
     IN  /\ mem' = ReplayOne(mem, frame.op, frame.rows[cursor.row])
         /\ cursor' = IF cursor.row < Len(frame.rows)
                      THEN [cursor EXCEPT !.row = @ + 1]
                      ELSE [rec |-> cursor.rec + 1, row |-> 1]
  /\ UNCHANGED <<phase, sync, log, flushed, synced, files, ghost, mishaps>>

ReplayDone ==
  /\ phase = "replay"
  /\ ~CanRead(cursor.rec)
  /\ phase' = "replayed"
  /\ UNCHANGED <<mem, sync, log, flushed, synced, files, cursor, ghost,
                 mishaps>>

\* The index of the recovered state: what the snapshot and the read part of
\* the log reach between them.
Larger(a, b) == IF a > b THEN a ELSE b
Lesser(a, b) == IF a < b THEN a ELSE b
Recovered == Lesser(Len(states), Larger(snap.cur.at, base + Read))

\* Some, but not all, of a log that the snapshot already covers was read.
StaleLog == base + Read < snap.cur.at

\* wal_.open with mode "ab": new frames go behind whatever the file holds.
\* History starts over from the recovered state; after a partly read stale
\* log the next frame has no place in it.
AttachWal ==
  /\ phase = "replayed"
  /\ phase' = "ready"
  /\ states' = Append(SubSeq(states, 1, Recovered - 1), Lookup(mem))
  /\ base' = IF Read = 0 THEN Recovered ELSE base
  /\ promised' = [process |-> Lesser(promised.process, Recovered),
                  machine |-> Lesser(promised.machine, Recovered)]
  /\ aligned' = (aligned /\ (Read > 0 => ~StaleLog))
  /\ cursor' = Start
  /\ UNCHANGED <<mem, sync, log, flushed, synced, files, mishaps>>

-----------------------------------------------------------------------------
Mutate ==
  \/ \E frame \in Requests : Write(frame) \/ AppendFails(frame)
  \/ SyncRecord
  \/ SyncFails
  \/ ApplyRecord
  \/ \E policy \in Policies : SetPolicy(policy)

Checkpoint ==
  \/ SaveTmp
  \/ FsyncTmp
  \/ Rename
  \/ FsyncDir
  \/ TruncateLog
  \/ CreateMarker
  \/ FsyncMarker
  \/ CheckpointFails

Recover ==
  \/ OpenDir
  \/ ReplayRow
  \/ ReplayDone
  \/ AttachWal

Environment ==
  \/ Close
  \/ Exit
  \/ ProcessCrash
  \/ MachineCrash

Next == Mutate \/ Checkpoint \/ Recover \/ Environment

Spec == Init /\ [][Next]_vars

-----------------------------------------------------------------------------
(* Properties                                                              *)

\* At every moment the three tables agree: what lookups, searches and
\* snapshots are computed from is one consistent set of rows.
TablesOK == TablesConsistent(mem)

\* "kSyncAlways: a crash loses nothing that was acknowledged" (db.hpp): what
\* open() has recovered is the state after some accepted mutation not older
\* than the last one that was promised to survive.
PromiseKept ==
  phase = "replayed" =>
    \E i \in promised.process .. Len(states) : Lookup(mem) = states[i]

\* What recovery gives under every policy, as long as the log has kept its
\* place in the history ("aligned") and is not shorter than the snapshot:
\* exactly the state after the last frame read, and that state is no older
\* than the promise.
RecoveryContract ==
  phase = "replayed" /\ aligned /\ ~StaleLog =>
    /\ base + Read \in promised.process .. Len(states)
    /\ Lookup(mem) = states[base + Read]

\* Between the first frame of the log and the snapshot that open() would
\* restore, or that a power failure would leave, no write is missing.  It
\* takes a process crash under kSyncOnClose, between the rename and the
\* directory sync of a checkpoint, to make such a hole (see ProcessCrash).
NoGap == aligned => base <= snap.disk.at /\ base <= snap.cur.at

\* "Restores a database previously written by save()" (db.hpp): open() never
\* refuses the directory the engine left.
Reopenable == phase # "refused"

\* Crashes, cut frames and failed calls never make open() refuse for a
\* snapshot that is cut, not synced or missing behind its marker.  When it
\* refuses, an id occurs twice in a whole snapshot that the engine wrote
\* itself; Reopenable tells how it comes to that without any reinsertion.
OnlyRepeatsRefused ==
  phase = "refused" =>
    snap.cur.kind = "image" /\ ~UniqueIds(snap.cur.image.rows)

\* A running engine empties the log only when the snapshot that a power
\* failure would leave is intact and holds everything accepted so far.
DropOnlyDurable ==
  [][phase # "down" /\ phase' # "down" /\ Len(log') < Len(log)
       => /\ snap.disk.kind = "image" /\ snap.disk.safe
          /\ snap.disk.image = SaveImage(mem)]_vars
=============================================================================
