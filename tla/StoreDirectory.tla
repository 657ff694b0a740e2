--------------------------- MODULE StoreDirectory ---------------------------
(***************************************************************************)
(* The files of a database directory and their directory entries:          *)
(* starry.meta, snapshot.bin, wal.log and checkpoint.ok.  VectorDB::open   *)
(* resolves the schema from them, VectorDB::checkpoint replaces them, and  *)
(* crashes, power failures and an operator come in between.  What is in a  *)
(* frame or an image is DurableStore's subject: here a mutation is a       *)
(* member of Writes, logged under kSyncAlways.                             *)
(*                                                                         *)
(* "disk" is what programs see, "hard" what is certain to survive a power  *)
(* failure: fsync of a file makes its bytes certain if its directory entry *)
(* is, fsync of the directory makes the entries certain.                   *)
(*                                                                         *)
(* Auxiliary: "acked" are the acknowledged writes; "owed" those of them    *)
(* that must be served from now on and "truth" the schema they were stored *)
(* under.  A power failure before a checkpoint has synced the directory    *)
(* once ("secured") can take any file, and the writes in it with it; one   *)
(* that leaves a log but nothing to tell its schema makes it "orphaned".   *)
(***************************************************************************)
EXTENDS Naturals

CONSTANTS
  Schemas,     \* records [dim, metric, kind]
  Writes,      \* the mutations, each made once
  Old,         \* the write that a directory of an older version holds
  Absent,      \* no such file; no explicit schema
  Empty,       \* starry.meta without its 32 bytes
  Faults,      \* subset of {"call", "crash", "power", "operator"}
  MaxMishaps   \* bound: faults in a behaviour

ASSUME DirectoryAssumption ==
         /\ Absent \notin Schemas /\ Empty \notin Schemas /\ Absent # Empty
         /\ Old \notin Writes
         /\ MaxMishaps \in Nat

VARIABLES disk, hard,
          phase,    \* of the process: where it is in open() or checkpoint()
          asked,    \* the explicit schema given to open()
          schema,   \* the schema resolved
          rows,     \* the writes in memory
          answer,   \* what the last open() returned
          acked, owed, truth, secured, orphaned, mishaps

ghost == <<acked, owed, truth, secured, orphaned>>
vars  == <<disk, hard, phase, asked, schema, rows, answer, ghost, mishaps>>

Snapshots == [schema : Schemas, rows : SUBSET (Writes \cup {Old})]
Logs      == SUBSET [write : Writes, dim : {s.dim : s \in Schemas}]

\* No file looks as if it were missing.
ASSUME AbsentAssumption ==
         (\A snap \in Snapshots : snap # Absent) /\ (\A log \in Logs : log # Absent)

Fresh     == [meta |-> Absent, snap |-> Absent, log |-> Absent, ok |-> FALSE]
\* A layout from before starry.meta: a snapshot alone.
Legacy(s) == [Fresh EXCEPT !.snap = [schema |-> s, rows |-> {Old}]]

Init ==
  /\ \/ disk = Fresh /\ truth = Absent /\ owed = {}
     \/ \E s \in Schemas : disk = Legacy(s) /\ truth = s /\ owed = {Old}
  /\ hard = disk
  /\ acked = owed /\ secured = FALSE /\ orphaned = FALSE
  /\ phase = "down"
  /\ asked = Absent /\ schema = Absent /\ rows = {} /\ answer = "none"
  /\ mishaps = 0

\* fsync of one file: certain once its entry is.
Synced(file, content) ==
  IF hard[file] = Absent THEN hard ELSE [hard EXCEPT ![file] = content]

-----------------------------------------------------------------------------
(* open                                                                    *)

Open ==
  /\ phase = "down"
  /\ phase' = "resolve"
  /\ asked' \in Schemas \cup {Absent}
  /\ UNCHANGED <<disk, hard, schema, rows, answer, ghost, mishaps>>

Refuse(status) ==
  /\ phase' = "down"
  /\ answer' = status

\* Mutant of Offered: an explicit schema goes before the snapshot's.
OfferedAskedFirst ==
  IF asked = Absent /\ disk.snap # Absent THEN disk.snap.schema ELSE asked

\* The schema of a directory without a readable starry.meta: that in the
\* header of the snapshot, else the caller's.
Offered == IF disk.snap # Absent THEN disk.snap.schema ELSE asked

\* Mutant of Unknown: a starry.meta that cannot be read is an error.
UnknownIfEmpty == Offered = Absent \/ disk.meta = Empty

\* Mutant of Unknown: without any schema, go on.
UnknownNever == FALSE

\* "Fresh directory, no schema anywhere: refuse to guess."
Unknown == Offered = Absent

\* starry.meta wins.  Else write_meta begins: it truncates or creates it.
Resolve ==
  /\ phase = "resolve"
  /\ \/ /\ disk.meta \in Schemas
        /\ phase' = "check"
        /\ schema' = disk.meta
        /\ UNCHANGED <<disk, answer>>
     \/ /\ disk.meta \notin Schemas /\ Unknown
        /\ Refuse("invalid")
        /\ UNCHANGED <<disk, schema>>
     \/ /\ disk.meta \notin Schemas /\ ~Unknown
        /\ phase' = "create"
        /\ schema' = Offered
        /\ disk' = [disk EXCEPT !.meta = Empty]
        /\ UNCHANGED answer
  /\ UNCHANGED <<hard, asked, rows, ghost, mishaps>>

\* The rest of write_meta: write, flush, fsync of the file.
WriteMeta ==
  /\ phase = "create"
  /\ phase' = "check"
  /\ disk' = [disk EXCEPT !.meta = schema]
  /\ hard' = Synced("meta", schema)
  /\ UNCHANGED <<asked, schema, rows, answer, ghost, mishaps>>

Mishap(kind) == kind \in Faults /\ mishaps < MaxMishaps /\ mishaps' = mishaps + 1

WriteMetaFails ==
  /\ Mishap("call")
  /\ phase = "create"
  /\ Refuse("io_error")
  /\ \E content \in {Empty, schema} : disk' = [disk EXCEPT !.meta = content]
  /\ UNCHANGED <<hard, asked, schema, rows, ghost>>

Conflict == asked # Absent /\ asked # schema

\* The snapshot was lost, or belongs to another schema (restore_from_file
\* compares the metric and the dimension), or the log does.
Unusable ==
  \/ disk.ok /\ disk.snap = Absent
  \/ /\ disk.snap # Absent
     /\ disk.snap.schema.dim # schema.dim \/ disk.snap.schema.metric # schema.metric
  \/ /\ disk.log # Absent
     /\ \E frame \in disk.log : frame.dim # schema.dim

Logged == IF disk.log = Absent THEN {} ELSE {f.write : f \in disk.log}

\* The writes that the files hold.
Stored == (IF disk.snap = Absent THEN {} ELSE disk.snap.rows) \cup Logged

\* The checks of open, then snapshot and log.  A missing log is an empty one.
Recover ==
  /\ phase = "check"
  /\ \/ Conflict /\ Refuse("invalid") /\ UNCHANGED rows
     \/ ~Conflict /\ Unusable /\ Refuse("io_error") /\ UNCHANGED rows
     \/ /\ ~Conflict /\ ~Unusable
        /\ rows' = Stored
        /\ phase' = "attach" /\ UNCHANGED answer
  /\ UNCHANGED <<disk, hard, asked, schema, ghost, mishaps>>

\* wal_.open creates the log if there is none.
Attach ==
  /\ phase = "attach"
  /\ phase' = "ready"
  /\ answer' = "ok"
  /\ disk' = [disk EXCEPT !.log = IF @ = Absent THEN {} ELSE @]
  /\ UNCHANGED <<hard, asked, schema, rows, ghost, mishaps>>

-----------------------------------------------------------------------------
(* Writing and checkpoint.                                                 *)

\* One mutation under kSyncAlways: appended, fsynced, acknowledged.
Write(w) ==
  LET log == disk.log \cup {[write |-> w, dim |-> schema.dim]}
  IN  /\ phase = "ready" /\ w \notin acked
      /\ disk' = [disk EXCEPT !.log = log]
      /\ hard' = Synced("log", log)
      /\ rows' = rows \cup {w}
      /\ acked' = acked \cup {w}
      /\ owed' = owed \cup {w}
      /\ truth' = schema
      /\ UNCHANGED <<phase, asked, schema, answer, secured, orphaned, mishaps>>

\* snapshot.bin.tmp is written, fsynced and renamed.
Publish ==
  /\ phase = "ready"
  /\ phase' = "renamed"
  /\ disk' = [disk EXCEPT !.snap = [schema |-> schema, rows |-> rows]]
  /\ UNCHANGED <<hard, asked, schema, rows, answer, ghost, mishaps>>

\* Mutant of SyncDir: the fsync of the directory is missing.
SkipSyncDir ==
  /\ phase = "renamed"
  /\ phase' = "synced"
  /\ secured' = TRUE
  /\ UNCHANGED <<disk, hard, asked, schema, rows, answer, acked, owed, truth,
                 orphaned, mishaps>>

SyncDir ==
  /\ phase = "renamed"
  /\ phase' = "synced"
  /\ hard' = disk
  /\ secured' = TRUE
  /\ UNCHANGED <<disk, asked, schema, rows, answer, acked, owed, truth,
                 orphaned, mishaps>>

Truncate ==
  /\ phase = "synced"
  /\ phase' = "truncated"
  /\ disk' = [disk EXCEPT !.log = {}]
  /\ hard' = Synced("log", {})
  /\ UNCHANGED <<asked, schema, rows, answer, ghost, mishaps>>

Mark ==
  /\ phase = "truncated"
  /\ phase' = "marked"
  /\ disk' = [disk EXCEPT !.ok = TRUE]
  /\ UNCHANGED <<hard, asked, schema, rows, answer, ghost, mishaps>>

SyncMark ==
  /\ phase = "marked"
  /\ phase' = "ready"
  /\ hard' = disk
  /\ UNCHANGED <<disk, asked, schema, rows, answer, ghost, mishaps>>

CheckpointFails ==
  /\ Mishap("call")
  /\ phase \in {"renamed", "synced", "truncated", "marked"}
  /\ phase' = "ready"
  /\ UNCHANGED <<disk, hard, asked, schema, rows, answer, ghost>>

-----------------------------------------------------------------------------
(* The end of the process, and the environment.                            *)

Exit ==
  /\ phase = "ready"
  /\ phase' = "down"
  /\ UNCHANGED <<disk, hard, asked, schema, rows, answer, ghost, mishaps>>

Crash ==
  /\ Mishap("crash")
  /\ phase # "down"
  /\ phase' = "down"
  /\ UNCHANGED <<disk, hard, asked, schema, rows, answer, ghost>>

\* Records without any file that tells their schema.
Schemaless == Logged # {} /\ disk.meta \notin Schemas /\ disk.snap = Absent

\* Each file comes back as it was, or as it was certain to be.  Until a
\* checkpoint has synced the directory wal.log may come back without
\* starry.meta, whose directory entry write_meta does not sync.
PowerLoss ==
  /\ Mishap("power")
  /\ phase' = "down"
  /\ \E kept \in SUBSET {"meta", "snap", "log", "ok"} :
       disk' = [f \in DOMAIN disk |-> IF f \in kept THEN disk[f] ELSE hard[f]]
  /\ hard' = disk'
  /\ IF secured THEN UNCHANGED <<owed, truth, orphaned>>
     ELSE /\ owed' = owed \cap Stored'
          /\ truth' = IF owed' = {} THEN Absent ELSE truth
          /\ orphaned' = (orphaned \/ Schemaless')
  /\ UNCHANGED <<asked, schema, rows, answer, acked, secured>>

\* An operator deletes a file, for good, of a directory whose checkpoint
\* returned.
Delete(file) ==
  /\ Mishap("operator")
  /\ phase = "down" /\ hard.ok
  /\ disk[file] # Absent
  /\ disk' = [disk EXCEPT ![file] = Absent]
  /\ hard' = [hard EXCEPT ![file] = Absent]
  /\ UNCHANGED <<phase, asked, schema, rows, answer, ghost>>

Next ==
  \/ Open \/ Resolve \/ WriteMeta \/ WriteMetaFails \/ Recover \/ Attach
  \/ \E w \in Writes : Write(w)
  \/ Publish \/ SyncDir \/ Truncate \/ Mark \/ SyncMark \/ CheckpointFails
  \/ Exit \/ Crash \/ PowerLoss
  \/ \E file \in {"meta", "snap"} : Delete(file)

Spec == Init /\ [][Next]_vars

-----------------------------------------------------------------------------
Serving == phase \in {"ready", "renamed", "synced", "truncated", "marked"}

Contents == [meta : Schemas \cup {Absent, Empty}, snap : Snapshots \cup {Absent},
             log : Logs \cup {Absent}, ok : BOOLEAN]

TypeOK ==
  /\ disk \in Contents /\ hard \in Contents
  /\ phase \in {"down", "resolve", "create", "check", "attach", "ready",
                "renamed", "synced", "truncated", "marked"}
  /\ asked \in Schemas \cup {Absent}
  /\ schema \in Schemas \cup {Absent}
  /\ phase \notin {"down", "resolve"} => schema \in Schemas
  /\ rows \subseteq Writes \cup {Old}
  /\ answer \in {"none", "ok", "invalid", "io_error"}
  /\ truth \in Schemas \cup {Absent}
  /\ owed \subseteq acked /\ acked \subseteq Writes \cup {Old}
  /\ secured \in BOOLEAN /\ orphaned \in BOOLEAN /\ mishaps \in Nat

\* Rows are read under the schema they were stored under, whichever of
\* starry.meta and snapshot.bin was lost, cut or never there, and whatever
\* schema callers ask for, unless a power failure before the first checkpoint
\* left records and no file with their schema: then the caller's is believed.
SchemaStable == Serving /\ truth # Absent /\ ~orphaned => schema = truth

\* An open that returns serves every write it owes, or does not return kOk:
\* a lost snapshot or a stale entry is never taken for an empty database.
Complete == Serving => owed \subseteq rows

\* open() refuses for a reason.  A caller who asks for nothing, or for the
\* schema the rows are stored under, is refused only if the snapshot is gone,
\* or a power failure has once left records without any schema.
RefusalJustified ==
  [][ (answer' # "ok" /\ phase' = "down" /\ phase \in {"resolve", "create", "check"}
       /\ UNCHANGED mishaps /\ truth # Absent /\ asked \in {Absent, truth})
        => orphaned \/ (disk.snap = Absent /\ disk.ok) ]_vars
=============================================================================
