------------------------ MODULE StoreDirectoryProofs ------------------------
(***************************************************************************)
(* A directory is read under the schema its rows were stored under, unless *)
(* a power failure has left a log and nothing that tells its schema; it    *)
(* serves every write it owes, and refuses an open only for a reason: for  *)
(* any schemas, any writes and any number of crashes, power failures,      *)
(* failed calls and deleted files.                                         *)
(*                                                                         *)
(* A power failure gives back each file as programs saw it or as it was    *)
(* certain to be, so DirInv says of "disk" and "hard" together what every  *)
(* mixture of the two must satisfy.  Lost is the one state in which rows   *)
(* are gone, a published snapshot that an operator deleted: nothing is     *)
(* served from there, since checkpoint.ok tells open() that there was one. *)
(***************************************************************************)
EXTENDS StoreDirectory, TLAPS

Lost == hard.ok /\ disk.snap = Absent

SnapRows(snap) == IF snap = Absent THEN {} ELSE snap.rows

\* Phases after the checks of open.
Checked == phase = "attach" \/ Serving

\* Phases in which snapshot.bin is the image of memory.
Published == phase \in {"renamed", "synced", "truncated", "marked"}

\* What is certain of a file is what programs see of it, or older.
Behind ==
  /\ hard.meta \in Schemas => disk.meta = hard.meta
  /\ hard.snap # Absent =>
       disk.snap # Absent /\ disk.snap.schema = hard.snap.schema
  /\ hard.log # Absent => disk.log = hard.log
  /\ hard.ok => disk.ok
  /\ disk.ok => secured

\* One schema, and enough files to find it in.
OneSchema ==
  /\ disk.meta \in Schemas /\ disk.snap # Absent
       => disk.snap.schema = disk.meta
  /\ truth # Absent /\ ~orphaned =>
       /\ disk.snap # Absent => disk.snap.schema = truth
       /\ disk.log # Absent => \A f \in disk.log : f.dim = truth.dim
       /\ ~Lost => \/ disk.meta \in Schemas
                   \/ disk.snap # Absent
       /\ ~Lost /\ disk.meta \in Schemas => disk.meta = truth

\* What the running open or the open database rests on.
Opened ==
  /\ phase = "create" =>
       disk.meta = Empty /\ (disk.snap # Absent => schema = disk.snap.schema)
  /\ phase = "check" \/ Checked => disk.meta = schema
  /\ Checked =>
       /\ ~(disk.ok /\ disk.snap = Absent)
       /\ disk.log # Absent => \A f \in disk.log : f.dim = schema.dim
       /\ owed \subseteq rows
  /\ Serving => disk.log # Absent
  /\ Published => disk.snap = [schema |-> schema, rows |-> rows]
  /\ phase \in {"synced", "truncated", "marked"} =>
       secured /\ hard.snap = disk.snap

\* Whatever mixture of disk and hard a power failure leaves holds the writes.
Held ==
  /\ secured => hard.log # Absent /\ (~Lost => hard.snap # Absent)
  /\ Old \in owed /\ ~Lost => hard.snap # Absent
  /\ ~Lost => owed \subseteq SnapRows(disk.snap) \cup Logged
  /\ hard.snap # Absent => owed \subseteq hard.snap.rows \cup Logged

DirInv == TypeOK /\ Behind /\ OneSchema /\ Opened /\ Held

-----------------------------------------------------------------------------
\* The types of the files.
LEMMA InitType == Init => TypeOK
<1> SUFFICES ASSUME Init
             PROVE  TypeOK
  OBVIOUS
<1>1. CASE disk = Fresh /\ truth = Absent /\ owed = {}
  BY <1>1 DEF Init, TypeOK, Contents, Fresh
<1>2. ASSUME NEW s \in Schemas, disk = Legacy(s), truth = s, owed = {Old}
      PROVE  TypeOK
  <2>1. /\ disk = [Fresh EXCEPT !.snap = [schema |-> s, rows |-> {Old}]]
        /\ [schema |-> s, rows |-> {Old}] \in Snapshots
    BY <1>2 DEF Legacy, Snapshots
  <2>2. disk \in Contents
    BY <2>1 DEF Fresh, Contents
  <2> QED  BY <1>2, <2>2 DEF Init, TypeOK
<1> QED  BY <1>1, <1>2 DEF Init

\* A log that is there is a set: an open database has one.
LEMMA TypeStep == DirInv /\ [Next]_vars => TypeOK'
<1> SUFFICES ASSUME DirInv, [Next]_vars
             PROVE  TypeOK'
  OBVIOUS
<1> TypeOK /\ (Serving => disk.log # Absent)
  BY DEF DirInv, Opened
<1> USE DEF TypeOK, Contents, Synced, ghost
<1>1. CASE Open
  BY <1>1 DEF Open
<1>2. CASE Resolve
  BY <1>2 DEF Resolve, Refuse, Unknown, Offered, Snapshots
<1>3. CASE WriteMeta
  BY <1>3 DEF WriteMeta
<1>4. CASE WriteMetaFails
  BY <1>4 DEF WriteMetaFails, Mishap, Refuse
<1>5. CASE Recover
  BY <1>5 DEF Recover, Refuse, Stored, Logged, Snapshots, Logs
<1>6. CASE Attach
  BY <1>6 DEF Attach, Logs
<1>7. ASSUME NEW w \in Writes, Write(w)
      PROVE  TypeOK'
  <2>1. disk.log \in Logs /\ schema \in Schemas
    BY <1>7 DEF Write, Serving
  <2>2. disk.log \cup {[write |-> w, dim |-> schema.dim]} \in Logs
    BY <2>1 DEF Logs
  <2> QED  BY <1>7, <2>2 DEF Write
<1>8. CASE Publish
  BY <1>8 DEF Publish, Snapshots
<1>9. CASE SyncDir
  BY <1>9 DEF SyncDir
<1>10. CASE Truncate
  BY <1>10 DEF Truncate, Logs
<1>11. CASE Mark
  BY <1>11 DEF Mark
<1>12. CASE SyncMark
  BY <1>12 DEF SyncMark
<1>13. CASE CheckpointFails
  BY <1>13 DEF CheckpointFails, Mishap
<1>14. CASE Exit
  BY <1>14 DEF Exit
<1>15. CASE Crash
  BY <1>15 DEF Crash, Mishap
<1>16. CASE PowerLoss
  <2>1. orphaned' \in BOOLEAN
    BY <1>16 DEF PowerLoss
  <2>2. /\ disk' \in Contents /\ hard' \in Contents /\ phase' = "down"
        /\ UNCHANGED <<asked, schema, rows, answer, acked, secured>>
        /\ mishaps' \in Nat
    BY <1>16 DEF PowerLoss, Mishap
  <2>3. owed' \subseteq owed /\ truth' \in {truth, Absent}
    BY <1>16 DEF PowerLoss
  <2> QED  BY <2>1, <2>2, <2>3
<1>17. ASSUME NEW file \in {"meta", "snap"}, Delete(file)
       PROVE  TypeOK'
  BY <1>17 DEF Delete, Mishap
<1>18. CASE UNCHANGED vars
  BY <1>18 DEF vars
<1> QED
  BY <1>1, <1>2, <1>3, <1>4, <1>5, <1>6, <1>7, <1>8, <1>9, <1>10, <1>11,
     <1>12, <1>13, <1>14, <1>15, <1>16, <1>17, <1>18 DEF Next

-----------------------------------------------------------------------------
(* The files.                                                              *)

LEMMA InitInv == Init => DirInv
<1> SUFFICES ASSUME Init
             PROVE  DirInv
  OBVIOUS
<1>1. TypeOK
  BY InitType
<1>2. Behind /\ OneSchema /\ Opened /\ Held
  <2>1. CASE disk = Fresh /\ truth = Absent /\ owed = {}
    BY <2>1, DirectoryAssumption
       DEF Init, Fresh, Behind, OneSchema, Opened, Held, Checked, Serving,
           Published, Lost, SnapRows
  <2>2. ASSUME NEW s \in Schemas, disk = Legacy(s), truth = s, owed = {Old}
        PROVE  Behind /\ OneSchema /\ Opened /\ Held
    <3>1. [schema |-> s, rows |-> {Old}] # Absent
      BY AbsentAssumption DEF Snapshots
    <3>2. disk = [meta |-> Absent, snap |-> [schema |-> s, rows |-> {Old}],
                  log |-> Absent, ok |-> FALSE]
      BY <2>2 DEF Legacy, Fresh
    <3> QED
      BY <2>2, <3>1, <3>2, DirectoryAssumption
         DEF Init, Behind, OneSchema, Opened, Held, Checked, Serving,
             Published, Lost, SnapRows
  <2> QED  BY <2>1, <2>2 DEF Init
<1> QED  BY <1>1, <1>2 DEF DirInv

LEMMA DirInvStep == DirInv /\ [Next]_vars => DirInv'
<1> SUFFICES ASSUME DirInv, [Next]_vars
             PROVE  DirInv'
  OBVIOUS
<1>a. TypeOK'
  BY TypeStep
<1>b. TypeOK /\ Behind /\ OneSchema /\ Opened /\ Held
  BY DEF DirInv
<1> SUFFICES Behind' /\ OneSchema' /\ Opened' /\ Held'
  BY <1>a DEF DirInv
<1>c. Serving => /\ disk.meta = schema /\ schema \in Schemas /\ schema # Absent
                 /\ disk.log # Absent /\ owed \subseteq rows /\ ~Lost
                 /\ disk.ok => disk.snap # Absent
  BY <1>b, DirectoryAssumption
     DEF Opened, Behind, Lost, Checked, Serving, TypeOK
<1> USE <1>a, <1>b, DirectoryAssumption, AbsentAssumption
    DEF TypeOK, Contents, ghost, Behind, OneSchema, Opened, Held, Checked,
        Serving, Published, Lost, SnapRows, Logged, Stored, Schemaless
<1>1. CASE Open
  BY <1>1 DEF Open
<1>2. CASE Resolve
  BY <1>2 DEF Resolve, Refuse, Unknown, Offered
<1>3. CASE WriteMeta
  BY <1>3 DEF WriteMeta, Synced
<1>4. CASE WriteMetaFails
  BY <1>4 DEF WriteMetaFails, Mishap, Refuse
<1>5. CASE Recover
  BY <1>5 DEF Recover, Refuse, Unusable
<1>6. CASE Attach
  <2>1. /\ disk'.meta = disk.meta /\ disk'.snap = disk.snap /\ disk'.ok = disk.ok
        /\ disk'.log = IF disk.log = Absent THEN {} ELSE disk.log
    BY <1>6 DEF Attach
  <2>2. /\ phase = "attach" /\ phase' = "ready"
        /\ UNCHANGED <<hard, schema, rows, owed, truth, secured, orphaned>>
    BY <1>6 DEF Attach
  <2>3. {} # Absent
    BY DEF Logs
  <2> HIDE DEF TypeOK, Contents
  <2>5. Behind'
    BY <2>1, <2>2, <2>3
  <2>6. OneSchema'
    BY <2>1, <2>2, <2>3
  <2>7. Opened'
    BY <2>1, <2>2, <2>3
  <2>8. Held'
    BY <2>1, <2>2, <2>3
  <2> QED  BY <2>5, <2>6, <2>7, <2>8
<1>7. ASSUME NEW w \in Writes, Write(w)
      PROVE  Behind' /\ OneSchema' /\ Opened' /\ Held'
  <2> DEFINE log == disk.log \cup {[write |-> w, dim |-> schema.dim]}
  <2>1. /\ disk'.meta = disk.meta /\ disk'.snap = disk.snap
        /\ disk'.log = log /\ disk'.ok = disk.ok
    BY <1>7 DEF Write
  <2>2. /\ hard'.meta = hard.meta /\ hard'.snap = hard.snap /\ hard'.ok = hard.ok
        /\ hard'.log = IF hard.log = Absent THEN Absent ELSE log
    BY <1>7 DEF Write, Synced
  <2>3. /\ phase = "ready" /\ truth' = schema /\ rows' = rows \cup {w}
        /\ owed' = owed \cup {w}
        /\ UNCHANGED <<phase, asked, schema, secured, orphaned>>
    BY <1>7 DEF Write
  <2>4. /\ log # Absent
        /\ {f.write : f \in log} = {f.write : f \in disk.log} \cup {w}
        /\ \A f \in log : f.dim = schema.dim
    <3>1. log \in Logs
      BY <1>c, <2>3 DEF Logs
    <3>2. \A f \in disk.log : f.dim = schema.dim
      BY <1>c, <2>3
    <3>3. {f.write : f \in log} = {f.write : f \in disk.log} \cup {w}
      <4>1. PICK frame : frame = [write |-> w, dim |-> schema.dim]
        OBVIOUS
      <4>2. log = disk.log \cup {frame} /\ frame.write = w
        BY <4>1
      <4> HIDE DEF log
      <4> QED  BY <4>2
    <3>4. \A f \in log : f.dim = schema.dim
      BY <3>2
    <3> QED  BY <3>1, <3>3, <3>4
  <2> HIDE DEF TypeOK, Contents, log
  <2>5. Behind'
    BY <1>c, <2>1, <2>2, <2>3, <2>4
  <2>6. OneSchema'
    BY <1>c, <2>1, <2>2, <2>3, <2>4
  <2>7. Opened'
    BY <1>c, <2>1, <2>2, <2>3, <2>4
  <2>8. Held'
    BY <1>c, <2>1, <2>2, <2>3, <2>4
  <2> QED  BY <2>5, <2>6, <2>7, <2>8
<1>8. CASE Publish
  <2> DEFINE snap == [schema |-> schema, rows |-> rows]
  <2>1. /\ disk'.meta = disk.meta /\ disk'.snap = snap
        /\ disk'.log = disk.log /\ disk'.ok = disk.ok
    BY <1>8 DEF Publish
  <2>2. /\ phase = "ready" /\ phase' = "renamed"
        /\ UNCHANGED <<hard, schema, rows, owed, truth, secured, orphaned>>
    BY <1>8 DEF Publish
  <2>3. snap # Absent /\ snap.schema = schema /\ snap.rows = rows
    BY <1>c, <2>2 DEF Snapshots
  <2> HIDE DEF TypeOK, Contents
  <2>5. Behind'
    BY <1>c, <2>1, <2>2, <2>3
  <2>6. OneSchema'
    BY <1>c, <2>1, <2>2, <2>3
  <2>7. Opened'
    BY <1>c, <2>1, <2>2, <2>3
  <2>8. Held'
    BY <1>c, <2>1, <2>2, <2>3
  <2> QED  BY <2>5, <2>6, <2>7, <2>8
<1>9. CASE SyncDir
  <2>1. /\ phase = "renamed" /\ phase' = "synced" /\ hard' = disk
        /\ secured' /\ UNCHANGED <<disk, schema, rows, owed, truth, orphaned>>
    BY <1>9 DEF SyncDir
  <2>2. disk.snap = [schema |-> schema, rows |-> rows] /\ disk.snap # Absent
    BY <1>c, <2>1 DEF Snapshots
  <2> HIDE DEF TypeOK, Contents
  <2>5. Behind'
    BY <1>c, <2>1, <2>2
  <2>6. OneSchema'
    BY <1>c, <2>1, <2>2
  <2>7. Opened'
    BY <1>c, <2>1, <2>2
  <2>8. Held'
    BY <1>c, <2>1, <2>2
  <2> QED  BY <2>5, <2>6, <2>7, <2>8
<1>10. CASE Truncate
  <2>1. /\ disk'.meta = disk.meta /\ disk'.snap = disk.snap
        /\ disk'.log = {} /\ disk'.ok = disk.ok
    BY <1>10 DEF Truncate
  <2>2. /\ hard'.meta = hard.meta /\ hard'.snap = hard.snap /\ hard'.ok = hard.ok
        /\ hard'.log = IF hard.log = Absent THEN Absent ELSE {}
    BY <1>10 DEF Truncate, Synced
  <2>3. /\ phase = "synced" /\ phase' = "truncated"
        /\ UNCHANGED <<schema, rows, owed, truth, secured, orphaned>>
    BY <1>10 DEF Truncate
  <2>4. /\ disk.snap = [schema |-> schema, rows |-> rows] /\ disk.snap # Absent
        /\ {} # Absent
    BY <1>c, <2>3 DEF Snapshots, Logs
  <2> HIDE DEF TypeOK, Contents
  <2>5. Behind'
    BY <1>c, <2>1, <2>2, <2>3, <2>4
  <2>6. OneSchema'
    BY <1>c, <2>1, <2>2, <2>3, <2>4
  <2>7. Opened'
    BY <1>c, <2>1, <2>2, <2>3, <2>4
  <2>8. Held'
    BY <1>c, <2>1, <2>2, <2>3, <2>4
  <2> QED  BY <2>5, <2>6, <2>7, <2>8
<1>11. CASE Mark
  <2>1. /\ disk'.meta = disk.meta /\ disk'.snap = disk.snap
        /\ disk'.log = disk.log /\ disk'.ok
    BY <1>11 DEF Mark
  <2>2. /\ phase = "truncated" /\ phase' = "marked"
        /\ UNCHANGED <<hard, schema, rows, owed, truth, secured, orphaned>>
    BY <1>11 DEF Mark
  <2>3. disk.snap = [schema |-> schema, rows |-> rows] /\ disk.snap # Absent
    BY <1>c, <2>2 DEF Snapshots
  <2> HIDE DEF TypeOK, Contents
  <2>5. Behind'
    BY <1>c, <2>1, <2>2, <2>3
  <2>6. OneSchema'
    BY <1>c, <2>1, <2>2, <2>3
  <2>7. Opened'
    BY <1>c, <2>1, <2>2, <2>3
  <2>8. Held'
    BY <1>c, <2>1, <2>2, <2>3
  <2> QED  BY <2>5, <2>6, <2>7, <2>8
<1>12. CASE SyncMark
  BY <1>12 DEF SyncMark
<1>13. CASE CheckpointFails
  BY <1>13 DEF CheckpointFails, Mishap
<1>14. CASE Exit
  BY <1>14 DEF Exit
<1>15. CASE Crash
  BY <1>15 DEF Crash, Mishap
<1>16. CASE PowerLoss
  <2>1. /\ phase' = "down" /\ hard' = disk'
        /\ UNCHANGED <<schema, rows, secured>>
    BY <1>16 DEF PowerLoss
  <2>2. /\ disk'.meta \in {disk.meta, hard.meta}
        /\ disk'.snap \in {disk.snap, hard.snap}
        /\ disk'.log \in {disk.log, hard.log}
        /\ disk'.ok \in {disk.ok, hard.ok}
    BY <1>16 DEF PowerLoss
  <2>3. IF secured THEN UNCHANGED <<owed, truth, orphaned>>
        ELSE /\ owed' = owed \cap Stored'
             /\ truth' = IF owed' = {} THEN Absent ELSE truth
             /\ orphaned' = (orphaned \/ Schemaless')
    BY <1>16 DEF PowerLoss
  <2>4. disk.log # Absent => Old \notin Logged
    BY DEF Logs
  <2> HIDE DEF TypeOK, Contents
  <2>5. Behind'
    BY <2>1, <2>2, <2>3, <2>4
  <2>6. OneSchema'
    BY <2>1, <2>2, <2>3, <2>4
  <2>7. Opened'
    BY <2>1, <2>2, <2>3, <2>4
  <2>8. Held'
    BY <2>1, <2>2, <2>3, <2>4
  <2> QED  BY <2>5, <2>6, <2>7, <2>8
<1>17. ASSUME NEW file \in {"meta", "snap"}, Delete(file)
       PROVE  Behind' /\ OneSchema' /\ Opened' /\ Held'
  <2>1. /\ disk'.log = disk.log /\ disk'.ok = disk.ok
        /\ hard'.log = hard.log /\ hard'.ok = hard.ok
        /\ \/ /\ disk'.meta = Absent /\ hard'.meta = Absent
              /\ disk'.snap = disk.snap /\ hard'.snap = hard.snap
           \/ /\ disk'.snap = Absent /\ hard'.snap = Absent
              /\ disk'.meta = disk.meta /\ hard'.meta = hard.meta
    BY <1>17 DEF Delete
  <2>2. /\ phase = "down" /\ hard.ok
        /\ UNCHANGED <<phase, schema, rows, owed, truth, secured, orphaned>>
    BY <1>17 DEF Delete
  <2> HIDE DEF TypeOK, Contents
  <2>5. Behind'
    BY <2>1, <2>2
  <2>6. OneSchema'
    BY <2>1, <2>2
  <2>7. Opened'
    BY <2>1, <2>2
  <2>8. Held'
    BY <2>1, <2>2
  <2> QED  BY <2>5, <2>6, <2>7, <2>8
<1>18. CASE UNCHANGED vars
  BY <1>18 DEF vars
<1> QED
  BY <1>1, <1>2, <1>3, <1>4, <1>5, <1>6, <1>7, <1>8, <1>9, <1>10, <1>11,
     <1>12, <1>13, <1>14, <1>15, <1>16, <1>17, <1>18 DEF Next

LEMMA DirInvHolds == Spec => []DirInv
<1> QED  BY InitInv, DirInvStep, PTL DEF Spec

-----------------------------------------------------------------------------
(* The promises.                                                           *)

\* Every file and every variable of open() and checkpoint() keeps its type.
THEOREM TypesHold == Spec => []TypeOK
<1>1. DirInv => TypeOK
  BY DEF DirInv
<1> QED  BY <1>1, DirInvHolds, PTL

\* An open database reads its rows under the schema they were stored under,
\* but for one event: a power failure before the first checkpoint that leaves
\* records and neither starry.meta nor a snapshot.
THEOREM SchemaIsStable == Spec => []SchemaStable
<1>1. DirInv => SchemaStable
  BY DEF DirInv, Opened, OneSchema, Checked, Lost, Behind, TypeOK, Serving,
         SchemaStable
<1> QED  BY <1>1, DirInvHolds, PTL

\* It serves every write it owes.
THEOREM CompleteHolds == Spec => []Complete
<1>1. DirInv => Complete
  BY DEF DirInv, Opened, Checked, Complete
<1> QED  BY <1>1, DirInvHolds, PTL

\* open() refuses a caller who asks for nothing or for the right schema only
\* when a published snapshot is gone, or after that event.
THEOREM RefusalsAreJustified == Spec => RefusalJustified
<1> DEFINE Justified ==
      (answer' # "ok" /\ phase' = "down" /\ phase \in {"resolve", "create", "check"}
       /\ UNCHANGED mishaps /\ truth # Absent /\ asked \in {Absent, truth})
        => orphaned \/ (disk.snap = Absent /\ disk.ok)
<1>1. DirInv /\ [Next]_vars => [Justified]_vars
  <2> SUFFICES ASSUME DirInv, Next,
                      phase \in {"resolve", "create", "check"}, phase' = "down",
                      UNCHANGED mishaps,
                      truth # Absent, asked \in {Absent, truth}, ~orphaned
               PROVE  disk.snap = Absent /\ disk.ok
    OBVIOUS
  <2>1. TypeOK /\ Behind /\ OneSchema /\ Opened
    BY DEF DirInv
  <2>2. (phase = "resolve" /\ Resolve /\ phase' = "down")
        \/ (phase = "check" /\ Recover /\ phase' = "down")
    <3>1. \A kind : ~Mishap(kind)
      BY <2>1 DEF Mishap, TypeOK
    <3>2. \/ Resolve \/ Recover
          \/ phase' # "down" \/ phase \notin {"resolve", "create", "check"}
      BY <3>1 DEF Next, Open, WriteMeta, WriteMetaFails, Attach, Write, Publish,
                  SyncDir, Truncate, Mark, SyncMark, CheckpointFails, Exit, Crash,
                  PowerLoss, Delete
    <3> QED  BY <3>2 DEF Resolve, Recover
  <2>3. Lost => disk.snap = Absent /\ disk.ok
    BY <2>1 DEF Lost, Behind
  <2>4. CASE phase = "resolve" /\ Resolve
    <3>1. disk.meta \notin Schemas /\ Unknown
      BY <2>4 DEF Resolve, Refuse
    <3>2. disk.snap = Absent
      BY <3>1, <2>1, DirectoryAssumption
         DEF Unknown, Offered, TypeOK, Contents, Snapshots
    <3> QED  BY <3>1, <3>2, <2>1, <2>3 DEF OneSchema
  <2>5. CASE phase = "check" /\ Recover
    <3>1. Conflict \/ Unusable
      BY <2>5 DEF Recover
    <3>2. SUFFICES ASSUME ~Lost
                   PROVE  disk.snap = Absent /\ disk.ok
      BY <2>3
    <3>3. schema \in Schemas /\ disk.meta = schema
      BY <2>1, <2>5 DEF TypeOK, Opened
    <3>4. schema = truth
      BY <3>2, <3>3, <2>1 DEF OneSchema
    <3>5. ~Conflict
      BY <3>4 DEF Conflict
    <3>6. /\ disk.snap # Absent => disk.snap.schema = schema
          /\ disk.log # Absent => \A f \in disk.log : f.dim = schema.dim
      BY <3>3, <3>4, <2>1 DEF OneSchema
    <3> QED  BY <3>1, <3>5, <3>6 DEF Unusable
  <2> QED  BY <2>2, <2>4, <2>5
<1> QED  BY <1>1, DirInvHolds, PTL DEF RefusalJustified, Spec
=============================================================================
