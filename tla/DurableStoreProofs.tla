------------------------- MODULE DurableStoreProofs -------------------------
(***************************************************************************)
(* Theorems about DurableStore, for any ids, vectors, policies, faults and *)
(* bounds.  The inductive invariants say of every place an operation can   *)
(* have reached what the next step relies on: a frame in flight is whole,  *)
(* the replay cursor stands on a row, and the snapshot a checkpoint is     *)
(* about to publish is the image of the current tables.                    *)
(***************************************************************************)
EXTENDS DurablePromise, VectorTablesProofs

\* A frame that can be read has a row to be applied.
FramesSound(l) == \A k \in DOMAIN l : l[k].op # "torn" => l[k].rows # <<>>

\* Between append and the change of the tables the log ends with the frame
\* that was accepted, and the history with the state it leads to.
InFlight ==
  phase \in {"logged", "durable"} =>
    /\ log # <<>> /\ log[Len(log)].op # "torn"
    /\ Len(states) > 1

\* A file that holds everything accepted so far.
Current(file) ==
  file.kind = "image" /\ file.image = SaveImage(mem) /\ file.at = Len(states)

\* How far the current image has come on its way to the medium.
Saving ==
  /\ phase \in {"saved", "tmpsynced"} => Current(tmp)
  /\ phase = "tmpsynced" => tmp.safe
  /\ phase \in {"renamed", "dirsynced"} => Current(snap.cur) /\ snap.cur.safe
  /\ phase = "dirsynced" => snap.disk = snap.cur

TypeInv == Typed /\ TablesOK /\ FramesSound(log) /\ InFlight /\ CursorOK

-----------------------------------------------------------------------------
(* Frames                                                                  *)

LEMMA BatchesAreSequences ==
  ASSUME NEW batch \in Batches
  PROVE  batch \in Seq(Row) /\ batch # <<>>
<1>1. PICK n \in 1 .. MaxBatch : batch \in [1 .. n -> Row]
  BY DEF Batches
<1>2. n \in Nat /\ n > 0
  BY BoundsAssumption
<1>3. batch \in Seq(Row)
  BY <1>1, <1>2, SeqDef
<1>4. DOMAIN batch = 1 .. n /\ 1 \in 1 .. n
  BY <1>1, <1>2
<1>5. batch # <<>>
  BY <1>4
<1> QED  BY <1>3, <1>5

LEMMA AcceptedFrame ==
  ASSUME NEW frame, Accepts(frame)
  PROVE  frame \in Frames /\ frame.op # "torn" /\ frame.rows # <<>>
<1>1. CASE \E id \in Ids, vec \in Vecs : frame = InsertFrame(id, vec)
  BY <1>1 DEF InsertFrame, Frames, Row
<1>2. CASE \E batch \in Batches : frame = BulkFrame(batch)
  <2>1. PICK batch \in Batches : frame = BulkFrame(batch)
    BY <1>2
  <2>2. batch \in Seq(Row) /\ batch # <<>>
    BY BatchesAreSequences
  <2> QED  BY <2>1, <2>2 DEF BulkFrame, Frames
<1>3. CASE \E id \in Ids : frame = RemoveFrame(id)
  BY <1>3 DEF RemoveFrame, Frames
<1> QED  BY <1>1, <1>2, <1>3 DEF Accepts

\* The rows of a frame that can be read name ids, and those of an insert or
\* a bulk insert vectors.
LEMMA FrameRow ==
  ASSUME NEW frame \in Frames, frame.op # "torn", NEW i \in DOMAIN frame.rows
  PROVE  /\ frame.op \in {"insert", "bulk", "remove"}
         /\ frame.op # "remove" => frame.rows \in Seq(Row)
         /\ frame.op # "remove" => frame.rows[i] \in Row
         /\ frame.rows[i].id \in Ids
<1> DEFINE Gone == [id : Ids, vec : {NoVec}]
<1>1. CASE frame \in [op : {"insert", "bulk"}, rows : Seq(Row)]
  <2>1. frame.rows \in Seq(Row)
    BY <1>1
  <2>2. frame.rows[i] \in Row
    BY <2>1, LenProperties, ElementOfSeq
  <2> QED  BY <1>1, <2>1, <2>2 DEF Row
<1>2. CASE frame \in [op : {"remove"}, rows : Seq(Gone)]
  <2>1. frame.rows \in Seq(Gone)
    BY <1>2
  <2>2. frame.rows[i] \in Gone
    <3> HIDE DEF Gone
    <3> QED  BY <2>1, LenProperties, ElementOfSeq
  <2> QED  BY <1>2, <2>2
<1> QED  BY <1>1, <1>2 DEF Frames, Torn

LEMMA FirstRow ==
  ASSUME NEW frame \in Frames, frame.op # "torn", frame.rows # <<>>
  PROVE  1 \in DOMAIN frame.rows
<1> DEFINE Gone == [id : Ids, vec : {NoVec}]
<1>1. PICK S : frame.rows \in Seq(S)
  BY DEF Frames, Torn
<1>2. Len(frame.rows) \in Nat \ {0} /\ DOMAIN frame.rows = 1 .. Len(frame.rows)
  BY <1>1, EmptySeq, LenProperties
<1> QED  BY <1>2

LEMMA ApplyOK ==
  ASSUME NEW t \in Tables, TablesConsistent(t),
         NEW frame \in Frames, frame.op # "torn", frame.rows # <<>>
  PROVE  Apply(t, frame) \in Tables /\ TablesConsistent(Apply(t, frame))
<1>1. 1 \in DOMAIN frame.rows
  BY FirstRow
<1>2. /\ frame.op \in {"insert", "bulk", "remove"}
      /\ frame.op # "remove" => frame.rows \in Seq(Row)
      /\ frame.op # "remove" => frame.rows[1] \in Row
      /\ frame.rows[1].id \in Ids
  BY <1>1, FrameRow
<1>3. CASE frame.op = "insert"
  <2>1. frame.rows[1].id \in Ids /\ frame.rows[1].vec \in Vecs
    BY <1>2, <1>3 DEF Row
  <2>2. Apply(t, frame) = AddRow(t, frame.rows[1].id, frame.rows[1].vec)
    BY <1>3 DEF Apply
  <2> QED  BY <2>1, <2>2, AddRowType, AddRowConsistent
<1>4. CASE frame.op = "bulk"
  <2>1. Apply(t, frame) = AddBatch(t, frame.rows)
    BY <1>4 DEF Apply
  <2> QED  BY <2>1, <1>2, <1>4, AddBatchType, AddBatchConsistent
<1>5. CASE frame.op = "remove"
  <2>1. Apply(t, frame) = RemoveRow(t, frame.rows[1].id)
    BY <1>5 DEF Apply
  <2> QED  BY <2>1, <1>2, RemoveRowType, RemoveRowConsistent
<1> QED  BY <1>2, <1>3, <1>4, <1>5

LEMMA ReplayOneOK ==
  ASSUME NEW t \in Tables, TablesConsistent(t),
         NEW frame \in Frames, frame.op # "torn", NEW i \in DOMAIN frame.rows
  PROVE  LET u == ReplayOne(t, frame.op, frame.rows[i])
         IN  u \in Tables /\ TablesConsistent(u)
<1>1. /\ frame.op # "remove" => frame.rows[i] \in Row
      /\ frame.rows[i].id \in Ids
  BY FrameRow
<1>2. CASE frame.op = "remove"
  BY <1>1, <1>2, RemoveRowType, RemoveRowConsistent DEF ReplayOne
<1>3. CASE frame.op # "remove"
  <2>1. frame.rows[i].vec \in Vecs
    BY <1>1, <1>3 DEF Row
  <2> QED  BY <1>1, <1>3, <2>1, AddRowType, AddRowConsistent DEF ReplayOne
<1> QED  BY <1>2, <1>3

\* A crash leaves a log of whole frames behind which at most one is cut.
LEMMA RemainsOK ==
  ASSUME log \in Seq(Frames), FramesSound(log), NEW kept \in Nat,
         NEW l \in Remains(kept)
  PROVE  l \in Seq(Frames) /\ FramesSound(l) /\ Len(l) \in Nat
<1>1. Torn \in Frames /\ Torn.op = "torn"
  BY DEF Torn, Frames
<1>2. PICK k \in kept .. Len(log) :
        l \in {SubSeq(log, 1, k), Append(SubSeq(log, 1, k), Torn)}
  <2>1. Len(log) \in Nat
    BY LenProperties
  <2>2. CASE l \in {SubSeq(log, 1, k) : k \in kept .. Len(log)}
    BY <2>2
  <2>3. CASE l \in {Append(SubSeq(log, 1, k), Torn) : k \in kept .. Len(log) - 1}
    <3>1. PICK k \in kept .. Len(log) - 1 : l = Append(SubSeq(log, 1, k), Torn)
      BY <2>3
    <3>2. k \in kept .. Len(log)
      BY <2>1
    <3> QED  BY <3>1, <3>2
  <2> QED  BY <2>2, <2>3 DEF Remains
<1>3. Len(log) \in Nat /\ DOMAIN log = 1 .. Len(log) /\ k \in Nat /\ k <= Len(log)
  BY LenProperties
<1> DEFINE head == SubSeq(log, 1, k)
<1>4. \A i \in 1 .. k : log[i] \in Frames
  BY <1>3, ElementOfSeq
<1>5. head \in Seq(Frames) /\ Len(head) = k /\ \A i \in 1 .. k : head[i] = log[i]
  <2>1. /\ head \in Seq(Frames)
        /\ Len(head) = IF 1 <= k THEN k - 1 + 1 ELSE 0
        /\ \A i \in 1 .. k - 1 + 1 : head[i] = log[1 + i - 1]
    BY <1>3, <1>4, SubSeqProperties
  <2> QED  BY <2>1, <1>3
<1>6. FramesSound(head)
  BY <1>3, <1>5, LenProperties DEF FramesSound
<1>7. /\ Append(head, Torn) \in Seq(Frames)
      /\ Len(Append(head, Torn)) = k + 1
      /\ FramesSound(Append(head, Torn))
  <2> HIDE DEF head
  <2>1. /\ Append(head, Torn) \in Seq(Frames)
        /\ Len(Append(head, Torn)) = k + 1
        /\ DOMAIN Append(head, Torn) = 1 .. k + 1
        /\ \A i \in 1 .. k : Append(head, Torn)[i] = head[i]
        /\ Append(head, Torn)[k + 1] = Torn
    BY <1>1, <1>3, <1>5
  <2>2. DOMAIN head = 1 .. k
    BY <1>5, LenProperties
  <2>3. ASSUME NEW i \in 1 .. k + 1, Append(head, Torn)[i].op # "torn"
        PROVE  Append(head, Torn)[i].rows # <<>>
    <3>1. i \in 1 .. k
      BY <2>1, <2>3, <1>1, <1>3
    <3> QED  BY <3>1, <2>1, <2>2, <2>3, <1>6 DEF FramesSound
  <2> QED  BY <2>1, <2>3 DEF FramesSound
<1> HIDE DEF head
<1>8. l \in {head, Append(head, Torn)} /\ k + 1 \in Nat
  BY <1>2, <1>3 DEF head
<1> QED  BY <1>8, <1>3, <1>5, <1>6, <1>7

-----------------------------------------------------------------------------
(* TypeInv is inductive                                                    *)

LEMMA AbsentType == Absent \in Files
BY EmptyType DEF Absent, Files

LEMMA InitTypeInv == Init => TypeInv
<1> SUFFICES ASSUME Init
             PROVE  TypeInv
  OBVIOUS
<1>1. Lookup(EmptyTables) \in [Ids -> Vecs \cup {NoVec}]
  BY EmptyType, EmptyConsistent, LookupType
<1> DEFINE first == Lookup(EmptyTables)
<1>2. <<first>> \in Seq([Ids -> Vecs \cup {NoVec}]) /\ <<first>> # <<>>
  <2> HIDE DEF first
  <2> QED  BY <1>1 DEF first
<1>3. Typed
  BY <1>2, EmptyType, AbsentType DEF Init, Typed, AllPolicies, Start
<1>4. TablesOK
  BY EmptyConsistent DEF Init, TablesOK
<1>5. FramesSound(log) /\ InFlight /\ CursorOK
  BY DEF Init, FramesSound, InFlight, CursorOK
<1> QED  BY <1>3, <1>4, <1>5 DEF TypeInv

\* wal_.append: the accepted frame is whole, and the tables it leads to have
\* a lookup map.
LEMMA WriteTypeInv ==
  ASSUME TypeInv, NEW frame, Write(frame)
  PROVE  TypeInv'
<1>1. frame \in Frames /\ frame.op # "torn" /\ frame.rows # <<>>
  BY AcceptedFrame DEF Write
<1>2. Lookup(Apply(mem, frame)) \in [Ids -> Vecs \cup {NoVec}]
  BY <1>1, ApplyOK, LookupType DEF TypeInv, Typed, TablesOK
<1> DEFINE Maps == [Ids -> Vecs \cup {NoVec}]
           next == Lookup(Apply(mem, frame))
<1>3. states' \in Seq(Maps) /\ states' # <<>> /\ Len(states') > 1
  <2>1. states \in Seq(Maps) /\ states # <<>> /\ next \in Maps
        /\ states' = Append(states, next)
    BY <1>2 DEF Write, TypeInv, Typed
  <2> HIDE DEF Maps, next
  <2>2. Len(states) \in Nat \ {0}
    BY <2>1, EmptySeq
  <2>3. states' \in Seq(Maps) /\ Len(states') = Len(states) + 1
    BY <2>1
  <2> QED  BY <2>2, <2>3, EmptySeq
<1>4. /\ log \in Seq(Frames) /\ log' = Append(log, frame)
      /\ Len(log) \in Nat /\ DOMAIN log = 1 .. Len(log)
  BY LenProperties DEF Write, TypeInv, Typed
<1>5. /\ log' \in Seq(Frames) /\ Len(log') = Len(log) + 1
      /\ DOMAIN log' = 1 .. Len(log) + 1
      /\ \A k \in 1 .. Len(log) : log'[k] = log[k]
      /\ log'[Len(log) + 1] = frame
  BY <1>1, <1>4
<1>6. Typed'
  BY <1>3, <1>5 DEF Write, TypeInv, Typed, files
<1>7. TablesOK'
  BY DEF Write, TypeInv, TablesOK
<1>8. FramesSound(log)'
  <2> SUFFICES ASSUME NEW k \in 1 .. Len(log) + 1, log'[k].op # "torn"
               PROVE  log'[k].rows # <<>>
    BY <1>5 DEF FramesSound
  <2>1. CASE k = Len(log) + 1
    BY <2>1, <1>1, <1>5
  <2>2. CASE k \in 1 .. Len(log)
    BY <2>2, <1>4, <1>5 DEF TypeInv, FramesSound
  <2> QED  BY <2>1, <2>2, <1>4
<1>9. InFlight' /\ CursorOK'
  <2>1. log' # <<>> /\ log'[Len(log')].op # "torn"
    BY <1>1, <1>4, <1>5, EmptySeq
  <2> QED  BY <2>1, <1>3 DEF InFlight, CursorOK, Write
<1> QED  BY <1>6, <1>7, <1>8, <1>9 DEF TypeInv

LEMMA AppendFailsTypeInv ==
  ASSUME TypeInv, NEW frame, AppendFails(frame)
  PROVE  TypeInv'
<1>1. CASE log' = log
  <2>1. Typed'
    BY <1>1 DEF AppendFails, Mishap, TypeInv, Typed, files, ghost
  <2> QED  BY <1>1, <2>1 DEF AppendFails, CanWrite, TypeInv, TablesOK,
                             FramesSound, InFlight, CursorOK
<1>2. CASE log' = Append(log, Torn)
  <2>1. Torn \in Frames /\ Torn.op = "torn"
    BY DEF Torn, Frames
  <2>2. /\ log \in Seq(Frames)
        /\ Len(log) \in Nat /\ DOMAIN log = 1 .. Len(log)
    BY LenProperties DEF TypeInv, Typed
  <2>3. /\ log' \in Seq(Frames)
        /\ DOMAIN log' = 1 .. Len(log) + 1
        /\ \A k \in 1 .. Len(log) : log'[k] = log[k]
        /\ log'[Len(log) + 1] = Torn
    BY <1>2, <2>1, <2>2
  <2>4. Typed'
    BY <2>3 DEF AppendFails, Mishap, TypeInv, Typed, files, ghost
  <2>5. FramesSound(log)'
    BY <2>1, <2>2, <2>3 DEF TypeInv, FramesSound
  <2> QED  BY <2>4, <2>5 DEF AppendFails, CanWrite, TypeInv, TablesOK,
                             InFlight, CursorOK
<1> QED  BY <1>1, <1>2 DEF AppendFails

LEMMA SyncTypeInv ==
  ASSUME TypeInv, SyncRecord
  PROVE  TypeInv'
<1>1. Len(log) \in Nat
  BY LenProperties DEF TypeInv, Typed
<1>2. Typed'
  BY <1>1 DEF SyncRecord, TypeInv, Typed, files, ghost
<1> QED  BY <1>2 DEF SyncRecord, TypeInv, TablesOK, InFlight, CursorOK, ghost

\* The history loses the state of the call that failed, never the first one.
LEMMA SyncFailsTypeInv ==
  ASSUME TypeInv, SyncFails
  PROVE  TypeInv'
<1> DEFINE Maps == [Ids -> Vecs \cup {NoVec}]
<1>1. states \in Seq(Maps) /\ Len(states) > 1
      /\ states' = SubSeq(states, 1, Len(states) - 1)
  BY DEF SyncFails, TypeInv, Typed, InFlight
<1>2. states' \in Seq(Maps) /\ states' # <<>>
  <2> HIDE DEF Maps
  <2>1. Len(states) \in Nat
    BY <1>1, LenProperties
  <2>2. \A i \in 1 .. Len(states) - 1 : states[i] \in Maps
    <3> SUFFICES ASSUME NEW i \in 1 .. Len(states) - 1
                 PROVE  states[i] \in Maps
      OBVIOUS
    <3>1. i \in 1 .. Len(states)
      BY <2>1
    <3> QED  BY <1>1, <3>1, ElementOfSeq
  <2>3. PICK n \in Int : n = Len(states) - 1 /\ 1 <= n
    BY <1>1, <2>1
  <2>4. SubSeq(states, 1, n) \in Seq(Maps)
        /\ Len(SubSeq(states, 1, n)) = n - 1 + 1
    BY <2>2, <2>3, SubSeqProperties
  <2>5. states' = SubSeq(states, 1, n)
    BY <1>1, <2>3
  <2>6. Len(SubSeq(states, 1, n)) # 0
    BY <2>3, <2>4
  <2>7. Len(<<>>) = 0
    BY EmptySeq
  <2> QED  BY <2>4, <2>5, <2>6, <2>7
<1>3. phase' = "ready" /\ aligned' = FALSE /\ mishaps' \in Nat
  BY DEF SyncFails, Mishap, TypeInv, Typed
<1>4. Typed'
  BY <1>2, <1>3 DEF SyncFails, TypeInv, Typed, files
<1> QED  BY <1>4 DEF SyncFails, TypeInv, TablesOK, InFlight, CursorOK

\* The tables change as the last frame of the log says.
LEMMA ApplyTypeInv ==
  ASSUME TypeInv, ApplyRecord
  PROVE  TypeInv'
<1>1. /\ log \in Seq(Frames) /\ log # <<>>
      /\ log[Len(log)].op # "torn"
  BY DEF ApplyRecord, TypeInv, Typed, InFlight
<1>2. Len(log) \in 1 .. Len(log) /\ Len(log) \in DOMAIN log
  BY <1>1, EmptySeq, LenProperties
<1>3. log[Len(log)] \in Frames /\ log[Len(log)].rows # <<>>
  BY <1>1, <1>2, ElementOfSeq DEF TypeInv, FramesSound
<1>4. mem' \in Tables /\ TablesConsistent(mem')
  BY <1>1, <1>3, ApplyOK DEF ApplyRecord, TypeInv, Typed, TablesOK
<1>5. Len(states) \in Nat
  BY LenProperties DEF TypeInv, Typed
<1>6. Typed'
  BY <1>4, <1>5 DEF ApplyRecord, TypeInv, Typed, files
<1> QED  BY <1>4, <1>6 DEF ApplyRecord, TypeInv, TablesOK, InFlight, CursorOK

LEMMA SetPolicyTypeInv ==
  ASSUME TypeInv, NEW policy \in Policies, SetPolicy(policy)
  PROVE  TypeInv'
<1>1. Typed'
  BY PoliciesAssumption DEF SetPolicy, TypeInv, Typed, files, ghost
<1> QED  BY <1>1 DEF SetPolicy, TypeInv, TablesOK, InFlight, CursorOK

\* The steps of a checkpoint leave the tables and the frames alone.
LEMMA CheckpointTypeInv ==
  ASSUME TypeInv, Checkpoint
  PROVE  TypeInv'
<1>1. Len(states) \in Nat \ {0}
  BY EmptySeq DEF TypeInv, Typed
<1>2. CASE SaveTmp
  <2>1. SaveImage(mem) \in Images
    BY SaveImageType DEF TypeInv, Typed
  <2>2. tmp' \in Files
    BY <1>1, <1>2, <2>1 DEF SaveTmp, Files
  <2>3. Typed'
    BY <1>2, <2>2 DEF SaveTmp, TypeInv, Typed, ghost
  <2> QED  BY <1>2, <2>3 DEF SaveTmp, TypeInv, TablesOK, InFlight, CursorOK
<1>3. CASE FsyncTmp
  <2>1. Typed'
    BY <1>3 DEF FsyncTmp, TypeInv, Typed, Files, ghost
  <2> QED  BY <1>3, <2>1 DEF FsyncTmp, TypeInv, TablesOK, InFlight, CursorOK
<1>4. CASE Rename
  <2>1. Typed'
    BY <1>4, AbsentType DEF Rename, TypeInv, Typed, ghost
  <2> QED  BY <1>4, <2>1 DEF Rename, TypeInv, TablesOK, InFlight, CursorOK
<1>5. CASE FsyncDir
  <2>1. Typed'
    BY <1>5 DEF FsyncDir, TypeInv, Typed, ghost
  <2> QED  BY <1>5, <2>1 DEF FsyncDir, TypeInv, TablesOK, InFlight, CursorOK
<1>6. CASE TruncateLog
  <2>1. Typed' /\ FramesSound(log)'
    BY <1>1, <1>6 DEF TruncateLog, TypeInv, Typed, files, FramesSound
  <2> QED  BY <1>6, <2>1 DEF TruncateLog, TypeInv, TablesOK, InFlight, CursorOK
<1>7. CASE CreateMarker
  <2>1. Typed'
    BY <1>7 DEF CreateMarker, TypeInv, Typed, ghost
  <2> QED  BY <1>7, <2>1 DEF CreateMarker, TypeInv, TablesOK, InFlight, CursorOK
<1>8. CASE FsyncMarker
  <2>1. Typed'
    BY <1>1, <1>8 DEF FsyncMarker, TypeInv, Typed
  <2> QED  BY <1>8, <2>1 DEF FsyncMarker, TypeInv, TablesOK, InFlight, CursorOK
<1>9. CASE CheckpointFails
  <2>1. Typed'
    BY <1>9, AbsentType DEF CheckpointFails, Mishap, TypeInv, Typed, ghost
  <2> QED  BY <1>9, <2>1 DEF CheckpointFails, TypeInv, TablesOK, InFlight,
                             CursorOK
<1> QED  BY <1>2, <1>3, <1>4, <1>5, <1>6, <1>7, <1>8, <1>9 DEF Checkpoint

\* After an ending of the process the tables are empty and nothing is in
\* flight; what is left of the log is sound.
LEMMA EnvironmentTypeInv ==
  ASSUME TypeInv, Environment
  PROVE  TypeInv'
<1>1. Len(states) \in Nat /\ Len(log) \in Nat
  BY LenProperties DEF TypeInv, Typed
<1>2. ASSUME ObjectGone
      PROVE  /\ mem' \in Tables /\ TablesOK' /\ sync' \in AllPolicies
             /\ cursor' \in [rec : Nat \ {0}, row : Nat \ {0}]
  BY <1>2, EmptyType, EmptyConsistent
     DEF ObjectGone, TablesOK, AllPolicies, Start
<1>3. CASE Close
  <2>1. Typed'
    BY <1>1, <1>3 DEF Close, TypeInv, Typed, files
  <2> QED  BY <1>3, <2>1 DEF Close, TypeInv, TablesOK, InFlight, CursorOK
<1>4. CASE Exit
  <2>1. Typed' /\ TablesOK'
    BY <1>1, <1>2, <1>4 DEF Exit, TypeInv, Typed, files, ghost
  <2> QED  BY <1>4, <2>1 DEF Exit, TypeInv, InFlight, CursorOK
<1>5. CASE ProcessCrash
  <2>1. log' \in Seq(Frames) /\ FramesSound(log)' /\ Len(log') \in Nat
    <3>1. /\ log \in Seq(Frames) /\ FramesSound(log) /\ flushed \in Nat
          /\ log' \in Remains(flushed)
      BY <1>5 DEF ProcessCrash, TypeInv, Typed
    <3>2. log' \in Seq(Frames) /\ FramesSound(log') /\ Len(log') \in Nat
      BY <3>1, RemainsOK
    <3> QED  BY <3>2 DEF FramesSound
  <2>2. Typed' /\ TablesOK'
    BY <1>2, <1>5, <2>1, AbsentType
       DEF ProcessCrash, CanCrash, Mishap, TypeInv, Typed, ghost
  <2> QED  BY <1>5, <2>1, <2>2 DEF ProcessCrash, TypeInv, InFlight, CursorOK
<1>6. CASE MachineCrash
  <2>1. log' \in Seq(Frames) /\ FramesSound(log)' /\ Len(log') \in Nat
    <3>1. /\ log \in Seq(Frames) /\ FramesSound(log) /\ synced \in Nat
          /\ log' \in Remains(synced)
      BY <1>6 DEF MachineCrash, TypeInv, Typed
    <3>2. log' \in Seq(Frames) /\ FramesSound(log') /\ Len(log') \in Nat
      BY <3>1, RemainsOK
    <3> QED  BY <3>2 DEF FramesSound
  <2>2. ASSUME NEW file \in Files, NEW left \in AfterPowerLoss(file)
        PROVE  left \in Files
    BY <2>2 DEF AfterPowerLoss, Files
  <2>3. snap' \in [cur : Files, disk : Files]
    <3>1. PICK file \in AfterPowerLoss(snap.cur) \cup AfterPowerLoss(snap.disk) :
            snap' = [cur |-> file, disk |-> file]
      BY <1>6 DEF MachineCrash
    <3>2. snap.cur \in Files /\ snap.disk \in Files
      BY DEF TypeInv, Typed
    <3>3. file \in Files
      BY <2>2, <3>1, <3>2
    <3> QED  BY <3>1, <3>3
  <2>4. /\ marker' \in {"none", "cached", "durable"}
        /\ promised' \in [process : Nat, machine : Nat]
        /\ mishaps' \in Nat
    BY <1>6 DEF MachineCrash, CanCrash, Mishap, TypeInv, Typed
  <2>5. /\ mem' \in Tables /\ TablesOK' /\ sync' \in AllPolicies
        /\ cursor' \in [rec : Nat \ {0}, row : Nat \ {0}]
    BY <1>2, <1>6 DEF MachineCrash
  <2>6. tmp' \in Files /\ flushed' \in Nat /\ synced' \in Nat /\ phase' = "down"
    BY <1>6, <2>1, AbsentType DEF MachineCrash
  <2>7. Typed'
    BY <1>6, <2>1, <2>3, <2>4, <2>5, <2>6 DEF MachineCrash, TypeInv, Typed
  <2> QED  BY <1>6, <2>1, <2>5, <2>7 DEF MachineCrash, TypeInv, InFlight, CursorOK
<1> QED  BY <1>3, <1>4, <1>5, <1>6 DEF Environment

\* The replay reads whole frames, one row after the other.
LEMMA ReplayRowTypeInv ==
  ASSUME TypeInv, ReplayRow
  PROVE  TypeInv'
<1> DEFINE frame == log[cursor.rec]
<1>1. /\ log \in Seq(Frames) /\ mem \in Tables /\ TablesConsistent(mem)
      /\ cursor.rec \in Nat \ {0} /\ cursor.row \in Nat \ {0}
  BY DEF TypeInv, Typed, TablesOK
<1>2. cursor.rec \in DOMAIN log /\ frame.op # "torn"
  BY DEF ReplayRow, CanRead
<1>3. frame \in Frames /\ cursor.row \in DOMAIN frame.rows
  <2>1. frame \in Frames
    BY <1>1, <1>2, LenProperties, ElementOfSeq
  <2> QED  BY <2>1 DEF ReplayRow, TypeInv, CursorOK
<1>4. mem' \in Tables /\ TablesConsistent(mem')
  BY <1>1, <1>2, <1>3, ReplayOneOK DEF ReplayRow
<1>5. Len(frame.rows) \in Nat /\ DOMAIN frame.rows = 1 .. Len(frame.rows)
  <2>1. PICK S : frame.rows \in Seq(S)
    BY <1>2, <1>3 DEF Frames, Torn
  <2> QED  BY <2>1, LenProperties
<1>6. cursor' \in [rec : Nat \ {0}, row : Nat \ {0}]
  <2>1. cursor \in [rec : Nat \ {0}, row : Nat \ {0}]
    BY DEF TypeInv, Typed
  <2>2. cursor' \in {[cursor EXCEPT !.row = @ + 1],
                     [rec |-> cursor.rec + 1, row |-> 1]}
    BY DEF ReplayRow
  <2> HIDE DEF frame
  <2> QED  BY <2>1, <2>2
<1>7. Typed'
  BY <1>4, <1>6 DEF ReplayRow, TypeInv, Typed, files, ghost
<1>8. CursorOK'
  <2>1. CASE cursor.row < Len(frame.rows)
    <3>1. cursor'.rec = cursor.rec /\ cursor'.row = cursor.row + 1
      BY <2>1, <1>1 DEF ReplayRow, TypeInv, Typed
    <3>2. cursor.row + 1 \in DOMAIN frame.rows
      BY <2>1, <1>1, <1>5
    <3> QED  BY <3>1, <3>2 DEF CursorOK, ReplayRow
  <2>2. CASE ~(cursor.row < Len(frame.rows))
    <3>1. cursor'.rec = cursor.rec + 1 /\ cursor'.row = 1
      BY <2>2 DEF ReplayRow
    <3>2. ASSUME CanRead(cursor.rec + 1)
          PROVE  1 \in DOMAIN log[cursor.rec + 1].rows
      <4>1. /\ log[cursor.rec + 1].op # "torn"
            /\ log[cursor.rec + 1] \in Frames
        BY <3>2, <1>1, LenProperties, ElementOfSeq DEF CanRead
      <4>2. log[cursor.rec + 1].rows # <<>>
        BY <3>2, <4>1 DEF CanRead, TypeInv, FramesSound
      <4> QED  BY <4>1, <4>2, FirstRow
    <3> QED  BY <3>1, <3>2 DEF CursorOK, CanRead, ReplayRow
  <2> QED  BY <2>1, <2>2
<1> QED  BY <1>4, <1>7, <1>8 DEF ReplayRow, TypeInv, TablesOK, InFlight

\* The state open() recovers has an index in the history.
LEMMA RecoveredType ==
  ASSUME TypeInv
  PROVE  /\ Recovered \in 1 .. Len(states)
         /\ Read \in Nat
         /\ Len(states) \in Nat \ {0}
<1>1. /\ snap.cur.at \in Nat \ {0} /\ base \in Nat \ {0}
      /\ cursor.rec \in Nat \ {0}
  BY DEF TypeInv, Typed, Files
<1>2. Len(states) \in Nat \ {0}
  BY EmptySeq DEF TypeInv, Typed
<1>3. Read \in Nat
  BY <1>1 DEF Read
<1>4. Larger(snap.cur.at, base + Read) \in Nat \ {0}
  <2>1. base + Read \in Nat \ {0}
    BY <1>1, <1>3
  <2> QED  BY <1>1, <2>1 DEF Larger
<1>5. Recovered \in {Len(states), Larger(snap.cur.at, base + Read)}
      /\ Recovered <= Len(states)
  BY <1>2, <1>4 DEF Recovered, Lesser
<1> HIDE DEF Recovered
<1> QED  BY <1>2, <1>3, <1>4, <1>5

LEMMA RecoverTypeInv ==
  ASSUME TypeInv, Recover
  PROVE  TypeInv'
<1>1. CASE OpenDir
  <2>1. snap.cur.image \in Images
    BY DEF TypeInv, Typed, Files
  <2>2. mem' \in Tables /\ TablesConsistent(mem')
    BY <1>1, <2>1, RestoreType, RestoreConsistent
       DEF OpenDir, TypeInv, Typed, TablesOK
  <2>3. Typed'
    BY <1>1, <2>2 DEF OpenDir, TypeInv, Typed, files, ghost, Start
  <2>4. CursorOK'
    <3>1. ASSUME CanRead(1)
          PROVE  1 \in DOMAIN log[1].rows
      <4>1. log[1].op # "torn" /\ log[1] \in Frames /\ log[1].rows # <<>>
        BY <3>1, LenProperties, ElementOfSeq
           DEF CanRead, TypeInv, Typed, FramesSound
      <4> QED  BY <4>1, FirstRow
    <3> QED  BY <1>1, <3>1 DEF OpenDir, CursorOK, CanRead, Start
  <2> QED  BY <1>1, <2>2, <2>3, <2>4 DEF OpenDir, TypeInv, TablesOK, InFlight
<1>2. CASE ReplayRow
  BY <1>2, ReplayRowTypeInv
<1>3. CASE ReplayDone
  <2>1. Typed'
    BY <1>3 DEF ReplayDone, TypeInv, Typed, files, ghost
  <2> QED  BY <1>3, <2>1 DEF ReplayDone, TypeInv, TablesOK, InFlight, CursorOK
<1>4. CASE AttachWal
  <2> DEFINE Maps == [Ids -> Vecs \cup {NoVec}]
             kept == SubSeq(states, 1, Recovered - 1)
  <2>1. Recovered \in 1 .. Len(states) /\ Read \in Nat /\ Len(states) \in Nat
    BY RecoveredType
  <2>2. Lookup(mem) \in Maps
    BY LookupType DEF TypeInv, Typed, TablesOK
  <2>3. kept \in Seq(Maps)
    <3>1. ASSUME NEW i \in 1 .. Recovered - 1
          PROVE  states[i] \in Maps
      <4> HIDE DEF Maps
      <4>1. i \in 1 .. Len(states)
        BY <2>1
      <4>2. states \in Seq(Maps)
        BY DEF TypeInv, Typed, Maps
      <4> QED  BY <4>1, <4>2, ElementOfSeq
    <3> HIDE DEF Maps
    <3>2. Recovered - 1 \in Int
      BY <2>1
    <3> QED  BY <3>1, <3>2, SubSeqProperties
  <2>4. states' \in Seq(Maps) /\ states' # <<>>
    <3>1. states' = Append(kept, Lookup(mem))
      BY <1>4 DEF AttachWal
    <3> HIDE DEF Maps, kept
    <3>2. states' \in Seq(Maps) /\ Len(states') = Len(kept) + 1
          /\ Len(kept) \in Nat
      BY <2>2, <2>3, <3>1, LenProperties
    <3> QED  BY <3>2, EmptySeq
  <2>5. /\ base' \in Nat \ {0}
        /\ promised' \in [process : Nat, machine : Nat]
        /\ aligned' \in BOOLEAN
    <3>1. base \in Nat \ {0} /\ promised \in [process : Nat, machine : Nat]
      BY DEF TypeInv, Typed
    <3>2. base' = IF Read = 0 THEN Recovered ELSE base
      BY <1>4 DEF AttachWal
    <3>3. promised' = [process |-> Lesser(promised.process, Recovered),
                       machine |-> Lesser(promised.machine, Recovered)]
      BY <1>4 DEF AttachWal
    <3>4. aligned' \in BOOLEAN
      BY <1>4 DEF AttachWal
    <3> QED  BY <2>1, <3>1, <3>2, <3>3, <3>4 DEF Lesser
  <2>6. phase' = "ready" /\ cursor' \in [rec : Nat \ {0}, row : Nat \ {0}]
    BY <1>4 DEF AttachWal, Start
  <2>7. UNCHANGED <<mem, sync, log, flushed, synced, snap, tmp, marker, mishaps>>
    BY <1>4 DEF AttachWal, files
  <2>8. Typed'
    BY <2>4, <2>5, <2>6, <2>7 DEF TypeInv, Typed
  <2> QED  BY <1>4, <2>8 DEF AttachWal, TypeInv, TablesOK, InFlight, CursorOK
<1> QED  BY <1>1, <1>2, <1>3, <1>4 DEF Recover

LEMMA TypeInvStep == TypeInv /\ [Next]_vars => TypeInv'
<1> SUFFICES ASSUME TypeInv, [Next]_vars
             PROVE  TypeInv'
  OBVIOUS
<1>1. CASE Mutate
  BY <1>1, WriteTypeInv, AppendFailsTypeInv, SyncTypeInv, SyncFailsTypeInv,
     ApplyTypeInv, SetPolicyTypeInv DEF Mutate
<1>2. CASE UNCHANGED vars
  <2>1. Typed'
    BY <1>2 DEF vars, files, ghost, TypeInv, Typed
  <2>2. TablesOK' /\ FramesSound(log)'
    BY <1>2 DEF vars, TypeInv, TablesOK, FramesSound
  <2>3. InFlight' /\ CursorOK'
    BY <1>2 DEF vars, ghost, TypeInv, InFlight, CursorOK, CanRead
  <2> QED  BY <2>1, <2>2, <2>3 DEF TypeInv
<1> QED  BY <1>1, <1>2, CheckpointTypeInv, RecoverTypeInv, EnvironmentTypeInv
         DEF Next

THEOREM TypeInvHolds == Spec => []TypeInv
BY InitTypeInv, TypeInvStep, PTL DEF Spec

\* Every variable keeps its type, and the replay never reads past the rows of
\* a record, whatever the operations, crashes and failed calls, for any bounds.
THEOREM TypeCorrect == Spec => []TypeOK
<1>1. TypeInv => TypeOK
  BY DEF TypeInv, TypeOK
<1> QED  BY <1>1, TypeInvHolds, PTL

\* The row buffer, the live-id map and the tombstones agree in every state:
\* after every mutation, snapshot restore and row of a replay.
THEOREM TablesAgree == Spec => []TablesOK
<1>1. TypeInv => TablesOK
  BY DEF TypeInv
<1> QED  BY <1>1, TypeInvHolds, PTL

-----------------------------------------------------------------------------
(* The checkpoint                                                          *)

LEMMA SavingStep == Saving /\ [Next]_vars => Saving'
<1> SUFFICES ASSUME Saving, [Next]_vars
             PROVE  Saving'
  OBVIOUS
<1>1. CASE SaveTmp
  BY <1>1 DEF SaveTmp, Saving, Current, ghost
<1>2. CASE FsyncTmp
  BY <1>2 DEF FsyncTmp, Saving, Current, ghost
<1>3. CASE Rename
  BY <1>3 DEF Rename, Saving, Current, ghost
<1>4. CASE FsyncDir
  BY <1>4 DEF FsyncDir, Saving, Current, ghost
<1> DEFINE Under == {"saved", "tmpsynced", "renamed", "dirsynced"}
<1>5. CASE Mutate
  <2>1. phase' \notin Under
    BY <1>5 DEF Mutate, Write, AppendFails, CanWrite, SyncRecord, SyncFails,
                ApplyRecord, SetPolicy
  <2> QED  BY <2>1 DEF Saving, Current
<1>6. CASE TruncateLog \/ CreateMarker \/ FsyncMarker \/ CheckpointFails
  <2>1. phase' \notin Under
    BY <1>6 DEF TruncateLog, CreateMarker, FsyncMarker, CheckpointFails
  <2> QED  BY <2>1 DEF Saving
<1>7. CASE Recover
  <2>1. phase' \notin Under
    BY <1>7 DEF Recover, OpenDir, ReplayRow, ReplayDone, AttachWal
  <2> QED  BY <2>1 DEF Saving
<1>8. CASE Environment
  <2>1. phase' \notin Under
    BY <1>8 DEF Environment, Close, Exit, ProcessCrash, MachineCrash
  <2> QED  BY <2>1 DEF Saving
<1>9. CASE UNCHANGED vars
  BY <1>9 DEF vars, files, ghost, Saving, Current
<1> QED  BY <1>1, <1>2, <1>3, <1>4, <1>5, <1>6, <1>7, <1>8, <1>9
         DEF Next, Checkpoint

-----------------------------------------------------------------------------
(***************************************************************************)
(* What recovery returns: theorems about DurableStore for any ids,         *)
(* vectors, policies, crashes and failed calls.  RecoveryInv ties the      *)
(* files to the history: the k-th frame of an unbroken log leads from one  *)
(* recorded state to the next, a snapshot holds the state its index names, *)
(* and every id has, at every row of a replay, the vector of the frames    *)
(* replayed or, while the log is behind the snapshot, that of the snapshot.*)
(***************************************************************************)

\* The map after a frame is the map before it, changed where the frame says.
Leads(before, frame, after) ==
  /\ UniqueIds(frame.rows)
  /\ \A i \in DOMAIN frame.rows :
       IF frame.op = "remove"
       THEN before[frame.rows[i].id] # NoVec /\ after[frame.rows[i].id] = NoVec
       ELSE before[frame.rows[i].id] = NoVec
            /\ after[frame.rows[i].id] = frame.rows[i].vec
  /\ \A id \in Ids \ RowIds(frame.rows) : after[id] = before[id]

Up       == phase \notin {"down", "replay", "replayed", "refused"}
InFlightPhase == phase \in {"logged", "durable"}

\* What memory holds while the directory is open.
MemCurrent ==
  /\ Up /\ ~InFlightPhase => Lookup(mem) = states[Len(states)]
  /\ InFlightPhase =>
       /\ Lookup(mem) = states[Len(states) - 1]
       /\ Lookup(Apply(mem, log[Len(log)])) = states[Len(states)]

\* A snapshot and a promise are of a state in the history, and not of that
\* of a call which may still fail.
Settled == IF InFlightPhase THEN Len(states) - 1 ELSE Len(states)

SnapBounds ==
  snap.disk.at <= snap.cur.at /\ snap.cur.at <= Settled

PromiseBounds ==
  promised.machine <= promised.process /\ promised.process <= Settled

\* What the policy asks for has been done before the call returns.
SyncDone ==
  phase = "durable" => /\ sync # "close" => flushed = Len(log)
                       /\ sync = "always" => synced = Len(log)

\* Frame k leads to state base + k, and nothing but cut frames follows the
\* first cut one.
LogLeads ==
  \A k \in DOMAIN log : CanRead(k) =>
    /\ \A j \in 1 .. k : CanRead(j)
    /\ base + k <= Len(states)
    /\ Leads(states[base + k - 1], log[k], states[base + k])

\* While the directory is open the log reaches the last state.
LogComplete == Up => \A k \in 1 .. Len(states) - base : CanRead(k)

\* The frames up to a promised state are safe from the crash in question.
Covered ==
  /\ \A k \in 1 .. promised.process - base : k <= flushed /\ CanRead(k)
  /\ \A k \in 1 .. promised.machine - base : k <= synced /\ CanRead(k)

SnapSound(file) ==
  RestoreOK(file.image) => Lookup(Restore(file.image)) = states[file.at]

\* What the rows replayed so far make of an id.
Target(id) ==
  IF /\ CanRead(cursor.rec)
     /\ \E i \in 1 .. cursor.row - 1 : log[cursor.rec].rows[i].id = id
  THEN states[base + Read + 1][id]
  ELSE states[base + Read][id]

Replaying ==
  phase \in {"replay", "replayed"} =>
    /\ \A k \in 1 .. Read : CanRead(k)
    /\ phase = "replayed" => ~CanRead(cursor.rec)
    /\ cursor.row > 1 => CanRead(cursor.rec)
    /\ cursor = Start => Lookup(mem) = states[snap.cur.at]
    /\ \A id \in Ids :
         \/ Lookup(mem)[id] = Target(id)
         \/ StaleLog /\ Lookup(mem)[id] = states[snap.cur.at][id]

\* Behind a truncation the log starts at the last state.
Emptied == phase \in {"truncated", "marked"} => base = Len(states)

Always == MemCurrent /\ SnapBounds /\ PromiseBounds /\ SyncDone /\ Emptied

WhileAligned ==
  aligned => /\ LogLeads /\ LogComplete /\ Covered
             /\ SnapSound(snap.cur) /\ SnapSound(snap.disk)
             /\ Replaying

\* Nothing accepted so far lies before the start of an unbroken log.
BaseInHistory == aligned => base <= Len(states)

\* As long as a power failure may undo the rename, an unbroken log reaches
\* from the old snapshot as far as the new one.
Reaches ==
  aligned => \/ snap.cur.at = snap.disk.at
             \/ \A k \in 1 .. snap.cur.at - base : CanRead(k)

GapInv == TypeInv /\ Saving /\ BaseInHistory /\ NoGap /\ Reaches

RecoveryInv == GapInv /\ Always /\ WhileAligned
LEMMA InitGapInv == Init => GapInv
<1> SUFFICES ASSUME Init
             PROVE  GapInv
  OBVIOUS
<1>1. Saving
  BY DEF Init, Saving
<1>2. Len(states) \in Nat \ {0}
  BY InitTypeInv, EmptySeq DEF TypeInv, Typed
<1>3. BaseInHistory /\ NoGap /\ Reaches
  BY <1>2 DEF Init, BaseInHistory, NoGap, Reaches, Absent
<1> QED  BY <1>1, <1>3, InitTypeInv DEF GapInv

\* checkpoint() empties the log only behind a snapshot that is intact on the
\* medium and holds every accepted write; no other step of a running engine
\* shortens it.
THEOREM LogDroppedOnlyDurable == Spec => DropOnlyDurable
<1> DEFINE Drop == phase # "down" /\ phase' # "down" /\ Len(log') < Len(log)
                     => /\ snap.disk.kind = "image" /\ snap.disk.safe
                        /\ snap.disk.image = SaveImage(mem)
<1>1. ASSUME TypeInv, Saving, [Next]_vars
      PROVE  [Drop]_vars
  <2> SUFFICES ASSUME Next, phase # "down", phase' # "down",
                      Len(log') < Len(log)
               PROVE  /\ snap.disk.kind = "image" /\ snap.disk.safe
                      /\ snap.disk.image = SaveImage(mem)
    BY <1>1
  <2>1. log \in Seq(Frames) /\ Len(log) \in Nat
    BY <1>1, LenProperties DEF TypeInv, Typed
  <2>2. log' # log /\ \A frame : log' # Append(log, frame)
    <3>1. \A frame : Len(Append(log, frame)) = Len(log) + 1
      BY <2>1
    <3> QED  BY <2>1, <3>1
  <2>3. TruncateLog
    BY <2>2 DEF Next, Mutate, Checkpoint, Recover, Environment, Write,
       AppendFails, SyncRecord, SyncFails, ApplyRecord, SetPolicy, SaveTmp,
       FsyncTmp, Rename, FsyncDir, CreateMarker, FsyncMarker, CheckpointFails,
       OpenDir, ReplayRow, ReplayDone, AttachWal, Close, Exit, ProcessCrash,
       MachineCrash
  <2> QED  BY <1>1, <2>3 DEF TruncateLog, Saving, Current
<1>2. Init => Saving
  BY DEF Init, Saving
<1> QED  BY <1>1, <1>2, SavingStep, TypeInvHolds, PTL
         DEF Spec, DropOnlyDurable
-----------------------------------------------------------------------------
-----------------------------------------------------------------------------
(* Frames                                                                  *)

\* A call that passes validation changes the ids of its frame and no other.
LEMMA AcceptedLeads ==
  ASSUME Typed, TablesOK, NEW frame, Accepts(frame)
  PROVE  Leads(Lookup(mem), frame, Lookup(Apply(mem, frame)))
<1>0. mem \in Tables /\ TablesConsistent(mem)
  BY DEF Typed, TablesOK
<1>1. CASE \E id \in Ids, vec \in Vecs :
             MayInsert(id) /\ frame = InsertFrame(id, vec)
  <2>1. PICK id \in Ids, vec \in Vecs :
          MayInsert(id) /\ frame = InsertFrame(id, vec)
    BY <1>1
  <2>2. /\ frame.op = "insert" /\ DOMAIN frame.rows = {1}
        /\ frame.rows[1].id = id /\ frame.rows[1].vec = vec
    BY <2>1 DEF InsertFrame
  <2>3. Apply(mem, frame) = AddRow(mem, id, vec)
    BY <2>2 DEF Apply
  <2>4. Lookup(mem)[id] = NoVec
    BY <2>1, <1>0, LookupLive DEF MayInsert
  <2>5. \A j \in Ids : Lookup(Apply(mem, frame))[j] =
                         IF j = id THEN vec ELSE Lookup(mem)[j]
    BY <2>3, <1>0, LookupAddRow
  <2> QED  BY <2>2, <2>4, <2>5 DEF Leads, UniqueIds, RowIds
<1>2. CASE \E batch \in Batches :
             /\ UniqueIds(batch)
             /\ \A id \in RowIds(batch) : MayInsert(id)
             /\ frame = BulkFrame(batch)
  <2>1. PICK batch \in Batches :
             /\ UniqueIds(batch)
             /\ \A id \in RowIds(batch) : MayInsert(id)
             /\ frame = BulkFrame(batch)
    BY <1>2
  <2>2. batch \in Seq(Row) /\ DOMAIN batch = 1 .. Len(batch)
        /\ frame.op = "bulk" /\ frame.rows = batch
    BY <2>1, BatchesAreSequences, LenProperties DEF BulkFrame
  <2>3. Apply(mem, frame) = AddBatch(mem, batch)
    BY <2>2 DEF Apply
  <2>4. \A j \in Ids : Lookup(Apply(mem, frame))[j] =
                         IF j \in RowIds(batch) THEN batch[PositionIn(batch, j)].vec
                                                ELSE Lookup(mem)[j]
    BY <2>2, <2>3, <1>0, LookupAddBatch
  <2>5. ASSUME NEW i \in DOMAIN batch
        PROVE  /\ batch[i].id \in Ids
               /\ Lookup(mem)[batch[i].id] = NoVec
               /\ Lookup(Apply(mem, frame))[batch[i].id] = batch[i].vec
    <3>1. batch[i].id \in RowIds(batch) /\ batch[i].id \in Ids
      BY <2>2, RowIdsType DEF RowIds
    <3>2. Lookup(mem)[batch[i].id] = NoVec
      BY <3>1, <2>1, <1>0, LookupLive DEF MayInsert
    <3>3. PositionIn(batch, batch[i].id) = i
      BY <3>1, <2>1, <2>2, PositionInRows DEF UniqueIds
    <3> QED  BY <3>1, <3>2, <3>3, <2>4
  <2> QED  BY <2>1, <2>2, <2>4, <2>5 DEF Leads
<1>3. CASE \E id \in Ids : IsLive(mem, id) /\ frame = RemoveFrame(id)
  <2>1. PICK id \in Ids : IsLive(mem, id) /\ frame = RemoveFrame(id)
    BY <1>3
  <2>2. /\ frame.op = "remove" /\ DOMAIN frame.rows = {1}
        /\ frame.rows[1].id = id
    BY <2>1 DEF RemoveFrame
  <2>3. Apply(mem, frame) = RemoveRow(mem, id)
    BY <2>2 DEF Apply
  <2>4. Lookup(mem)[id] # NoVec
    BY <2>1, <1>0, LookupLive
  <2>5. \A j \in Ids : Lookup(Apply(mem, frame))[j] =
                         IF j = id THEN NoVec ELSE Lookup(mem)[j]
    BY <2>3, <1>0, LookupRemoveRow
  <2> QED  BY <2>2, <2>4, <2>5 DEF Leads, UniqueIds, RowIds
<1> QED  BY <1>1, <1>2, <1>3 DEF Accepts

LEMMA Bounds ==
  ASSUME TypeInv
  PROVE  /\ states \in Seq([Ids -> Vecs \cup {NoVec}])
         /\ Len(states) \in Nat \ {0}
         /\ log \in Seq(Frames) /\ Len(log) \in Nat /\ DOMAIN log = 1 .. Len(log)
         /\ base \in Nat \ {0} /\ flushed \in Nat /\ synced \in Nat
         /\ promised.process \in Nat /\ promised.machine \in Nat
         /\ snap.cur.at \in Nat \ {0} /\ snap.disk.at \in Nat \ {0}
         /\ cursor.rec \in Nat \ {0} /\ cursor.row \in Nat \ {0} /\ Read \in Nat
<1>1. states \in Seq([Ids -> Vecs \cup {NoVec}]) /\ states # <<>>
  BY DEF TypeInv, Typed
<1>2. Len(states) \in Nat \ {0}
  BY <1>1, EmptySeq
<1>3. log \in Seq(Frames) /\ Len(log) \in Nat /\ DOMAIN log = 1 .. Len(log)
  BY LenProperties DEF TypeInv, Typed
<1> QED  BY <1>1, <1>2, <1>3 DEF TypeInv, Typed, Files, Read

\* What could be read can be read behind an append.
LEMMA AppendReads ==
  ASSUME log \in Seq(Frames), NEW frame \in Frames, log' = Append(log, frame)
  PROVE  \A k : CanRead(k) => CanRead(k)'
<1>1. /\ Len(log) \in Nat /\ DOMAIN log = 1 .. Len(log)
      /\ DOMAIN log' = 1 .. Len(log) + 1
      /\ \A k \in 1 .. Len(log) : log'[k] = log[k]
  BY LenProperties
<1> QED  BY <1>1 DEF CanRead

\* History starts over from the recovered state.
LEMMA AttachedLength ==
  ASSUME TypeInv, AttachWal
  PROVE  Len(states') = Recovered
<1> DEFINE Maps == [Ids -> Vecs \cup {NoVec}]
           kept == SubSeq(states, 1, Recovered - 1)
<1>1. states \in Seq(Maps)
  BY DEF TypeInv, Typed
<1>2. Recovered \in 1 .. Len(states) /\ Len(states) \in Nat \ {0}
  BY RecoveredType
<1>3. Lookup(mem) \in Maps
  BY LookupType DEF TypeInv, Typed, TablesOK
<1> HIDE DEF Maps
<1>4. ASSUME NEW i \in 1 .. Recovered - 1
      PROVE  states[i] \in Maps
  <2>1. i \in 1 .. Len(states)
    BY <1>2
  <2> QED  BY <2>1, <1>1, ElementOfSeq
<1>5. kept \in Seq(Maps) /\ Len(kept) = Recovered - 1
  <2>1. PICK n \in Int : n = Recovered - 1 /\ 0 <= n
    BY <1>2
  <2>2. SubSeq(states, 1, n) \in Seq(Maps)
        /\ Len(SubSeq(states, 1, n)) = IF 1 <= n THEN n - 1 + 1 ELSE 0
    BY <1>4, <2>1, SubSeqProperties
  <2> QED  BY <2>1, <2>2
<1>6. states' = Append(kept, Lookup(mem))
  BY DEF AttachWal
<1>7. Len(Append(kept, Lookup(mem))) = Len(kept) + 1
  <2> HIDE DEF kept
  <2> QED  BY <1>3, <1>5
<1> QED  BY <1>2, <1>5, <1>6, <1>7

\* What a crash leaves of the log reads like the log did, as far as it goes,
\* and it goes at least as far as the frames that were safe.
LEMMA CrashedLog ==
  ASSUME TypeInv, NEW kept \in Nat, log' \in Remains(kept)
  PROVE  /\ kept <= Len(log') /\ Len(log') \in Nat
         /\ \A i : CanRead(i)' => /\ CanRead(i) /\ log'[i] = log[i]
                                  /\ \A j \in 1 .. i : CanRead(j) => CanRead(j)'
         /\ \A i \in 1 .. kept : CanRead(i) => CanRead(i)'
<1>1. log \in Seq(Frames) /\ Len(log) \in Nat /\ DOMAIN log = 1 .. Len(log)
  BY Bounds
<1>2. PICK k \in kept .. Len(log) :
        log' \in {SubSeq(log, 1, k), Append(SubSeq(log, 1, k), Torn)}
  <2>1. CASE log' \in {SubSeq(log, 1, k) : k \in kept .. Len(log)}
    BY <2>1
  <2>2. CASE log' \in {Append(SubSeq(log, 1, k), Torn) : k \in kept .. Len(log) - 1}
    <3>1. PICK k \in kept .. Len(log) - 1 : log' = Append(SubSeq(log, 1, k), Torn)
      BY <2>2
    <3>2. k \in kept .. Len(log)
      BY <1>1
    <3> QED  BY <3>1, <3>2
  <2> QED  BY <2>1, <2>2 DEF Remains
<1>3. k \in Nat /\ k <= Len(log) /\ kept <= k
  BY <1>1
<1> DEFINE head == SubSeq(log, 1, k)
<1>4. head \in Seq(Frames) /\ Len(head) = k /\ \A i \in 1 .. k : head[i] = log[i]
  <2>1. \A i \in 1 .. k : log[i] \in Frames
    BY <1>1, <1>3, ElementOfSeq
  <2>2. /\ head \in Seq(Frames)
        /\ Len(head) = IF 1 <= k THEN k - 1 + 1 ELSE 0
        /\ \A i \in 1 .. k - 1 + 1 : head[i] = log[1 + i - 1]
    BY <1>3, <2>1, SubSeqProperties
  <2> QED  BY <2>2, <1>3
<1>5. Torn \in Frames /\ Torn.op = "torn"
  BY DEF Torn, Frames
<1>6. /\ DOMAIN log' \in {1 .. k, 1 .. k + 1} /\ Len(log') \in {k, k + 1}
      /\ \A i \in 1 .. k : log'[i] = log[i]
      /\ k + 1 \in DOMAIN log' => log'[k + 1].op = "torn"
  <2> HIDE DEF head
  <2>1. CASE log' = head
    <3>1. DOMAIN log' = 1 .. k /\ k + 1 \notin 1 .. k
      BY <2>1, <1>3, <1>4, LenProperties
    <3> QED  BY <3>1, <2>1, <1>4
  <2>2. CASE log' = Append(head, Torn)
    <3>1. /\ Len(log') = k + 1 /\ DOMAIN log' = 1 .. k + 1
          /\ \A i \in 1 .. k : log'[i] = head[i]
          /\ log'[k + 1] = Torn
      BY <2>2, <1>3, <1>4, <1>5
    <3> QED  BY <3>1, <1>4, <1>5
  <2> QED  BY <2>1, <2>2, <1>2 DEF head
<1>7. \A i : CanRead(i)' <=> i \in 1 .. k /\ CanRead(i)
  <2> SUFFICES ASSUME NEW i
               PROVE  CanRead(i)' <=> i \in 1 .. k /\ CanRead(i)
    OBVIOUS
  <2>1. CASE i \in 1 .. k
    BY <2>1, <1>1, <1>3, <1>6 DEF CanRead
  <2>2. CASE i \notin 1 .. k
    <3>1. i \in DOMAIN log' => i = k + 1
      BY <2>2, <1>3, <1>6
    <3> QED  BY <3>1, <2>2, <1>6 DEF CanRead
  <2> QED  BY <2>1, <2>2
<1>8. ASSUME NEW i, CanRead(i)', NEW j \in 1 .. i, CanRead(j)
      PROVE  CanRead(j)'
  <2>1. i \in 1 .. k
    BY <1>7, <1>8
  <2>2. j \in 1 .. k
    BY <2>1, <1>3
  <2> QED  BY <2>2, <1>7, <1>8
<1>9. kept <= Len(log') /\ Len(log') \in Nat
  BY <1>3, <1>6
<1>10. \A i \in 1 .. kept : i \in 1 .. k
  BY <1>3
<1> QED  BY <1>6, <1>7, <1>8, <1>9, <1>10

LEMMA InitRecoveryInv == Init => RecoveryInv
<1> SUFFICES ASSUME Init
             PROVE  RecoveryInv
  OBVIOUS
<1>1. GapInv
  BY InitGapInv
<1>2. /\ Len(states) = 1 /\ states[1] = Lookup(EmptyTables)
      /\ log = <<>> /\ base = 1 /\ phase = "down"
      /\ snap.cur = Absent /\ snap.disk = Absent
      /\ promised = [process |-> 1, machine |-> 1]
  BY DEF Init
<1>3. Always
  BY <1>2 DEF Always, MemCurrent, Up, InFlightPhase, SnapBounds, Settled,
              PromiseBounds, SyncDone, Emptied, Absent
<1>4. \A k : ~CanRead(k)
  BY <1>2 DEF CanRead
<1>5. SnapSound(Absent)
  <2>1. Restore(EmptyImage) = EmptyTables
    BY DEF Restore, EmptyImage, SaveImage, EmptyTables, RowIds
  <2> QED  BY <2>1, <1>2 DEF SnapSound, Absent
<1>6. Covered
  BY <1>2 DEF Covered
<1> QED  BY <1>1, <1>2, <1>3, <1>4, <1>5, <1>6
         DEF RecoveryInv, WhileAligned, LogLeads, LogComplete, Up, Replaying

-----------------------------------------------------------------------------
(* insert, insert_bulk and remove                                          *)

\* With no cut frame in it an unbroken log has one frame for every state
\* behind its start.
LEMMA LogReachesEnd ==
  ASSUME TypeInv, BaseInHistory, aligned, LogLeads, LogComplete, Up,
         \A k \in DOMAIN log : log[k].op # "torn"
  PROVE  base + Len(log) = Len(states)
<1>1. /\ Len(states) \in Nat \ {0} /\ Len(log) \in Nat
      /\ DOMAIN log = 1 .. Len(log) /\ base \in Nat \ {0}
  BY Bounds
<1>2. base <= Len(states)
  BY DEF BaseInHistory
<1>3. base + Len(log) <= Len(states)
  <2>1. CASE Len(log) = 0
    BY <2>1, <1>1, <1>2
  <2>2. CASE Len(log) # 0
    <3>1. Len(log) \in DOMAIN log
      BY <2>2, <1>1
    <3> QED  BY <3>1 DEF LogLeads, CanRead
  <2> QED  BY <2>1, <2>2
<1>4. Len(states) - base <= Len(log)
  <2>1. CASE Len(states) = base
    BY <2>1, <1>1
  <2>2. CASE Len(states) # base
    <3>1. Len(states) - base \in 1 .. Len(states) - base
      BY <2>2, <1>1, <1>2
    <3>2. Len(states) - base \in DOMAIN log
      BY <3>1 DEF LogComplete, CanRead
    <3> QED  BY <3>2, <1>1
  <2> QED  BY <2>1, <2>2
<1> QED  BY <1>1, <1>3, <1>4

LEMMA WriteRecovers ==
  ASSUME RecoveryInv, NEW frame, Write(frame)
  PROVE  Always' /\ WhileAligned'
<1>1. TypeInv /\ Always
  BY DEF RecoveryInv, GapInv
<1> DEFINE Maps == [Ids -> Vecs \cup {NoVec}]
           next == Lookup(Apply(mem, frame))
           L == Len(states)
           n == Len(log)
<1>2. /\ states \in Seq(Maps) /\ L \in Nat \ {0}
      /\ log \in Seq(Frames) /\ n \in Nat /\ DOMAIN log = 1 .. n
      /\ base \in Nat \ {0}
      /\ promised.process \in Nat /\ promised.machine \in Nat
      /\ snap.cur.at \in Nat \ {0} /\ snap.disk.at \in Nat \ {0}
  BY <1>1, Bounds
<1>3. frame \in Frames /\ frame.op # "torn"
  BY AcceptedFrame DEF Write
<1>4. /\ Len(states') = L + 1 /\ states'[L + 1] = next
      /\ \A i \in 1 .. L : states'[i] = states[i]
  <2>1. states' = Append(states, next)
    BY DEF Write
  <2> HIDE DEF Maps, next, L
  <2> QED  BY <2>1, <1>2 DEF L
<1>5. /\ Len(log') = n + 1 /\ log'[n + 1] = frame /\ DOMAIN log' = 1 .. n + 1
      /\ \A i \in 1 .. n : log'[i] = log[i]
  <2>1. log' = Append(log, frame)
    BY DEF Write
  <2> HIDE DEF n
  <2> QED  BY <2>1, <1>2, <1>3 DEF n
<1>6. /\ phase = "ready" /\ phase' = "logged" /\ mem' = mem /\ base' = base
      /\ promised' = promised /\ snap' = snap /\ flushed' = flushed
      /\ synced' = synced
  BY DEF Write, CanWrite, files
<1>7. Lookup(mem) = states[L]
  BY <1>1, <1>6 DEF Always, MemCurrent, Up, InFlightPhase
<1>8. Always'
  <2>1. MemCurrent'
    BY <1>2, <1>4, <1>5, <1>6, <1>7 DEF MemCurrent, Up, InFlightPhase
  <2>2. SnapBounds' /\ PromiseBounds'
    BY <1>1, <1>2, <1>4, <1>6
       DEF Always, SnapBounds, PromiseBounds, Settled, InFlightPhase
  <2> QED  BY <2>1, <2>2, <1>6 DEF Always, SyncDone, Emptied
<1>9. ASSUME aligned'
      PROVE  /\ LogLeads' /\ LogComplete' /\ Covered'
             /\ SnapSound(snap.cur)' /\ SnapSound(snap.disk)' /\ Replaying'
  <2>1. aligned /\ \A k \in DOMAIN log : log[k].op # "torn"
    BY <1>9 DEF Write
  <2>2. /\ LogLeads /\ LogComplete /\ Covered /\ BaseInHistory
        /\ SnapSound(snap.cur) /\ SnapSound(snap.disk)
    BY <2>1 DEF RecoveryInv, GapInv, WhileAligned
  <2>3. base + n = L
    BY <1>1, <1>6, <2>1, <2>2, LogReachesEnd DEF Up
  <2> HIDE DEF L, n, next, Maps
  <2>4. \A k \in 1 .. n + 1 : CanRead(k)'
    <3> SUFFICES ASSUME NEW k \in 1 .. n + 1
                 PROVE  log'[k].op # "torn"
      BY <1>5 DEF CanRead
    <3>1. k \in 1 .. n \/ k = n + 1
      BY <1>2
    <3> QED  BY <3>1, <2>1, <1>2, <1>3, <1>5
  <2>5. LogLeads'
    <3> SUFFICES ASSUME NEW k \in 1 .. n + 1
                 PROVE  /\ \A j \in 1 .. k : CanRead(j)'
                        /\ base + k <= L + 1
                        /\ Leads(states'[base + k - 1], log'[k], states'[base + k])
      BY <1>4, <1>5, <1>6 DEF LogLeads
    <3>1. \A j \in 1 .. k : j \in 1 .. n + 1
      BY <1>2
    <3>2. CASE k \in 1 .. n
      <4>1. CanRead(k)
        BY <3>2, <1>2, <2>1 DEF CanRead
      <4>2. Leads(states[base + k - 1], log[k], states[base + k])
        BY <4>1, <3>2, <1>2, <2>2 DEF LogLeads
      <4>3. base + k - 1 \in 1 .. L /\ base + k \in 1 .. L
        BY <3>2, <2>3, <1>2
      <4> QED  BY <3>1, <3>2, <4>2, <4>3, <2>3, <2>4, <1>2, <1>4, <1>5
    <3>3. CASE k = n + 1
      <4>1. Leads(states[L], frame, next)
        BY <1>1, <1>7, AcceptedLeads DEF Write, TypeInv, next
      <4>2. base + k - 1 = L /\ base + k = L + 1 /\ L \in 1 .. L
        BY <3>3, <2>3, <1>2
      <4> QED  BY <3>1, <3>3, <4>1, <4>2, <2>4, <1>2, <1>4, <1>5
    <3> QED  BY <3>2, <3>3, <1>2
  <2>6. LogComplete'
    <3>1. Len(states') - base' = n + 1
      BY <2>3, <1>2, <1>4, <1>6
    <3> QED  BY <3>1, <2>4 DEF LogComplete
  <2>7. Covered'
    <3>1. \A k : CanRead(k) => CanRead(k)'
      BY <2>4, <1>2 DEF CanRead
    <3> QED  BY <3>1, <2>2, <1>6 DEF Covered
  <2>8. SnapSound(snap.cur)' /\ SnapSound(snap.disk)'
    <3>1. snap.cur.at \in 1 .. L /\ snap.disk.at \in 1 .. L
      BY <1>1, <1>2, <1>6 DEF Always, SnapBounds, Settled, InFlightPhase, L
    <3> QED  BY <3>1, <2>2, <1>4, <1>6 DEF SnapSound
  <2> QED  BY <2>5, <2>6, <2>7, <2>8, <1>6 DEF Replaying
<1> QED  BY <1>8, <1>9 DEF WhileAligned

LEMMA AppendFailsRecovers ==
  ASSUME RecoveryInv, NEW frame, AppendFails(frame)
  PROVE  Always' /\ WhileAligned'
<1>1. TypeInv /\ Always
  BY DEF RecoveryInv, GapInv
<1>2. /\ phase = "ready" /\ phase' = "ready" /\ mem' = mem /\ base' = base
      /\ states' = states /\ aligned' = aligned
      /\ promised' = promised /\ snap' = snap /\ flushed' = flushed
      /\ synced' = synced /\ log' \in {log, Append(log, Torn)}
  BY DEF AppendFails, CanWrite, files, ghost
<1>3. \A k : /\ CanRead(k)' <=> CanRead(k)
             /\ CanRead(k) => log'[k] = log[k]
  <2>1. log \in Seq(Frames) /\ Len(log) \in Nat /\ DOMAIN log = 1 .. Len(log)
    BY <1>1, Bounds
  <2>2. CASE log' = Append(log, Torn)
    <3>1. Torn \in Frames /\ Torn.op = "torn"
      BY DEF Torn, Frames
    <3>2. /\ DOMAIN log' = 1 .. Len(log) + 1 /\ log'[Len(log) + 1] = Torn
          /\ \A k \in 1 .. Len(log) : log'[k] = log[k]
      BY <2>1, <2>2, <3>1
    <3>3. \A k \in 1 .. Len(log) + 1 : k \in 1 .. Len(log) \/ k = Len(log) + 1
      BY <2>1
    <3>4. \A k \in 1 .. Len(log) : k \in 1 .. Len(log) + 1
      BY <2>1
    <3> QED  BY <2>1, <3>1, <3>2, <3>3, <3>4 DEF CanRead
  <2>3. CASE log' = log
    BY <2>3 DEF CanRead
  <2> QED  BY <1>2, <2>2, <2>3
<1>4. Always'
  BY <1>1, <1>2 DEF Always, MemCurrent, Up, InFlightPhase, SnapBounds, Settled,
                    PromiseBounds, SyncDone, Emptied
<1>5. ASSUME aligned
      PROVE  /\ LogLeads' /\ LogComplete' /\ Covered'
             /\ SnapSound(snap.cur)' /\ SnapSound(snap.disk)' /\ Replaying'
  <2>1. /\ LogLeads /\ LogComplete /\ Covered
        /\ SnapSound(snap.cur) /\ SnapSound(snap.disk)
    BY <1>5 DEF RecoveryInv, WhileAligned
  <2>2. LogLeads'
    <3> SUFFICES ASSUME NEW k, CanRead(k)
                 PROVE  /\ \A j \in 1 .. k : CanRead(j)
                        /\ base + k <= Len(states)
                        /\ Leads(states[base + k - 1], log[k], states[base + k])
      BY <1>2, <1>3 DEF LogLeads
    <3>1. k \in DOMAIN log
      BY DEF CanRead
    <3> QED  BY <3>1, <2>1 DEF LogLeads
  <2>3. LogComplete' /\ Covered'
    BY <2>1, <1>2, <1>3 DEF LogComplete, Covered, Up
  <2>4. SnapSound(snap.cur)' /\ SnapSound(snap.disk)'
    BY <2>1, <1>2 DEF SnapSound
  <2> QED  BY <2>2, <2>3, <2>4, <1>2 DEF Replaying
<1> QED  BY <1>2, <1>4, <1>5 DEF WhileAligned

\* A frame that is covered is still covered when more of the log is safe.
LEMMA SyncRecovers ==
  ASSUME RecoveryInv, SyncRecord
  PROVE  Always' /\ WhileAligned'
<1>1. TypeInv /\ Always
  BY DEF RecoveryInv, GapInv
<1>2. /\ phase = "logged" /\ phase' = "durable" /\ mem' = mem /\ base' = base
      /\ states' = states /\ aligned' = aligned /\ log' = log /\ sync' = sync
      /\ promised' = promised /\ snap' = snap
      /\ flushed' = IF sync = "close" THEN flushed ELSE Len(log)
      /\ synced' = IF sync = "always" THEN Len(log) ELSE synced
  BY DEF SyncRecord, files, ghost
<1>3. Always'
  BY <1>1, <1>2 DEF Always, MemCurrent, Up, InFlightPhase, SnapBounds, Settled,
                    PromiseBounds, SyncDone, Emptied
<1>4. ASSUME aligned
      PROVE  /\ LogLeads' /\ LogComplete' /\ Covered'
             /\ SnapSound(snap.cur)' /\ SnapSound(snap.disk)' /\ Replaying'
  <2>1. /\ LogLeads /\ LogComplete /\ Covered
        /\ SnapSound(snap.cur) /\ SnapSound(snap.disk)
    BY <1>4 DEF RecoveryInv, WhileAligned
  <2>2. LogLeads' /\ LogComplete'
    BY <2>1, <1>2 DEF LogLeads, LogComplete, Up, CanRead
  <2>3. Covered'
    <3>1. DOMAIN log = 1 .. Len(log) /\ Len(log) \in Nat
      BY <1>1, Bounds
    <3>2. \A k : CanRead(k) => k <= Len(log) /\ CanRead(k)'
      BY <1>2, <3>1 DEF CanRead
    <3> QED  BY <3>2, <2>1, <1>2 DEF Covered
  <2>4. SnapSound(snap.cur)' /\ SnapSound(snap.disk)'
    BY <2>1, <1>2 DEF SnapSound
  <2> QED  BY <2>2, <2>3, <2>4, <1>2 DEF Replaying
<1> QED  BY <1>2, <1>3, <1>4 DEF WhileAligned

\* The state of the call that failed leaves the history; no snapshot and no
\* promise was of it.
LEMMA SyncFailsRecovers ==
  ASSUME RecoveryInv, SyncFails
  PROVE  Always' /\ WhileAligned'
<1>1. TypeInv /\ Always
  BY DEF RecoveryInv, GapInv
<1> DEFINE Maps == [Ids -> Vecs \cup {NoVec}]
<1>2. /\ phase = "logged" /\ phase' = "ready" /\ mem' = mem
      /\ aligned' = FALSE /\ promised' = promised /\ snap' = snap
      /\ states' = SubSeq(states, 1, Len(states) - 1)
  BY DEF SyncFails, files
<1>3. states \in Seq(Maps) /\ Len(states) \in Nat /\ Len(states) > 1
  BY <1>1, <1>2, Bounds DEF TypeInv, InFlight
<1>4. /\ Len(states') = Len(states) - 1
      /\ states'[Len(states) - 1] = states[Len(states) - 1]
  <2> HIDE DEF Maps
  <2>1. PICK m \in Nat : m = Len(states) - 1 /\ 1 <= m
    BY <1>3
  <2>2. \A i \in 1 .. m : states[i] \in Maps
    <3> SUFFICES ASSUME NEW i \in 1 .. m
                 PROVE  states[i] \in Maps
      OBVIOUS
    <3>1. i \in 1 .. Len(states)
      BY <1>3, <2>1
    <3> QED  BY <3>1, <1>3, ElementOfSeq
  <2>3. /\ Len(SubSeq(states, 1, m)) = m - 1 + 1
        /\ \A i \in 1 .. m - 1 + 1 : SubSeq(states, 1, m)[i] = states[1 + i - 1]
    BY <2>1, <2>2, SubSeqProperties
  <2>4. m \in 1 .. m - 1 + 1 /\ 1 + m - 1 = m /\ m - 1 + 1 = m
    BY <2>1
  <2> QED  BY <2>1, <2>3, <2>4, <1>2
<1>5. Always'
  BY <1>1, <1>2, <1>3, <1>4
     DEF Always, MemCurrent, Up, InFlightPhase, SnapBounds, Settled,
         PromiseBounds, SyncDone, Emptied
<1> QED  BY <1>2, <1>5 DEF WhileAligned

\* What is promised by a return of kOk was made safe before.
LEMMA ApplyRecovers ==
  ASSUME RecoveryInv, ApplyRecord
  PROVE  Always' /\ WhileAligned'
<1>1. TypeInv /\ Always
  BY DEF RecoveryInv, GapInv
<1>2. /\ phase = "durable" /\ phase' = "ready" /\ base' = base
      /\ states' = states /\ aligned' = aligned /\ log' = log /\ sync' = sync
      /\ snap' = snap /\ flushed' = flushed /\ synced' = synced
      /\ mem' = Apply(mem, log[Len(log)])
      /\ promised'.process = IF sync = "close" THEN promised.process
                                               ELSE Len(states)
      /\ promised'.machine = IF sync = "always" THEN Len(states)
                                                ELSE promised.machine
  BY DEF ApplyRecord, files
<1>3. /\ Len(states) \in Nat \ {0} /\ Len(log) \in Nat
      /\ DOMAIN log = 1 .. Len(log) /\ base \in Nat
      /\ promised.process \in Nat /\ promised.machine \in Nat
      /\ snap.cur.at \in Nat /\ snap.disk.at \in Nat
  BY <1>1, Bounds
<1>4. Always'
  <2>1. MemCurrent' /\ SyncDone' /\ Emptied'
    BY <1>1, <1>2 DEF Always, MemCurrent, Up, InFlightPhase, SyncDone, Emptied
  <2>2. SnapBounds' /\ PromiseBounds'
    BY <1>1, <1>2, <1>3
       DEF Always, SnapBounds, PromiseBounds, Settled, InFlightPhase
  <2> QED  BY <2>1, <2>2 DEF Always
<1>5. ASSUME aligned
      PROVE  /\ LogLeads' /\ LogComplete' /\ Covered'
             /\ SnapSound(snap.cur)' /\ SnapSound(snap.disk)' /\ Replaying'
  <2>1. /\ LogLeads /\ LogComplete /\ Covered
        /\ SnapSound(snap.cur) /\ SnapSound(snap.disk)
    BY <1>5 DEF RecoveryInv, WhileAligned
  <2>2. LogLeads' /\ LogComplete'
    BY <2>1, <1>2 DEF LogLeads, LogComplete, Up, CanRead
  <2>3. Covered'
    <3>1. \A k : CanRead(k) => k <= Len(log) /\ CanRead(k)'
      BY <1>2, <1>3 DEF CanRead
    <3>2. \A k \in 1 .. Len(states) - base : CanRead(k)
      BY <2>1, <1>2 DEF LogComplete, Up
    <3>3. /\ sync # "close" => flushed = Len(log)
          /\ sync = "always" => synced = Len(log)
      BY <1>1, <1>2 DEF Always, SyncDone
    <3> QED  BY <3>1, <3>2, <3>3, <2>1, <1>2 DEF Covered
  <2>4. SnapSound(snap.cur)' /\ SnapSound(snap.disk)'
    BY <2>1, <1>2 DEF SnapSound
  <2> QED  BY <2>2, <2>3, <2>4, <1>2 DEF Replaying
<1> QED  BY <1>2, <1>4, <1>5 DEF WhileAligned

LEMMA SetPolicyRecovers ==
  ASSUME RecoveryInv, NEW policy, SetPolicy(policy)
  PROVE  Always' /\ WhileAligned'
<1>1. /\ phase = "ready" /\ phase' = "ready"
      /\ UNCHANGED <<mem, log, flushed, synced, snap, cursor, states, base,
                     promised, aligned>>
  BY DEF SetPolicy, files, ghost
<1>2. Always'
  BY <1>1 DEF RecoveryInv, Always, MemCurrent, Up, InFlightPhase, SnapBounds,
              Settled, PromiseBounds, SyncDone, Emptied
<1>3. WhileAligned'
  BY <1>1 DEF RecoveryInv, WhileAligned, LogLeads, LogComplete, Covered, Up,
              CanRead, SnapSound, Replaying
<1> QED  BY <1>2, <1>3

-----------------------------------------------------------------------------
(* checkpoint, close and the end of the process                            *)

\* The image of the current tables restores the last state.
LEMMA CurrentSound ==
  ASSUME RecoveryInv, phase \in {"tmpsynced", "dirsynced"}, NEW file, Current(file)
  PROVE  SnapSound(file)
<1>1. mem \in Tables /\ TablesConsistent(mem)
  BY DEF RecoveryInv, GapInv, TypeInv, Typed, TablesOK
<1>2. file.image = SaveImage(mem) /\ file.at = Len(states)
  BY DEF Current
<1>3. Lookup(mem) = states[Len(states)]
  BY DEF RecoveryInv, Always, MemCurrent, Up, InFlightPhase
<1>4. RestoreOK(file.image) => UniqueIds(mem.rows)
  BY <1>2 DEF RestoreOK, SaveImage
<1> QED  BY <1>1, <1>2, <1>3, <1>4, LookupRestore DEF SnapSound

LEMMA CheckpointRecovers ==
  ASSUME RecoveryInv, Checkpoint
  PROVE  Always' /\ WhileAligned'
<1>1. TypeInv /\ Saving /\ Always
  BY DEF RecoveryInv, GapInv
<1>2. /\ Len(states) \in Nat \ {0} /\ Len(log) \in Nat
      /\ base \in Nat \ {0} /\ flushed \in Nat /\ synced \in Nat
      /\ promised.process \in Nat /\ promised.machine \in Nat
      /\ snap.cur.at \in Nat /\ snap.disk.at \in Nat
  BY <1>1, Bounds
<1>3. snap = [cur |-> snap.cur, disk |-> snap.disk]
  BY <1>1 DEF TypeInv, Typed
<1>4. ASSUME NEW cur, NEW disk, snap' = [cur |-> cur, disk |-> disk],
             Up, Up', ~InFlightPhase, ~InFlightPhase',
             UNCHANGED <<mem, log, flushed, synced, ghost>>,
             SnapBounds', Emptied',
             aligned => SnapSound(cur) /\ SnapSound(disk)
      PROVE  Always' /\ WhileAligned'
  <2>1. Always'
    BY <1>1, <1>4 DEF Always, MemCurrent, Up, InFlightPhase, PromiseBounds,
                      Settled, SyncDone, ghost
  <2>2. snap'.cur = cur /\ snap'.disk = disk
    BY <1>4
  <2>3. WhileAligned'
    BY <1>4, <2>2 DEF RecoveryInv, WhileAligned, LogLeads, LogComplete, Covered,
                      Up, CanRead, SnapSound, Replaying, ghost
  <2> QED  BY <2>1, <2>3
<1>5. CASE SaveTmp \/ FsyncTmp \/ CreateMarker
  <2>1. /\ snap' = snap /\ Up /\ Up' /\ ~InFlightPhase /\ ~InFlightPhase'
        /\ UNCHANGED <<mem, log, flushed, synced, ghost>>
    BY <1>5 DEF SaveTmp, FsyncTmp, CreateMarker, Up, InFlightPhase
  <2>2. SnapBounds' /\ Emptied'
    BY <1>1, <1>5, <2>1 DEF SaveTmp, FsyncTmp, CreateMarker, Always, SnapBounds,
                            Settled, Emptied, ghost
  <2>3. aligned => SnapSound(snap.cur) /\ SnapSound(snap.disk)
    BY DEF RecoveryInv, WhileAligned
  <2> QED  BY <2>1, <2>2, <2>3, <1>3, <1>4
<1>6. CASE Rename
  <2>1. /\ phase = "tmpsynced" /\ phase' = "renamed"
        /\ snap' = [cur |-> tmp, disk |-> snap.disk]
        /\ UNCHANGED <<mem, log, flushed, synced, ghost>>
    BY <1>3, <1>6 DEF Rename
  <2>2. Up /\ Up' /\ ~InFlightPhase /\ ~InFlightPhase' /\ Emptied'
    BY <2>1 DEF Up, InFlightPhase, Emptied
  <2>3. Current(tmp) /\ SnapSound(tmp)
    BY <1>1, <2>1, CurrentSound DEF Saving
  <2>4. SnapBounds'
    BY <1>1, <1>2, <2>1, <2>2, <2>3
       DEF Always, SnapBounds, Settled, Current, InFlightPhase, ghost
  <2>5. aligned => SnapSound(snap.disk)
    BY DEF RecoveryInv, WhileAligned
  <2> QED  BY <2>1, <2>2, <2>3, <2>4, <2>5, <1>4
<1>7. CASE FsyncDir \/ CheckpointFails
  <2>1. /\ snap' = [cur |-> snap.cur, disk |-> snap'.disk]
        /\ snap'.disk \in {snap.cur, snap.disk}
        /\ UNCHANGED <<mem, log, flushed, synced, ghost>>
        /\ Up /\ Up' /\ ~InFlightPhase /\ ~InFlightPhase' /\ Emptied'
    BY <1>3, <1>7 DEF FsyncDir, CheckpointFails, Up, InFlightPhase, Emptied
  <2>2. SnapBounds'
    <3>1. snap'.cur = snap.cur
      BY <2>1
    <3> QED  BY <1>1, <1>2, <2>1, <3>1 DEF Always, SnapBounds, Settled, ghost
  <2>3. aligned => SnapSound(snap.cur) /\ SnapSound(snap'.disk)
    BY <2>1 DEF RecoveryInv, WhileAligned
  <2> QED  BY <2>1, <2>2, <2>3, <1>4
<1>8. CASE TruncateLog
  <2>1. /\ phase = "dirsynced" /\ phase' = "truncated"
        /\ log' = <<>> /\ base' = Len(states)
        /\ UNCHANGED <<mem, sync, snap, states, promised>>
    BY <1>8 DEF TruncateLog, files
  <2>2. /\ Current(snap.cur) /\ Current(snap.disk)
        /\ SnapSound(snap.cur) /\ SnapSound(snap.disk)
    BY <1>1, <2>1, CurrentSound DEF Saving
  <2>3. Always'
    BY <1>1, <1>2, <2>1
       DEF Always, MemCurrent, Up, InFlightPhase, SnapBounds, Settled,
           PromiseBounds, SyncDone, Emptied
  <2>4. LogLeads' /\ LogComplete'
    BY <1>2, <2>1 DEF LogLeads, LogComplete, CanRead
  <2>5. Covered'
    <3>1. promised.process <= Len(states) /\ promised.machine <= Len(states)
      BY <1>1, <1>2, <2>1 DEF Always, PromiseBounds, Settled, InFlightPhase
    <3>2. 1 .. promised.process - Len(states) = {}
          /\ 1 .. promised.machine - Len(states) = {}
      BY <3>1, <1>2
    <3> QED  BY <3>2, <2>1 DEF Covered
  <2>6. SnapSound(snap.cur)' /\ SnapSound(snap.disk)' /\ Replaying'
    BY <2>1, <2>2 DEF SnapSound, Replaying
  <2> QED  BY <2>3, <2>4, <2>5, <2>6 DEF WhileAligned
<1>9. CASE FsyncMarker
  <2>1. /\ phase = "marked" /\ phase' = "ready"
        /\ promised' = [process |-> Len(states), machine |-> Len(states)]
        /\ UNCHANGED <<mem, sync, log, flushed, synced, snap, states, base,
                       aligned>>
    BY <1>9 DEF FsyncMarker
  <2>2. base = Len(states)
    BY <1>1, <2>1 DEF Always, Emptied
  <2>3. Always'
    BY <1>1, <1>2, <2>1
       DEF Always, MemCurrent, Up, InFlightPhase, SnapBounds, Settled,
           PromiseBounds, SyncDone, Emptied
  <2>4. Covered'
    <3>1. 1 .. Len(states) - base = {}
      BY <1>2, <2>2
    <3> QED  BY <2>1, <3>1 DEF Covered
  <2>5. WhileAligned'
    BY <2>1, <2>4 DEF RecoveryInv, WhileAligned, LogLeads, LogComplete, Up,
                      CanRead, SnapSound, Replaying
  <2> QED  BY <2>3, <2>5
<1> QED  BY <1>5, <1>6, <1>7, <1>8, <1>9 DEF Checkpoint

\* A crash takes what was not safe, and nothing that was promised.
LEMMA CrashRecovers ==
  ASSUME RecoveryInv, NEW kept \in Nat, log' \in Remains(kept),
         phase' = "down", UNCHANGED <<states, base>>, aligned' => aligned,
         NEW cur, NEW disk, snap' = [cur |-> cur, disk |-> disk],
         disk.at <= cur.at, cur.at <= Len(states),
         aligned => SnapSound(cur) /\ SnapSound(disk),
         promised'.machine <= promised'.process,
         promised'.process <= Len(states),
         promised'.machine <= promised.machine, promised'.machine \in Nat,
         promised'.process <= promised.process, promised'.process \in Nat,
         aligned => /\ \A k \in 1 .. promised'.process - base :
                         k <= kept /\ CanRead(k)
                    /\ \A k \in 1 .. promised'.machine - base :
                         k <= synced',
         flushed' = Len(log')
  PROVE  Always' /\ WhileAligned'
<1>1. TypeInv
  BY DEF RecoveryInv, GapInv
<1>2. /\ kept <= Len(log') /\ Len(log') \in Nat
      /\ \A i : CanRead(i)' => /\ CanRead(i) /\ log'[i] = log[i]
                               /\ \A j \in 1 .. i : CanRead(j) => CanRead(j)'
      /\ \A i \in 1 .. kept : CanRead(i) => CanRead(i)'
  BY <1>1, CrashedLog
<1>3. Always'
  <2>1. snap'.cur = cur /\ snap'.disk = disk
    OBVIOUS
  <2> QED  BY <2>1 DEF Always, MemCurrent, Up, InFlightPhase, SnapBounds, Settled,
                       PromiseBounds, SyncDone, Emptied
<1>4. ASSUME aligned'
      PROVE  /\ LogLeads' /\ LogComplete' /\ Covered'
             /\ SnapSound(snap.cur)' /\ SnapSound(snap.disk)' /\ Replaying'
  <2>1. LogLeads
    BY <1>4 DEF RecoveryInv, WhileAligned
  <2>2. LogLeads'
    <3> SUFFICES ASSUME NEW k, CanRead(k)'
                 PROVE  /\ \A j \in 1 .. k : CanRead(j)'
                        /\ base + k <= Len(states)
                        /\ Leads(states[base + k - 1], log'[k], states[base + k])
      BY DEF LogLeads
    <3>1. k \in DOMAIN log /\ CanRead(k) /\ log'[k] = log[k]
      BY <1>2 DEF CanRead
    <3>2. /\ \A j \in 1 .. k : CanRead(j)
          /\ base + k <= Len(states)
          /\ Leads(states[base + k - 1], log[k], states[base + k])
      BY <3>1, <2>1 DEF LogLeads
    <3> QED  BY <3>1, <3>2, <1>2
  <2>3. Covered'
    <3>1. base \in Nat
      BY <1>1, Bounds
    <3>2. ASSUME NEW k \in 1 .. promised'.process - base
          PROVE  k <= Len(log') /\ CanRead(k)'
      <4>1. k <= kept /\ CanRead(k) /\ k \in 1 .. kept
        BY <1>4, <3>1
      <4> QED  BY <4>1, <1>2
    <3>3. \A k \in 1 .. promised'.machine - base :
             k \in 1 .. promised'.process - base
      BY <3>1
    <3> QED  BY <3>2, <3>3, <1>4 DEF Covered
  <2>4. SnapSound(snap.cur)' /\ SnapSound(snap.disk)'
    <3>1. snap'.cur = cur /\ snap'.disk = disk
      OBVIOUS
    <3> QED  BY <3>1, <1>4 DEF SnapSound
  <2> QED  BY <2>2, <2>3, <2>4 DEF LogComplete, Up, Replaying
<1> QED  BY <1>3, <1>4 DEF WhileAligned

LEMMA EnvironmentRecovers ==
  ASSUME RecoveryInv, Environment
  PROVE  Always' /\ WhileAligned'
<1>1. TypeInv /\ Always
  BY DEF RecoveryInv, GapInv
<1>2. /\ Len(states) \in Nat \ {0} /\ Len(log) \in Nat
      /\ DOMAIN log = 1 .. Len(log)
      /\ base \in Nat \ {0} /\ flushed \in Nat /\ synced \in Nat
      /\ promised.process \in Nat /\ promised.machine \in Nat
      /\ snap.cur.at \in Nat /\ snap.disk.at \in Nat
  BY <1>1, Bounds
<1>3. snap = [cur |-> snap.cur, disk |-> snap.disk]
  BY <1>1 DEF TypeInv, Typed
<1>4. /\ snap.disk.at <= snap.cur.at /\ snap.cur.at <= Len(states)
      /\ promised.machine <= promised.process /\ promised.process <= Len(states)
  BY <1>1, <1>2 DEF Always, SnapBounds, PromiseBounds, Settled
<1>5. CASE Close
  <2>1. /\ phase = "ready" /\ phase' = "closed"
        /\ flushed' = Len(log) /\ synced' = Len(log)
        /\ promised' = [process |-> Len(states), machine |-> Len(states)]
        /\ UNCHANGED <<mem, sync, log, snap, states, base, aligned>>
    BY <1>5 DEF Close, files
  <2>2. Always'
    BY <1>1, <1>2, <2>1
       DEF Always, MemCurrent, Up, InFlightPhase, SnapBounds, Settled,
           PromiseBounds, SyncDone, Emptied
  <2>3. ASSUME aligned
        PROVE  Covered'
    <3>1. \A k \in 1 .. Len(states) - base : CanRead(k)
      BY <2>1, <2>3 DEF RecoveryInv, WhileAligned, LogComplete, Up
    <3>2. \A k : CanRead(k) => k <= Len(log) /\ CanRead(k)'
      BY <1>2, <2>1 DEF CanRead
    <3> QED  BY <2>1, <3>1, <3>2 DEF Covered
  <2>4. WhileAligned'
    BY <2>1, <2>3 DEF RecoveryInv, WhileAligned, LogLeads, LogComplete, Up,
                      CanRead, SnapSound, Replaying
  <2> QED  BY <2>2, <2>4
<1>6. CASE Exit
  <2>1. /\ phase \in {"ready", "closed", "refused"} /\ phase' = "down"
        /\ flushed' = Len(log)
        /\ UNCHANGED <<log, synced, snap, states, base, promised, aligned>>
    BY <1>6 DEF Exit, files, ghost
  <2>2. Always'
    BY <1>1, <1>2, <2>1
       DEF Always, MemCurrent, Up, InFlightPhase, SnapBounds, Settled,
           PromiseBounds, SyncDone, Emptied
  <2>3. ASSUME aligned
        PROVE  Covered'
    <3>1. \A k : CanRead(k) => k <= Len(log) /\ CanRead(k)'
      BY <1>2, <2>1 DEF CanRead
    <3> QED  BY <2>1, <2>3, <3>1 DEF RecoveryInv, WhileAligned, Covered
  <2>4. WhileAligned'
    BY <2>1, <2>3 DEF RecoveryInv, WhileAligned, LogLeads, LogComplete, Up,
                      CanRead, SnapSound, Replaying
  <2> QED  BY <2>2, <2>4
<1>7. aligned => /\ Covered /\ SnapSound(snap.cur) /\ SnapSound(snap.disk)
  BY DEF RecoveryInv, WhileAligned
<1>8. \A k : k \in 1 .. promised.machine - base
              => k \in 1 .. promised.process - base
  BY <1>2, <1>4
<1>9. CASE ProcessCrash
  <2>1. /\ log' \in Remains(flushed) /\ phase' = "down"
        /\ flushed' = Len(log') /\ synced' = synced /\ snap' = snap
        /\ promised' = promised /\ UNCHANGED <<states, base>>
        /\ (aligned' => aligned)
    BY <1>9 DEF ProcessCrash
  <2>2. aligned => /\ \A k \in 1 .. promised.process - base :
                         k <= flushed /\ CanRead(k)
                   /\ \A k \in 1 .. promised.machine - base : k <= synced
    BY <1>7 DEF Covered
  <2> QED  BY <1>2, <1>3, <1>4, <1>7, <2>1, <2>2, CrashRecovers
<1>10. CASE MachineCrash
  <2>1. /\ log' \in Remains(synced) /\ phase' = "down"
        /\ flushed' = Len(log') /\ synced' = Len(log')
        /\ promised' = [promised EXCEPT !.process = promised.machine]
        /\ UNCHANGED <<states, base, aligned>>
    BY <1>10 DEF MachineCrash
  <2>2. PICK file \in AfterPowerLoss(snap.cur) \cup AfterPowerLoss(snap.disk) :
          snap' = [cur |-> file, disk |-> file]
    BY <1>10 DEF MachineCrash
  <2>3. ASSUME NEW f \in Files, NEW left \in AfterPowerLoss(f)
        PROVE  left.at = f.at /\ left.image = f.image
    BY <2>3 DEF AfterPowerLoss, Files
  <2>4. PICK f \in {snap.cur, snap.disk} :
          file.at = f.at /\ file.image = f.image
    BY <1>1, <2>2, <2>3 DEF TypeInv, Typed
  <2>5. file.at <= Len(states) /\ file.at <= file.at
    BY <1>2, <1>4, <2>4
  <2>6. aligned => SnapSound(file)
    BY <1>7, <2>4 DEF SnapSound
  <2>7. promised'.process = promised.machine
        /\ promised'.machine = promised.machine
    BY <2>1, <1>1 DEF TypeInv, Typed
  <2>8. aligned => \A k \in 1 .. promised.machine - base :
                      k <= synced /\ CanRead(k)
    BY <1>7 DEF Covered
  <2>9. synced <= Len(log')
    BY <1>1, <1>2, <2>1, CrashedLog
  <2>10. aligned => \A k \in 1 .. promised.machine - base : k <= synced'
    <3>1. Len(log') \in Nat
      BY <1>1, <1>2, <2>1, CrashedLog
    <3> QED  BY <2>1, <2>8, <2>9, <1>2, <3>1
  <2> QED  BY <1>2, <1>4, <2>1, <2>2, <2>5, <2>6, <2>7, <2>8, <2>10,
              CrashRecovers
<1> QED  BY <1>5, <1>6, <1>9, <1>10 DEF Environment

-----------------------------------------------------------------------------
(* open                                                                    *)

LEMMA OpenRecovers ==
  ASSUME RecoveryInv, OpenDir
  PROVE  Always' /\ WhileAligned'
<1>1. TypeInv /\ Always
  BY DEF RecoveryInv, GapInv
<1>2. /\ base \in Nat \ {0} /\ snap.cur.at \in Nat
  BY <1>1, Bounds
<1>3. /\ phase = "down" /\ phase' \in {"refused", "replay"}
      /\ phase' = "replay" => RestoreOK(snap.cur.image)
                              /\ mem' = Restore(snap.cur.image)
      /\ cursor' = Start
      /\ UNCHANGED <<log, flushed, synced, snap, states, base, promised, aligned>>
  BY DEF OpenDir, Refuses, files, ghost
<1>4. Always'
  BY <1>1, <1>3 DEF Always, MemCurrent, Up, InFlightPhase, SnapBounds, Settled,
                    PromiseBounds, SyncDone, Emptied
<1>5. ASSUME aligned
      PROVE  /\ LogLeads' /\ LogComplete' /\ Covered'
             /\ SnapSound(snap.cur)' /\ SnapSound(snap.disk)' /\ Replaying'
  <2>1. /\ LogLeads /\ LogComplete /\ Covered
        /\ SnapSound(snap.cur) /\ SnapSound(snap.disk)
        /\ base <= snap.cur.at
    BY <1>5 DEF RecoveryInv, WhileAligned, GapInv, NoGap
  <2>2. LogLeads' /\ LogComplete' /\ Covered'
    BY <2>1, <1>3 DEF LogLeads, LogComplete, Covered, Up, CanRead
  <2>3. SnapSound(snap.cur)' /\ SnapSound(snap.disk)'
    BY <2>1, <1>3 DEF SnapSound
  <2>4. ASSUME phase' = "replay"
        PROVE  Replaying'
    <3>1. Lookup(mem') = states[snap.cur.at]
      BY <2>1, <2>4, <1>3 DEF SnapSound
    <3>2. cursor'.rec = 1 /\ cursor'.row = 1 /\ Read' = 0
      BY <1>3 DEF Start, Read
    <3>3. ASSUME NEW id \in Ids
          PROVE  \/ Lookup(mem)'[id] = Target(id)'
                 \/ StaleLog' /\ Lookup(mem)'[id] = states'[snap'.cur.at][id]
      <4>1. Target(id)' = states[base][id]
        <5>1. 1 .. cursor'.row - 1 = {} /\ base + Read' = base
          BY <3>2, <1>2
        <5> QED  BY <5>1, <1>3 DEF Target
      <4>2. CASE base = snap.cur.at
        BY <4>1, <4>2, <3>1
      <4>3. CASE base < snap.cur.at
        BY <4>3, <3>1, <3>2, <1>2, <1>3 DEF StaleLog
      <4> QED  BY <4>2, <4>3, <2>1, <1>2
    <3>4. \A k \in 1 .. Read' : CanRead(k)'
      BY <3>2
    <3> QED  BY <2>4, <3>1, <3>2, <3>3, <3>4, <1>3 DEF Replaying
  <2> QED  BY <2>2, <2>3, <2>4, <1>3 DEF Replaying
<1> QED  BY <1>3, <1>4, <1>5 DEF WhileAligned

\* One row of the replay: the id of the row gets what the frame leads to,
\* whether it had the vector from before the frame or, with the log behind
\* the snapshot, already that of the snapshot.
LEMMA ReplayOneLeads ==
  ASSUME TypeInv, NEW frame \in Frames, frame.op # "torn",
         NEW r \in DOMAIN frame.rows,
         NEW before, NEW after, Leads(before, frame, after)
  PROVE  LET x == frame.rows[r].id
             u == ReplayOne(mem, frame.op, frame.rows[r])
         IN  /\ x \in Ids
             /\ \A id \in Ids \ {x} : Lookup(u)[id] = Lookup(mem)[id]
             /\ Lookup(mem)[x] = before[x] => Lookup(u)[x] = after[x]
             /\ Lookup(u)[x] \in {after[x], Lookup(mem)[x]}
<1> DEFINE x == frame.rows[r].id
           u == ReplayOne(mem, frame.op, frame.rows[r])
<1>1. mem \in Tables /\ TablesConsistent(mem)
  BY DEF TypeInv, Typed, TablesOK
<1>2. x \in Ids /\ frame.op # "remove" => frame.rows[r] \in Row
  BY FrameRow
<1>3. x \in Ids
  BY FrameRow
<1>4. IsLive(mem, x) <=> Lookup(mem)[x] # NoVec
  BY <1>1, <1>3, LookupLive
<1>5. CASE frame.op = "remove"
  <2>1. before[x] # NoVec /\ after[x] = NoVec
    BY <1>5 DEF Leads
  <2>2. CASE IsLive(mem, x)
    <3>1. u = RemoveRow(mem, x)
      BY <1>5, <2>2 DEF ReplayOne
    <3>2. \A id \in Ids : Lookup(u)[id] = IF id = x THEN NoVec ELSE Lookup(mem)[id]
      BY <3>1, <1>1, <1>3, LookupRemoveRow
    <3> QED  BY <3>2, <2>1, <1>3
  <2>3. CASE ~IsLive(mem, x)
    <3>1. u = mem
      BY <1>5, <2>3 DEF ReplayOne
    <3> QED  BY <3>1, <2>1, <2>3, <1>3, <1>4
  <2> QED  BY <2>2, <2>3
<1>6. CASE frame.op # "remove"
  <2>1. before[x] = NoVec /\ after[x] = frame.rows[r].vec
    BY <1>6 DEF Leads
  <2>2. frame.rows[r].vec \in Vecs
    BY <1>2, <1>3, <1>6 DEF Row
  <2>3. CASE IsLive(mem, x)
    <3>1. u = mem
      BY <1>6, <2>3 DEF ReplayOne
    <3> QED  BY <3>1, <2>1, <2>3, <1>3, <1>4
  <2>4. CASE ~IsLive(mem, x)
    <3>1. u = AddRow(mem, x, frame.rows[r].vec)
      BY <1>6, <2>4 DEF ReplayOne
    <3>2. \A id \in Ids : Lookup(u)[id] = IF id = x THEN frame.rows[r].vec
                                                    ELSE Lookup(mem)[id]
      BY <3>1, <1>1, <1>3, <2>2, LookupAddRow
    <3> QED  BY <3>2, <2>1, <1>3
  <2> QED  BY <2>3, <2>4
<1> QED  BY <1>5, <1>6

LEMMA ReplayRecovers ==
  ASSUME RecoveryInv, ReplayRow
  PROVE  Always' /\ WhileAligned'
<1>1. TypeInv /\ Always
  BY DEF RecoveryInv, GapInv
<1> DEFINE rec == cursor.rec
           r == cursor.row
           frame == log[rec]
           x == frame.rows[r].id
<1>2. /\ base \in Nat \ {0} /\ snap.cur.at \in Nat
      /\ rec \in Nat \ {0} /\ r \in Nat \ {0} /\ Read \in Nat /\ Read = rec - 1
      /\ log \in Seq(Frames) /\ DOMAIN log = 1 .. Len(log)
  BY <1>1, Bounds DEF Read
<1>3. /\ phase = "replay" /\ phase' = "replay" /\ CanRead(rec)
      /\ mem' = ReplayOne(mem, frame.op, frame.rows[r])
      /\ cursor' = IF r < Len(frame.rows) THEN [cursor EXCEPT !.row = @ + 1]
                   ELSE [rec |-> rec + 1, row |-> 1]
      /\ UNCHANGED <<log, flushed, synced, snap, states, base, promised, aligned>>
  BY DEF ReplayRow, files, ghost
<1>4. frame \in Frames /\ frame.op # "torn" /\ r \in DOMAIN frame.rows
  <2>1. rec \in DOMAIN log /\ log[rec].op # "torn"
    BY <1>3 DEF CanRead
  <2> QED  BY <1>1, <1>2, <1>3, <2>1, ElementOfSeq DEF TypeInv, CursorOK
<1>5. DOMAIN frame.rows = 1 .. Len(frame.rows) /\ Len(frame.rows) \in Nat
  <2>1. PICK S : frame.rows \in Seq(S)
    BY <1>4 DEF Frames, Torn
  <2> HIDE DEF frame
  <2> QED  BY <2>1, LenProperties
<1>6. Always'
  BY <1>1, <1>3 DEF Always, MemCurrent, Up, InFlightPhase, SnapBounds, Settled,
                    PromiseBounds, SyncDone, Emptied
<1>7. ASSUME aligned
      PROVE  /\ LogLeads' /\ LogComplete' /\ Covered'
             /\ SnapSound(snap.cur)' /\ SnapSound(snap.disk)' /\ Replaying'
  <2>1. /\ LogLeads /\ LogComplete /\ Covered /\ Replaying
        /\ SnapSound(snap.cur) /\ SnapSound(snap.disk)
    BY <1>7 DEF RecoveryInv, WhileAligned
  <2>2. LogLeads' /\ LogComplete' /\ Covered'
    BY <2>1, <1>3 DEF LogLeads, LogComplete, Covered, Up, CanRead
  <2>3. SnapSound(snap.cur)' /\ SnapSound(snap.disk)'
    BY <2>1, <1>3 DEF SnapSound
  <2> DEFINE before == states[base + Read]
             after  == states[base + Read + 1]
             served == states[snap.cur.at]
  <2>4. Leads(before, frame, after)
    <3>1. rec \in DOMAIN log
      BY <1>3 DEF CanRead
    <3>2. Leads(states[base + rec - 1], frame, states[base + rec])
      BY <3>1, <2>1, <1>3 DEF LogLeads
    <3>3. base + rec - 1 = base + Read /\ base + rec = base + Read + 1
      BY <1>2
    <3> QED  BY <3>2, <3>3
  <2>5. /\ x \in Ids
        /\ \A id \in Ids \ {x} : Lookup(mem')[id] = Lookup(mem)[id]
        /\ Lookup(mem)[x] = before[x] => Lookup(mem')[x] = after[x]
        /\ Lookup(mem')[x] \in {after[x], Lookup(mem)[x]}
    <3> HIDE DEF before, after, frame
    <3> QED  BY <1>1, <1>3, <1>4, <2>4, ReplayOneLeads
  <2>6. ASSUME NEW i \in 1 .. r - 1
        PROVE  i \in DOMAIN frame.rows /\ frame.rows[i].id # x
    <3>1. i \in DOMAIN frame.rows /\ i # r
      BY <1>2, <1>4, <1>5
    <3> QED  BY <3>1, <2>4, <1>4 DEF Leads, UniqueIds
  <2>7. \A id \in Ids :
          Target(id) = IF \E i \in 1 .. r - 1 : frame.rows[i].id = id
                       THEN after[id] ELSE before[id]
    BY <1>3 DEF Target
  <2>8. Target(x) = before[x]
    <3> HIDE DEF before, after, frame, x
    <3> QED  BY <2>5, <2>6, <2>7
  <2>9. \A id \in Ids : \/ Lookup(mem)[id] = Target(id)
                        \/ StaleLog /\ Lookup(mem)[id] = served[id]
    BY <2>1, <1>3 DEF Replaying
  \* Within a frame the position stays; behind its last row it moves on.
  <2>10. CASE r < Len(frame.rows)
    <3>1. cursor' = [cursor EXCEPT !.row = @ + 1]
      BY <1>3, <2>10
    <3>2. cursor'.rec = rec /\ cursor'.row = r + 1
      BY <3>1, <1>1 DEF TypeInv, Typed
    <3>3. Read' = Read /\ CanRead(cursor.rec)' /\ (StaleLog' <=> StaleLog)
      BY <3>2, <1>3 DEF Read, CanRead, StaleLog
    <3>4. ASSUME NEW id \in Ids
          PROVE  Target(id)' = IF id = x THEN after[id] ELSE Target(id)
      <4>1. cursor'.row - 1 = r /\ log'[cursor'.rec] = frame
        BY <3>2, <1>2, <1>3
      <4>2. Target(id)' = IF \E i \in 1 .. r : frame.rows[i].id = id
                          THEN after[id] ELSE before[id]
        BY <3>3, <4>1, <1>3 DEF Target
      <4>3. (\E i \in 1 .. r : frame.rows[i].id = id)
              <=> (id = x \/ \E i \in 1 .. r - 1 : frame.rows[i].id = id)
        <5>1. \A i : i \in 1 .. r <=> (i = r \/ i \in 1 .. r - 1)
          BY <1>2
        <5> HIDE DEF frame
        <5> QED  BY <5>1
      <4> HIDE DEF before, after, frame, x
      <4> QED  BY <4>2, <4>3, <2>7
    <3>5. ASSUME NEW id \in Ids
          PROVE  \/ Lookup(mem')[id] = Target(id)'
                 \/ StaleLog' /\ Lookup(mem')[id] = served[id]
      <4> HIDE DEF before, after, frame, x, served
      <4>1. CASE id # x
        BY <4>1, <2>5, <2>9, <3>3, <3>4
      <4>2. CASE id = x
        BY <4>2, <2>5, <2>8, <2>9, <3>3, <3>4
      <4> QED  BY <4>1, <4>2
    <3>6. cursor' # Start
      BY <3>2, <1>2 DEF Start
    <3>7. \A k \in 1 .. Read' : CanRead(k)'
      BY <2>1, <1>3, <3>3 DEF Replaying, CanRead
    <3>8. Replaying'
      BY <3>3, <3>5, <3>6, <3>7, <1>3 DEF Replaying
    <3> QED  BY <3>8, <2>2, <2>3
  <2>11. CASE ~(r < Len(frame.rows))
    <3>1. cursor'.rec = rec + 1 /\ cursor'.row = 1
      BY <1>3, <2>11
    <3>2. Read' = Read + 1 /\ base + Read' = base + Read + 1 /\ Read' = rec
      <4>1. Read' = cursor'.rec - 1
        BY DEF Read
      <4>2. Read' = rec
        BY <4>1, <3>1, <1>2
      <4> HIDE DEF rec
      <4> QED  BY <4>2, <1>2
    <3>3. r = Len(frame.rows)
      BY <2>11, <1>2, <1>4, <1>5
    <3>4. ASSUME NEW id \in Ids
          PROVE  Target(id)' = after[id]
      <4>1. 1 .. cursor'.row - 1 = {}
        BY <3>1
      <4> QED  BY <4>1, <3>2, <1>3 DEF Target
    <3>5. ASSUME NEW id \in Ids, id # x
          PROVE  Target(id) = after[id]
      <4>1. CASE \E i \in 1 .. r - 1 : frame.rows[i].id = id
        BY <4>1, <2>7
      <4>2. CASE ~\E i \in 1 .. r - 1 : frame.rows[i].id = id
        <5>1. id \notin RowIds(frame.rows)
          <6>1. \A i \in DOMAIN frame.rows : i = r \/ i \in 1 .. r - 1
            BY <3>3, <1>2, <1>5
          <6> QED  BY <6>1, <3>5, <4>2 DEF RowIds
        <5>2. after[id] = before[id]
          BY <5>1, <2>4 DEF Leads
        <5> QED  BY <5>2, <4>2, <2>7
      <4> QED  BY <4>1, <4>2
    <3>6. StaleLog => StaleLog' \/ snap.cur.at = base + Read + 1
      <4>1. (StaleLog <=> base + Read < snap.cur.at)
            /\ (StaleLog' <=> base' + Read' < snap'.cur.at)
        BY DEF StaleLog
      <4> HIDE DEF rec
      <4> QED  BY <4>1, <3>2, <1>2, <1>3
    <3>7. ASSUME NEW id \in Ids
          PROVE  \/ Lookup(mem')[id] = after[id]
                 \/ StaleLog /\ Lookup(mem')[id] = served[id]
      <4> HIDE DEF before, after, frame, x, served
      <4>1. CASE id # x
        BY <4>1, <2>5, <2>9, <3>5
      <4>2. CASE id = x
        BY <4>2, <2>5, <2>8, <2>9
      <4> QED  BY <4>1, <4>2
    <3>8. ASSUME NEW id \in Ids
          PROVE  \/ Lookup(mem')[id] = Target(id)'
                 \/ StaleLog' /\ Lookup(mem')[id] = served[id]
      BY <3>4, <3>6, <3>7
    <3>9. cursor' # Start
      BY <3>1, <1>2 DEF Start
    <3>10. \A k \in 1 .. Read' : CanRead(k)'
      <4>1. \A k \in 1 .. Read' : k \in 1 .. Read \/ k = rec
        BY <3>2, <1>2
      <4> QED  BY <4>1, <2>1, <1>3 DEF Replaying, CanRead
    <3>11. \A id \in Ids :
             \/ Lookup(mem)'[id] = Target(id)'
             \/ StaleLog' /\ Lookup(mem)'[id] = states'[snap'.cur.at][id]
      BY <3>8, <1>3
    <3>12. phase' = "replay" /\ ~(cursor'.row > 1)
      BY <3>1, <1>3
    <3>13. Replaying'
      BY <3>9, <3>10, <3>11, <3>12 DEF Replaying
    <3> QED  BY <3>13, <2>2, <2>3
  <2> QED  BY <2>10, <2>11
<1> QED  BY <1>3, <1>6, <1>7 DEF WhileAligned

LEMMA ReplayDoneRecovers ==
  ASSUME RecoveryInv, ReplayDone
  PROVE  Always' /\ WhileAligned'
<1>1. /\ phase = "replay" /\ phase' = "replayed" /\ ~CanRead(cursor.rec)
      /\ UNCHANGED <<mem, log, flushed, synced, snap, cursor, states, base,
                     promised, aligned>>
  BY DEF ReplayDone, files, ghost
<1>2. Always'
  BY <1>1 DEF RecoveryInv, Always, MemCurrent, Up, InFlightPhase, SnapBounds,
              Settled, PromiseBounds, SyncDone, Emptied
<1>3. WhileAligned'
  BY <1>1 DEF RecoveryInv, WhileAligned, LogLeads, LogComplete, Covered, Up,
              CanRead, SnapSound, Replaying, Read, StaleLog, Target
<1> QED  BY <1>2, <1>3

\* AttachWal: of an unbroken log that is not behind the snapshot, or of which
\* nothing was read, the recovered state is one the history already has.
LEMMA AttachRecovered ==
  ASSUME RecoveryInv, AttachWal, aligned'
  PROVE  /\ aligned /\ Recovered \in 1 .. Len(states)
         /\ Lookup(mem) = states[Recovered]
         /\ snap.cur.at <= Recovered
         /\ Read # 0 => base' = base /\ Recovered = base + Read
         /\ Read = 0 => base' = Recovered
<1>1. TypeInv /\ Always
  BY DEF RecoveryInv, GapInv
<1>2. /\ Len(states) \in Nat \ {0} /\ base \in Nat \ {0} /\ Read \in Nat
      /\ snap.cur.at \in Nat \ {0}
      /\ cursor.row \in Nat \ {0}
      /\ log \in Seq(Frames) /\ DOMAIN log = 1 .. Len(log)
  BY <1>1, Bounds
<1>3. /\ phase = "replayed" /\ aligned /\ (Read > 0 => ~StaleLog)
      /\ base' = IF Read = 0 THEN Recovered ELSE base
  BY DEF AttachWal
<1>4. /\ LogLeads /\ Replaying /\ base <= Len(states) /\ base <= snap.cur.at
  BY <1>3 DEF RecoveryInv, WhileAligned, GapInv, BaseInHistory, NoGap
<1>5. /\ \A k \in 1 .. Read : CanRead(k)
      /\ ~CanRead(cursor.rec) /\ (cursor.row > 1 => CanRead(cursor.rec))
      /\ cursor = Start => Lookup(mem) = states[snap.cur.at]
      /\ \A id \in Ids : \/ Lookup(mem)[id] = Target(id)
                         \/ StaleLog /\ Lookup(mem)[id] = states[snap.cur.at][id]
  BY <1>3, <1>4 DEF Replaying
<1>6. snap.cur.at <= Len(states)
  BY <1>1, <1>2, <1>3 DEF Always, SnapBounds, Settled, InFlightPhase
<1>7. base + Read <= Len(states)
  <2>1. CASE Read = 0
    BY <2>1, <1>2, <1>4
  <2>2. CASE Read # 0
    <3>1. CanRead(Read)
      BY <2>2, <1>2, <1>5
    <3>2. Read \in DOMAIN log
      BY <3>1 DEF CanRead
    <3> QED  BY <3>1, <3>2, <1>4 DEF LogLeads
  <2> QED  BY <2>1, <2>2
<1>8. Recovered = IF snap.cur.at > base + Read THEN snap.cur.at ELSE base + Read
  BY <1>2, <1>6, <1>7 DEF Recovered, Lesser, Larger
<1>9. CASE Read = 0
  <2>1. cursor = Start
    <3>1. cursor.row = 1 /\ cursor.rec = 1
      BY <1>2, <1>5, <1>9, <1>1 DEF Read, TypeInv, Typed
    <3> QED  BY <3>1, <1>1 DEF Start, TypeInv, Typed
  <2>2. Recovered = snap.cur.at
    BY <1>2, <1>4, <1>8, <1>9
  <2> QED  BY <2>1, <2>2, <1>2, <1>3, <1>5, <1>6, <1>9
<1>10. CASE Read # 0
  <2>1. ~StaleLog /\ Recovered = base + Read
    BY <1>2, <1>3, <1>8, <1>10 DEF StaleLog
  <2>2. \A id \in Ids : Lookup(mem)[id] = states[base + Read][id]
    BY <2>1, <1>5 DEF Target
  <2>3. states[base + Read] \in [Ids -> Vecs \cup {NoVec}]
    <3>1. base + Read \in 1 .. Len(states)
      BY <1>2, <1>7
    <3> QED  BY <3>1, <1>1, Bounds, ElementOfSeq
  <2>4. Lookup(mem) \in [Ids -> Vecs \cup {NoVec}]
    BY <1>1, LookupType DEF TypeInv, Typed, TablesOK
  <2>5. Lookup(mem) = states[base + Read]
    BY <2>2, <2>3, <2>4
  <2> QED  BY <2>1, <2>5, <1>2, <1>3, <1>7, <1>8, <1>10
<1> QED  BY <1>9, <1>10

LEMMA AttachRecovers ==
  ASSUME RecoveryInv, AttachWal
  PROVE  Always' /\ WhileAligned'
<1>1. TypeInv /\ Always
  BY DEF RecoveryInv, GapInv
<1> DEFINE Maps == [Ids -> Vecs \cup {NoVec}]
           kept == SubSeq(states, 1, Recovered - 1)
<1>2. /\ states \in Seq(Maps) /\ Len(states) \in Nat \ {0}
      /\ base \in Nat \ {0} /\ Read \in Nat
      /\ promised.process \in Nat /\ promised.machine \in Nat
      /\ snap.cur.at \in Nat \ {0} /\ snap.disk.at \in Nat \ {0}
      /\ DOMAIN log = 1 .. Len(log)
      /\ Recovered \in 1 .. Len(states)
  BY <1>1, Bounds, RecoveredType
<1>3. /\ phase = "replayed" /\ phase' = "ready"
      /\ states' = Append(kept, Lookup(mem))
      /\ promised' = [process |-> Lesser(promised.process, Recovered),
                      machine |-> Lesser(promised.machine, Recovered)]
      /\ UNCHANGED <<mem, log, flushed, synced, snap>>
  BY DEF AttachWal, files
<1>4. Lookup(mem) \in Maps
  BY <1>1, LookupType DEF TypeInv, Typed, TablesOK
<1>5. /\ Len(states') = Recovered
      /\ states'[Recovered] = Lookup(mem)
      /\ \A i \in 1 .. Recovered - 1 : states'[i] = states[i]
  <2> HIDE DEF Maps
  <2>1. PICK n \in Nat : n = Recovered - 1
    BY <1>2
  <2>2. \A i \in 1 .. n : states[i] \in Maps
    <3> SUFFICES ASSUME NEW i \in 1 .. n
                 PROVE  states[i] \in Maps
      OBVIOUS
    <3>1. i \in 1 .. Len(states)
      BY <2>1, <1>2
    <3> QED  BY <3>1, <1>2, ElementOfSeq
  <2>3. /\ SubSeq(states, 1, n) \in Seq(Maps)
        /\ Len(SubSeq(states, 1, n)) = IF 1 <= n THEN n - 1 + 1 ELSE 0
        /\ \A i \in 1 .. n - 1 + 1 : SubSeq(states, 1, n)[i] = states[1 + i - 1]
    BY <2>1, <2>2, SubSeqProperties
  <2>4. kept \in Seq(Maps) /\ Len(kept) = n /\ \A i \in 1 .. n : kept[i] = states[i]
    BY <2>1, <2>3
  <2>5. /\ Len(states') = n + 1 /\ states'[n + 1] = Lookup(mem)
        /\ \A i \in 1 .. n : states'[i] = kept[i]
    <3> HIDE DEF kept
    <3> QED  BY <2>1, <2>4, <1>3, <1>4
  <2> QED  BY <2>1, <2>4, <2>5, <1>2
<1>6. snap.disk.at <= snap.cur.at /\ snap.cur.at <= Recovered
  <2>1. snap.disk.at <= snap.cur.at /\ snap.cur.at <= Len(states)
    BY <1>1, <1>3 DEF Always, SnapBounds, Settled, InFlightPhase
  <2> QED  BY <2>1, <1>2 DEF Recovered, Lesser, Larger
<1>7. Always'
  <2>1. MemCurrent'
    BY <1>3, <1>5 DEF MemCurrent, Up, InFlightPhase
  <2>2. SnapBounds'
    BY <1>3, <1>5, <1>6 DEF SnapBounds, Settled, InFlightPhase
  <2>3. PromiseBounds'
    <3>1. promised.machine <= promised.process
      BY <1>1 DEF Always, PromiseBounds
    <3>2. promised'.process = Lesser(promised.process, Recovered)
          /\ promised'.machine = Lesser(promised.machine, Recovered)
      BY <1>3
    <3> HIDE DEF kept
    <3> QED  BY <3>1, <3>2, <1>2, <1>3, <1>5
             DEF PromiseBounds, Settled, InFlightPhase, Lesser
  <2> QED  BY <2>1, <2>2, <2>3, <1>3 DEF Always, SyncDone, Emptied
<1> HIDE DEF Maps, kept
<1>8. ASSUME aligned'
      PROVE  /\ LogLeads' /\ LogComplete' /\ Covered'
             /\ SnapSound(snap.cur)' /\ SnapSound(snap.disk)' /\ Replaying'
  <2>1. /\ aligned /\ Lookup(mem) = states[Recovered]
        /\ Read # 0 => base' = base /\ Recovered = base + Read
        /\ Read = 0 => base' = Recovered
    BY <1>8, AttachRecovered
  <2>2. /\ LogLeads /\ Covered /\ Replaying
        /\ SnapSound(snap.cur) /\ SnapSound(snap.disk)
    BY <2>1 DEF RecoveryInv, WhileAligned
  <2>3. \A i \in 1 .. Recovered : states'[i] = states[i]
    <3>1. \A i \in 1 .. Recovered : i \in 1 .. Recovered - 1 \/ i = Recovered
      BY <1>2
    <3> QED  BY <3>1, <2>1, <1>5
  <2>4. \A k : CanRead(k)' <=> CanRead(k)
    BY <1>3 DEF CanRead
  <2>5. ASSUME NEW k, CanRead(k)
        PROVE  k \in 1 .. Read
    <3>1. k \in DOMAIN log
      BY <2>5 DEF CanRead
    <3>2. \A j \in 1 .. k : CanRead(j)
      BY <3>1, <2>2, <2>5 DEF LogLeads
    <3>3. ~CanRead(Read + 1)
      <4>1. cursor.rec = Read + 1
        BY <1>1, Bounds DEF Read
      <4> QED  BY <4>1, <2>2, <1>3 DEF Replaying
    <3>4. ~(Read + 1 \in 1 .. k)
      BY <3>2, <3>3
    <3> QED  BY <3>1, <3>4, <1>2
  <2>6. LogLeads'
    <3> SUFFICES ASSUME NEW k, CanRead(k)
                 PROVE  /\ \A j \in 1 .. k : CanRead(j)
                        /\ base' + k <= Recovered
                        /\ Leads(states'[base' + k - 1], log[k], states'[base' + k])
      BY <2>4, <1>3, <1>5 DEF LogLeads
    <3>1. k \in 1 .. Read /\ k \in DOMAIN log
      BY <2>5 DEF CanRead
    <3>2. base' = base /\ Recovered = base + Read
      BY <3>1, <2>1, <1>2
    <3>3. /\ \A j \in 1 .. k : CanRead(j)
          /\ Leads(states[base + k - 1], log[k], states[base + k])
      BY <3>1, <2>2 DEF LogLeads
    <3>4. base + k - 1 \in 1 .. Recovered /\ base + k \in 1 .. Recovered
      BY <3>1, <3>2, <1>2
    <3> QED  BY <3>2, <3>3, <3>4, <2>3, <1>2
  <2>7. LogComplete'
    <3>1. \A k \in 1 .. Recovered - base' : k \in 1 .. Read
      BY <2>1, <1>2
    <3>2. \A k \in 1 .. Read : CanRead(k)
      BY <2>2, <1>3 DEF Replaying
    <3> QED  BY <3>1, <3>2, <2>4, <1>5 DEF LogComplete
  <2>8. Covered'
    <3>1. promised'.process = Lesser(promised.process, Recovered)
          /\ promised'.machine = Lesser(promised.machine, Recovered)
      BY <1>3
    <3>2. \A k : /\ k \in 1 .. promised'.process - base'
                      => k \in 1 .. promised.process - base
                 /\ k \in 1 .. promised'.machine - base'
                      => k \in 1 .. promised.machine - base
      <4>1. ASSUME NEW p \in Nat
            PROVE  \A k : k \in 1 .. Lesser(p, Recovered) - base'
                            => k \in 1 .. p - base
        <5>1. /\ Lesser(p, Recovered) \in Nat
              /\ Lesser(p, Recovered) <= p /\ Lesser(p, Recovered) <= Recovered
          BY <1>2 DEF Lesser
        <5>2. CASE Read = 0
          <6>1. Lesser(p, Recovered) - base' <= 0
            BY <5>1, <5>2, <2>1, <1>2
          <6> QED  BY <6>1, <5>1, <5>2, <2>1, <1>2
        <5>3. CASE Read # 0
          BY <5>1, <5>3, <2>1, <1>2
        <5> QED  BY <5>2, <5>3
      <4>2. promised.process \in Nat /\ promised.machine \in Nat
        BY <1>2
      <4> QED  BY <4>1, <4>2, <3>1
    <3> QED  BY <3>2, <2>2, <2>4, <1>3 DEF Covered
  <2>9. SnapSound(snap.cur)' /\ SnapSound(snap.disk)'
    <3>1. snap.cur.at \in 1 .. Recovered /\ snap.disk.at \in 1 .. Recovered
      BY <1>2, <1>6
    <3> QED  BY <3>1, <2>2, <2>3, <1>3 DEF SnapSound
  <2> QED  BY <2>6, <2>7, <2>8, <2>9, <1>3 DEF Replaying
<1> QED  BY <1>7, <1>8 DEF WhileAligned

-----------------------------------------------------------------------------
(* The log and the two snapshots                                           *)

LEMMA WriteGap ==
  ASSUME GapInv, NEW frame, Write(frame)
  PROVE  BaseInHistory' /\ NoGap' /\ Reaches'
<1>1. Len(states') = Len(states) + 1 /\ Len(states) \in Nat /\ base \in Nat
  BY LenProperties DEF Write, GapInv, TypeInv, Typed
<1>2. aligned' => aligned
  BY DEF Write
<1>3. frame \in Frames /\ log \in Seq(Frames)
  BY AcceptedFrame DEF Write, GapInv, TypeInv, Typed
<1>4. \A k : CanRead(k) => CanRead(k)'
  BY <1>3, AppendReads DEF Write
<1> QED  BY <1>1, <1>2, <1>4
         DEF Write, GapInv, BaseInHistory, NoGap, Reaches, files

LEMMA AppendFailsGap ==
  ASSUME GapInv, NEW frame, AppendFails(frame)
  PROVE  BaseInHistory' /\ NoGap' /\ Reaches'
<1>1. Torn \in Frames /\ log \in Seq(Frames)
  BY DEF Torn, Frames, GapInv, TypeInv, Typed
<1>2. \A k : CanRead(k) => CanRead(k)'
  BY <1>1, AppendReads DEF AppendFails, CanRead
<1> QED  BY <1>2 DEF AppendFails, GapInv, BaseInHistory, NoGap, Reaches, files,
                     ghost

\* open(): the recovered state is not older than the start of the log it
\* keeps.  A log of which nothing was read does not reach beyond its start, so
\* the snapshot that was restored is the one a power failure would leave.
LEMMA AttachGap ==
  ASSUME RecoveryInv, AttachWal
  PROVE  BaseInHistory' /\ NoGap' /\ Reaches'
<1> SUFFICES ASSUME aligned'
             PROVE  /\ base' <= Len(states') /\ base' <= snap'.disk.at
                    /\ base' <= snap'.cur.at /\ Reaches'
  BY DEF BaseInHistory, NoGap, Reaches
<1>1. /\ aligned /\ snap' = snap /\ log' = log /\ phase = "replayed"
      /\ base' = IF Read = 0 THEN Recovered ELSE base
  BY DEF AttachWal, files
<1>2. /\ base <= Len(states) /\ base <= snap.cur.at /\ base <= snap.disk.at
      /\ Reaches /\ Replaying
  BY <1>1 DEF RecoveryInv, WhileAligned, GapInv, BaseInHistory, NoGap
<1>3. /\ base \in Nat \ {0} /\ snap.cur.at \in Nat \ {0}
      /\ snap.disk.at \in Nat \ {0}
      /\ Recovered \in 1 .. Len(states) /\ Read \in Nat
      /\ Len(states) \in Nat \ {0} /\ cursor.rec = Read + 1
  BY Bounds, RecoveredType DEF RecoveryInv, GapInv, Read
<1>4. base <= Recovered /\ (Read = 0 => Recovered <= snap.cur.at)
  BY <1>2, <1>3 DEF Recovered, Lesser, Larger
<1>5. Len(states') = Recovered
  BY AttachedLength DEF RecoveryInv, GapInv
<1>6. ASSUME Read = 0
      PROVE  snap.disk.at = snap.cur.at
  <2>1. ~CanRead(1)
    BY <1>1, <1>2, <1>3, <1>6 DEF Replaying
  <2>2. snap.disk.at <= snap.cur.at
    BY DEF RecoveryInv, Always, SnapBounds
  <2>3. snap.cur.at = snap.disk.at \/ ~(1 \in 1 .. snap.cur.at - base)
    BY <1>1, <1>2, <2>1 DEF Reaches
  <2> QED  BY <2>2, <2>3, <1>2, <1>3
<1>7. base' <= snap.disk.at /\ base' <= snap.cur.at
  BY <1>1, <1>2, <1>3, <1>4, <1>6
<1>8. Reaches'
  <2>1. CASE Read = 0
    BY <2>1, <1>1, <1>6 DEF Reaches
  <2>2. CASE Read # 0
    BY <2>2, <1>1, <1>2 DEF Reaches, CanRead
  <2> QED  BY <2>1, <2>2
<1> QED  BY <1>1, <1>2, <1>3, <1>4, <1>5, <1>7, <1>8

LEMMA CheckpointGap ==
  ASSUME RecoveryInv, Checkpoint
  PROVE  BaseInHistory' /\ NoGap' /\ Reaches'
<1>0. GapInv
  BY DEF RecoveryInv
<1>1. Len(states) \in Nat /\ base \in Nat
  BY <1>0, LenProperties DEF GapInv, TypeInv, Typed
<1>2. CASE SaveTmp
  BY <1>0, <1>2 DEF SaveTmp, GapInv, BaseInHistory, NoGap, Reaches, CanRead, ghost
<1>3. CASE FsyncTmp
  BY <1>0, <1>3 DEF FsyncTmp, GapInv, BaseInHistory, NoGap, Reaches, CanRead, ghost
<1>4. CASE Rename
  <2>1. snap'.cur.at = Len(states) /\ snap'.disk = snap.disk
    BY <1>0, <1>4 DEF Rename, GapInv, TypeInv, Typed, Saving, Current
  <2>2. aligned => \A k \in 1 .. Len(states) - base : CanRead(k)
    BY <1>4 DEF Rename, RecoveryInv, WhileAligned, LogComplete, Up
  <2>3. BaseInHistory' /\ NoGap'
    BY <1>0, <1>4, <2>1 DEF Rename, GapInv, BaseInHistory, NoGap, ghost
  <2>4. Reaches'
    BY <1>4, <2>1, <2>2 DEF Rename, Reaches, CanRead, ghost
  <2> QED  BY <2>3, <2>4
<1>5. CASE FsyncDir
  <2>1. snap'.cur = snap.cur /\ snap'.disk = snap.cur
    BY <1>0, <1>5 DEF FsyncDir, GapInv, TypeInv, Typed
  <2> QED  BY <1>0, <1>5, <2>1
           DEF FsyncDir, GapInv, BaseInHistory, NoGap, Reaches, ghost
<1>6. CASE TruncateLog
  <2>1. snap.cur.at = Len(states) /\ snap.disk.at = Len(states)
    BY <1>0, <1>6 DEF TruncateLog, GapInv, Saving, Current
  <2> QED  BY <1>1, <1>6, <2>1
           DEF TruncateLog, BaseInHistory, NoGap, Reaches, files
<1>7. CASE CreateMarker
  BY <1>0, <1>7
     DEF CreateMarker, GapInv, BaseInHistory, NoGap, Reaches, CanRead, ghost
<1>8. CASE FsyncMarker
  BY <1>0, <1>8 DEF FsyncMarker, GapInv, BaseInHistory, NoGap, Reaches, CanRead
<1>9. CASE CheckpointFails
  <2>1. /\ snap'.cur = snap.cur
        /\ snap'.disk = snap.cur \/ snap'.disk = snap.disk
    BY <1>0, <1>9 DEF CheckpointFails, GapInv, TypeInv, Typed
  <2>2. UNCHANGED <<log, states, base, aligned>>
    BY <1>9 DEF CheckpointFails, ghost
  <2> QED  BY <1>0, <2>1, <2>2 DEF GapInv, BaseInHistory, NoGap, Reaches, CanRead
<1> QED  BY <1>2, <1>3, <1>4, <1>5, <1>6, <1>7, <1>8, <1>9 DEF Checkpoint

\* A power failure undoes at most the rename: what it leaves holds the state
\* of one of the two snapshots.
LEMMA EnvironmentGap ==
  ASSUME RecoveryInv, Environment
  PROVE  BaseInHistory' /\ NoGap' /\ Reaches'
<1>0. GapInv
  BY DEF RecoveryInv
<1>1. CASE Close \/ Exit
  <2>1. UNCHANGED <<log, snap, states, base, aligned>>
    BY <1>1 DEF Close, Exit, files, ghost
  <2> QED  BY <1>0, <2>1 DEF GapInv, BaseInHistory, NoGap, Reaches, CanRead
<1>2. CASE ProcessCrash
  <2>1. /\ aligned' = (aligned /\ ~Orphans(log'))
        /\ UNCHANGED <<snap, states, base>>
    BY <1>2 DEF ProcessCrash
  <2>2. /\ snap.disk.at <= snap.cur.at
        /\ snap.disk.at \in Nat /\ snap.cur.at \in Nat
    BY <1>0, Bounds DEF RecoveryInv, GapInv, Always, SnapBounds
  <2>3. aligned' => \/ snap.cur.at = snap.disk.at
                    \/ \A k \in 1 .. snap.cur.at - base : CanRead(k)'
    <3>1. ASSUME ~Orphans(log'), snap.disk.at < snap.cur.at,
                 NEW k \in 1 .. snap.cur.at - base
          PROVE  CanRead(k)'
      BY <3>1 DEF Orphans, CanRead
    <3>2. snap.disk.at < snap.cur.at \/ snap.cur.at = snap.disk.at
      BY <2>2
    <3> QED  BY <2>1, <3>1, <3>2
  <2> QED  BY <1>0, <2>1, <2>3 DEF GapInv, BaseInHistory, NoGap, Reaches
<1>3. CASE MachineCrash
  <2>1. PICK file \in AfterPowerLoss(snap.cur) \cup AfterPowerLoss(snap.disk) :
          snap' = [cur |-> file, disk |-> file]
    BY <1>3 DEF MachineCrash
  <2>2. snap.cur \in Files /\ snap.disk \in Files
    BY <1>0 DEF GapInv, TypeInv, Typed
  <2>3. ASSUME NEW f \in Files, NEW left \in AfterPowerLoss(f)
        PROVE  left.at = f.at
    BY <2>3 DEF AfterPowerLoss, Files
  <2>4. file.at \in {snap.cur.at, snap.disk.at}
    BY <2>1, <2>2, <2>3
  <2>5. snap'.cur.at = file.at /\ snap'.disk.at = file.at
    BY <2>1
  <2> QED  BY <1>0, <1>3, <2>4, <2>5
           DEF MachineCrash, GapInv, BaseInHistory, NoGap, Reaches
<1> QED  BY <1>1, <1>2, <1>3 DEF Environment

LEMMA GapInvStep == RecoveryInv /\ [Next]_vars => GapInv'
<1> SUFFICES ASSUME RecoveryInv, [Next]_vars
             PROVE  GapInv'
  OBVIOUS
<1>0. GapInv
  BY DEF RecoveryInv
<1>1. TypeInv' /\ Saving'
  BY <1>0, TypeInvStep, SavingStep DEF GapInv
<1> SUFFICES BaseInHistory' /\ NoGap' /\ Reaches'
  BY <1>1 DEF GapInv
<1>2. ASSUME UNCHANGED <<log, snap, states, base, aligned>>
      PROVE  BaseInHistory' /\ NoGap' /\ Reaches'
  BY <1>0, <1>2 DEF GapInv, BaseInHistory, NoGap, Reaches, CanRead
<1>3. CASE \E frame \in Requests : Write(frame) \/ AppendFails(frame)
  BY <1>0, <1>3, WriteGap, AppendFailsGap
<1>4. CASE SyncFails
  BY <1>4 DEF SyncFails, BaseInHistory, NoGap, Reaches
<1>5. CASE SyncRecord \/ ApplyRecord \/ \E policy \in Policies : SetPolicy(policy)
  BY <1>2, <1>5 DEF SyncRecord, ApplyRecord, SetPolicy, files, ghost
<1>6. CASE OpenDir \/ ReplayRow \/ ReplayDone
  BY <1>2, <1>6 DEF OpenDir, ReplayRow, ReplayDone, files, ghost
<1>7. CASE UNCHANGED vars
  BY <1>2, <1>7 DEF vars, files, ghost
<1> QED  BY <1>3, <1>4, <1>5, <1>6, <1>7, AttachGap, CheckpointGap, EnvironmentGap
         DEF Next, Mutate, Recover

-----------------------------------------------------------------------------
LEMMA RecoveryInvStep == RecoveryInv /\ [Next]_vars => RecoveryInv'
<1> SUFFICES ASSUME RecoveryInv, [Next]_vars
             PROVE  RecoveryInv'
  OBVIOUS
<1>1. GapInv'
  BY GapInvStep
<1> SUFFICES Always' /\ WhileAligned'
  BY <1>1 DEF RecoveryInv
<1>2. CASE Mutate
  BY <1>2, WriteRecovers, AppendFailsRecovers, SyncRecovers, SyncFailsRecovers,
     ApplyRecovers, SetPolicyRecovers DEF Mutate
<1>3. CASE Recover
  BY <1>3, OpenRecovers, ReplayRecovers, ReplayDoneRecovers, AttachRecovers
     DEF Recover
<1>4. CASE UNCHANGED vars
  <2>1. Always'
    BY <1>4 DEF vars, files, ghost, RecoveryInv, Always, MemCurrent, Up,
                InFlightPhase, SnapBounds, Settled, PromiseBounds, SyncDone,
                Emptied
  <2>2. WhileAligned'
    BY <1>4 DEF vars, files, ghost, RecoveryInv, WhileAligned, LogLeads,
                LogComplete, Covered, Up, CanRead, SnapSound, Replaying, Read,
                StaleLog, Target
  <2> QED  BY <2>1, <2>2
<1> QED  BY <1>2, <1>3, <1>4, CheckpointRecovers, EnvironmentRecovers DEF Next

LEMMA RecoveryInvExact == RecoveryInv => RecoveryContract
<1> SUFFICES ASSUME RecoveryInv, phase = "replayed", aligned, ~StaleLog
             PROVE  /\ base + Read \in promised.process .. Len(states)
                    /\ Lookup(mem) = states[base + Read]
  BY DEF RecoveryContract
<1>1. TypeInv
  BY DEF RecoveryInv, GapInv
<1>2. /\ Len(states) \in Nat /\ base \in Nat \ {0} /\ Read \in Nat
      /\ promised.process \in Nat
      /\ DOMAIN log = 1 .. Len(log) /\ cursor.rec = Read + 1
  BY <1>1, Bounds DEF Read
<1>3. LogLeads /\ Covered /\ Replaying /\ base <= Len(states)
  BY DEF RecoveryInv, WhileAligned, GapInv, BaseInHistory
<1>4. \A k \in 1 .. Read : CanRead(k)
  BY <1>3 DEF Replaying
<1>5. ~CanRead(Read + 1)
  BY <1>2, <1>3 DEF Replaying
<1>6. base + Read <= Len(states)
  <2>1. CASE Read = 0
    BY <2>1, <1>2, <1>3
  <2>2. CASE Read # 0
    <3>1. CanRead(Read)
      BY <2>2, <1>2, <1>4
    <3>2. Read \in DOMAIN log
      BY <3>1 DEF CanRead
    <3> QED  BY <3>1, <3>2, <1>3 DEF LogLeads
  <2> QED  BY <2>1, <2>2
<1>7. promised.process <= base + Read
  <2>1. ~(Read + 1 \in 1 .. promised.process - base)
    BY <1>3, <1>5 DEF Covered
  <2> QED  BY <2>1, <1>2
<1>8. \A id \in Ids : Lookup(mem)[id] = states[base + Read][id]
  BY <1>3 DEF Replaying, Target
<1>9. Lookup(mem) = states[base + Read]
  <2>1. base + Read \in 1 .. Len(states)
    BY <1>2, <1>6
  <2>2. states[base + Read] \in [Ids -> Vecs \cup {NoVec}]
    BY <2>1, <1>1, Bounds, ElementOfSeq
  <2>3. Lookup(mem) \in [Ids -> Vecs \cup {NoVec}]
    BY <1>1, LookupType DEF TypeInv, Typed, TablesOK
  <2> QED  BY <1>8, <2>2, <2>3
<1> QED  BY <1>2, <1>6, <1>7, <1>9

\* What open() serves when it has replayed an unbroken log that is not behind
\* the snapshot is the state after the last frame read, exactly, and nothing
\* that was promised to survive is missing from it: under every policy,
\* whatever crashed or failed before.
THEOREM RecoveryContractHolds == Spec => []RecoveryContract
<1>1. RecoveryInv /\ [Next]_vars => RecoveryInv'
  BY RecoveryInvStep
<1> QED  BY <1>1, InitRecoveryInv, RecoveryInvExact, PTL DEF Spec

\* No write is missing between the first frame of a log that has kept its
\* place and the snapshots that open() or a power failure would restore.  A
\* log loses its place through the four events that DurableStore names, of
\* which one is a process crash that takes unflushed frames behind a rename.
THEOREM NoGapHolds == Spec => []NoGap
<1>1. RecoveryInv => NoGap
  BY DEF RecoveryInv, GapInv
<1>2. RecoveryInv /\ [Next]_vars => RecoveryInv'
  BY RecoveryInvStep
<1> QED  BY <1>1, <1>2, InitRecoveryInv, PTL DEF Spec

-----------------------------------------------------------------------------
(* The marker and the refusals                                             *)

\* A snapshot that can be seen or come back is whole and fsynced, and from
\* the truncation of the log on there is one.
FilesIntact ==
  /\ \A file \in {snap.cur, snap.disk} :
       /\ file.safe
       /\ file = Absent \/ file.kind = "image"
       /\ marker # "none" \/ phase \in {"truncated", "marked"}
            => file.kind = "image"
  /\ phase = "refused" =>
       snap.cur.kind = "image" /\ ~UniqueIds(snap.cur.image.rows)

LEMMA FilesIntactStep ==
  TypeInv /\ Saving /\ FilesIntact /\ [Next]_vars => FilesIntact'
<1> SUFFICES ASSUME TypeInv, Saving, FilesIntact, [Next]_vars
             PROVE  FilesIntact'
  OBVIOUS
<1>1. snap = [cur |-> snap.cur, disk |-> snap.disk]
      /\ marker \in {"none", "cached", "durable"}
  BY DEF TypeInv, Typed
<1>2. ASSUME phase' \notin {"refused", "truncated", "marked"},
             marker' = marker \/ marker # "none",
             snap'.cur \in {snap.cur, snap.disk},
             snap'.disk \in {snap.cur, snap.disk}
      PROVE  FilesIntact'
  BY <1>2 DEF FilesIntact
<1>3. CASE Mutate
  <2>1. phase' \in {"ready", "logged", "durable"} /\ UNCHANGED <<snap, marker>>
    BY <1>3 DEF Mutate, Write, AppendFails, CanWrite, SyncRecord, SyncFails,
                ApplyRecord, SetPolicy, files
  <2> QED  BY <1>2, <2>1
<1>4. CASE SaveTmp \/ FsyncTmp
  <2>1. phase' \in {"saved", "tmpsynced"} /\ UNCHANGED <<snap, marker>>
    BY <1>4 DEF SaveTmp, FsyncTmp
  <2> QED  BY <1>2, <2>1
<1>5. CASE Rename
  <2>1. /\ tmp.kind = "image" /\ tmp.safe /\ phase' = "renamed"
        /\ snap'.cur = tmp /\ snap'.disk = snap.disk /\ marker' = marker
    BY <1>1, <1>5 DEF Rename, Saving, Current
  <2> QED  BY <2>1 DEF FilesIntact
<1>6. CASE FsyncDir
  <2>1. /\ phase' = "dirsynced"
        /\ snap'.cur = snap.cur /\ snap'.disk = snap.cur
        /\ marker' = marker \/ marker # "none"
    BY <1>1, <1>6 DEF FsyncDir
  <2> QED  BY <1>2, <2>1
<1>7. CASE TruncateLog
  <2>1. /\ snap.cur.kind = "image" /\ snap.disk = snap.cur
        /\ phase' = "truncated" /\ UNCHANGED <<snap, marker>>
    BY <1>7 DEF TruncateLog, Saving, Current, files
  <2> QED  BY <2>1 DEF FilesIntact
<1>8. CASE CreateMarker \/ FsyncMarker
  <2>1. /\ phase \in {"truncated", "marked"} /\ phase' \in {"marked", "ready"}
        /\ snap' = snap
    BY <1>8 DEF CreateMarker, FsyncMarker
  <2> QED  BY <2>1 DEF FilesIntact
<1>9. CASE CheckpointFails
  <2>1. /\ phase' = "ready" /\ marker' = marker
        /\ snap'.cur = snap.cur /\ snap'.disk \in {snap.cur, snap.disk}
    BY <1>1, <1>9 DEF CheckpointFails
  <2> QED  BY <1>2, <2>1
<1>10. CASE OpenDir
  <2>1. /\ phase' \in {"refused", "replay"}
        /\ phase' = "refused" => Refuses
        /\ UNCHANGED <<snap, marker>>
    BY <1>10 DEF OpenDir, files
  <2>2. Refuses => snap.cur.kind = "image" /\ ~UniqueIds(snap.cur.image.rows)
    <3>1. Absent.kind = "absent" /\ RestoreOK(Absent.image)
      BY DEF Absent, EmptyImage, SaveImage, EmptyTables, RestoreOK, UniqueIds
    <3> QED  BY <3>1 DEF FilesIntact, Refuses, RestoreOK
  <2>3. snap'.cur = snap.cur /\ snap'.disk = snap.disk /\ marker' = marker
        /\ phase' \notin {"truncated", "marked"}
    BY <2>1
  <2> QED  BY <2>1, <2>2, <2>3 DEF FilesIntact
<1>11. CASE ReplayRow \/ ReplayDone \/ AttachWal
  <2>1. phase' \in {"replay", "replayed", "ready"} /\ UNCHANGED <<snap, marker>>
    BY <1>11 DEF ReplayRow, ReplayDone, AttachWal, files
  <2> QED  BY <1>2, <2>1
<1>12. CASE Close \/ Exit \/ ProcessCrash
  <2>1. phase' \in {"closed", "down"} /\ UNCHANGED <<snap, marker>>
    BY <1>12 DEF Close, Exit, ProcessCrash, files
  <2> QED  BY <1>2, <2>1
<1>13. CASE MachineCrash
  <2>1. /\ phase' = "down" /\ (marker' = marker \/ marker # "none")
    BY <1>13 DEF MachineCrash
  <2>2. PICK file \in AfterPowerLoss(snap.cur) \cup AfterPowerLoss(snap.disk) :
          snap' = [cur |-> file, disk |-> file]
    BY <1>13 DEF MachineCrash
  <2>3. file \in {snap.cur, snap.disk}
    BY <2>2 DEF AfterPowerLoss, FilesIntact
  <2>4. snap'.cur = file /\ snap'.disk = file
    BY <2>2
  <2> QED  BY <1>2, <2>1, <2>3, <2>4
<1>14. CASE UNCHANGED vars
  BY <1>14 DEF vars, files, FilesIntact
<1> QED  BY <1>3, <1>4, <1>5, <1>6, <1>7, <1>8, <1>9, <1>10, <1>11, <1>12,
            <1>13, <1>14
         DEF Next, Checkpoint, Recover, Environment

\* Whatever crashed, was cut or failed, the one thing that makes open()
\* refuse a directory is a whole snapshot with two rows of one id.
THEOREM RefusalsExplained == Spec => []OnlyRepeatsRefused
<1> DEFINE Inv == TypeInv /\ Saving /\ FilesIntact
<1>1. Init => Inv
  <2>1. Init => TypeInv /\ Saving
    BY InitTypeInv DEF Init, Saving
  <2>2. Init => FilesIntact
    BY DEF Init, FilesIntact, Absent
  <2> QED  BY <2>1, <2>2
<1>2. Inv /\ [Next]_vars => Inv'
  BY TypeInvStep, SavingStep, FilesIntactStep
<1>3. Inv => OnlyRepeatsRefused
  BY DEF FilesIntact, OnlyRepeatsRefused
<1> QED  BY <1>1, <1>2, <1>3, PTL DEF Spec

-----------------------------------------------------------------------------

(***************************************************************************)
(* DurableStore keeps what db.hpp and wal.hpp promise: the refinement of   *)
(* StorePromise by CoveredSpec, for any ids, vectors, policies and bounds, *)
(* when no frame is cut and no append or sync fails.  CoveredInv adds to   *)
(* RecoveryInv that the log never loses its place: it holds no cut frame   *)
(* and always reaches as far as the snapshot that open() restores.         *)
(***************************************************************************)

\* The frames of the log, without the one whose call may still fail.
Safe == IF phase = "logged" THEN Len(log) - 1 ELSE Len(log)

NoCutFrames == \A k \in DOMAIN log : log[k].op # "torn"

CoveredInv ==
  /\ RecoveryInv
  /\ aligned
  /\ NoCutFrames
  /\ snap.cur.at <= base + Safe

\* While the directory is open the log reaches as far as the snapshot.
LEMMA LogCoversSnapshot ==
  RecoveryInv /\ aligned /\ NoCutFrames /\ Up => snap.cur.at <= base + Safe
<1> SUFFICES ASSUME RecoveryInv, aligned, NoCutFrames, Up
             PROVE  snap.cur.at <= base + Safe
  OBVIOUS
<1>1. TypeInv /\ BaseInHistory /\ Always /\ LogLeads /\ LogComplete
  BY DEF RecoveryInv, GapInv, WhileAligned
<1>2. base + Len(log) = Len(states)
  BY <1>1, LogReachesEnd DEF NoCutFrames
<1>3. snap.cur.at <= Settled
  BY <1>1 DEF Always, SnapBounds
<1>4. /\ Len(states) \in Nat /\ Len(log) \in Nat /\ base \in Nat
      /\ snap.cur.at \in Nat
  BY <1>1, Bounds
<1> QED  BY <1>2, <1>3, <1>4 DEF Settled, InFlightPhase, Safe

LEMMA InitCoveredInv == Init => CoveredInv
<1> SUFFICES ASSUME Init
             PROVE  CoveredInv
  OBVIOUS
<1>1. log = <<>> /\ Len(log) = 0
  BY DEF Init
<1> QED  BY <1>1, InitRecoveryInv
         DEF Init, CoveredInv, NoCutFrames, Safe, Absent

\* A crash cuts no frame; what it may take comes behind the frames that are
\* sure to survive.
LEMMA CrashCovered ==
  ASSUME CoveredInv, "torn" \notin Faults, NEW kept \in Nat,
         log' \in Remains(kept), phase' = "down"
  PROVE  /\ NoCutFrames' /\ Safe' = Len(log')
         /\ Len(log') \in Nat /\ kept <= Len(log')
         /\ DOMAIN log' = 1 .. Len(log')
<1>1. /\ log \in Seq(Frames) /\ Len(log) \in Nat /\ DOMAIN log = 1 .. Len(log)
  BY Bounds DEF CoveredInv, RecoveryInv, GapInv
<1>2. PICK k \in kept .. Len(log) : log' = SubSeq(log, 1, k)
  BY DEF Remains
<1>3. k \in Nat /\ kept <= k /\ k <= Len(log)
  BY <1>1
<1>4. \A i \in 1 .. k : i \in 1 .. Len(log) /\ log[i] \in Frames
  BY <1>1, <1>3, ElementOfSeq
<1>5. log' \in Seq(Frames) /\ Len(log') = k /\ \A i \in 1 .. k : log'[i] = log[i]
  <2>1. /\ SubSeq(log, 1, k) \in Seq(Frames)
        /\ Len(SubSeq(log, 1, k)) = IF 1 <= k THEN k - 1 + 1 ELSE 0
        /\ \A i \in 1 .. k - 1 + 1 : SubSeq(log, 1, k)[i] = log[1 + i - 1]
    BY <1>3, <1>4, SubSeqProperties
  <2> QED  BY <2>1, <1>2, <1>3
<1>6. DOMAIN log' = 1 .. k
  BY <1>5, LenProperties
<1>7. NoCutFrames'
  BY <1>1, <1>4, <1>5, <1>6 DEF CoveredInv, NoCutFrames
<1>8. Safe' = Len(log')
  BY DEF Safe
<1> QED  BY <1>3, <1>5, <1>6, <1>7, <1>8

LEMMA CoveredInvStep ==
  ASSUME Faults \subseteq {"ckpt"}
  PROVE  CoveredInv /\ [CoveredNext]_vars => CoveredInv'
<1> SUFFICES ASSUME CoveredInv, [CoveredNext]_vars
             PROVE  CoveredInv'
  OBVIOUS
<1>1. RecoveryInv'
  BY RecoveryInvStep DEF CoveredInv, CoveredNext
<1>2. TypeInv /\ Saving
  BY DEF CoveredInv, RecoveryInv, GapInv
<1>3. /\ log \in Seq(Frames) /\ Len(log) \in Nat /\ DOMAIN log = 1 .. Len(log)
      /\ flushed \in Nat /\ synced \in Nat /\ base \in Nat \ {0}
      /\ Len(states) \in Nat \ {0} /\ snap.cur.at \in Nat
  BY <1>2, Bounds
<1>4. Safe \in Int /\ Safe <= Len(log)
  BY <1>3 DEF Safe
<1>5. ASSUME aligned', NoCutFrames', Up'
      PROVE  (snap.cur.at <= base + Safe)'
  <2>1. (RecoveryInv /\ aligned /\ NoCutFrames /\ Up)'
          => (snap.cur.at <= base + Safe)'
    BY LogCoversSnapshot, PTL
  <2> QED  BY <2>1, <1>1, <1>5
<1>6. ASSUME Up', aligned', NoCutFrames'
      PROVE  CoveredInv'
  BY <1>1, <1>5, <1>6 DEF CoveredInv
<1>7. CASE \E frame \in Requests : Write(frame)
  <2>1. PICK frame : Write(frame)
    BY <1>7
  <2>2. frame \in Frames /\ frame.op # "torn"
    BY <2>1, AcceptedFrame DEF Write
  <2>3. /\ phase = "ready" /\ phase' = "logged" /\ log' = Append(log, frame)
        /\ aligned' = (aligned /\ \A k \in DOMAIN log : log[k].op # "torn")
    BY <2>1 DEF Write, CanWrite
  <2>4. /\ DOMAIN log' = 1 .. Len(log) + 1 /\ Len(log') = Len(log) + 1
        /\ \A k \in 1 .. Len(log) : log'[k] = log[k]
        /\ log'[Len(log) + 1] = frame
    BY <2>2, <2>3, <1>3
  <2>5. NoCutFrames'
    <3>1. \A k \in 1 .. Len(log) + 1 : k \in 1 .. Len(log) \/ k = Len(log) + 1
      BY <1>3
    <3> QED  BY <3>1, <2>2, <2>4, <1>3 DEF CoveredInv, NoCutFrames
  <2>6. aligned' /\ Up'
    BY <2>3 DEF CoveredInv, NoCutFrames, Up
  <2> QED  BY <2>5, <2>6, <1>6
<1>8. CASE SyncRecord
  <2>1. phase' = "durable" /\ UNCHANGED <<log, aligned>>
    BY <1>8 DEF SyncRecord, ghost
  <2> QED  BY <2>1, <1>6 DEF CoveredInv, NoCutFrames, Up
<1>9. CASE ApplyRecord \/ \E policy \in Policies : SetPolicy(policy)
  <2>1. phase' = "ready" /\ UNCHANGED <<log, aligned>>
    BY <1>9 DEF ApplyRecord, SetPolicy, ghost
  <2> QED  BY <2>1, <1>6 DEF CoveredInv, NoCutFrames, Up
<1>10. CASE TruncateLog
  <2>1. phase' = "truncated" /\ log' = <<>> /\ aligned'
    BY <1>10 DEF TruncateLog
  <2> QED  BY <2>1, <1>6 DEF NoCutFrames, Up
<1>11. CASE (Checkpoint /\ ~TruncateLog) \/ Close
  <2>1. Up' /\ UNCHANGED <<log, aligned>>
    BY <1>11 DEF Checkpoint, SaveTmp, FsyncTmp, Rename, FsyncDir, CreateMarker,
                 FsyncMarker, CheckpointFails, Close, Up, ghost
  <2> QED  BY <2>1, <1>6 DEF CoveredInv, NoCutFrames
<1>12. CASE OpenDir \/ ReplayRow \/ ReplayDone \/ Exit
  <2>1. /\ phase # "logged" /\ phase' # "logged"
        /\ UNCHANGED <<log, aligned, snap, base>>
    BY <1>12 DEF OpenDir, ReplayRow, ReplayDone, Exit, ghost, files
  <2> QED  BY <2>1, <1>1, <1>3 DEF CoveredInv, NoCutFrames, Safe
<1>13. CASE AttachWal
  <2>1. /\ phase = "replayed" /\ phase' = "ready"
        /\ UNCHANGED log
        /\ aligned' = (aligned /\ (Read > 0 => ~StaleLog))
    BY <1>13 DEF AttachWal
  <2>2. Replaying
    BY DEF CoveredInv, RecoveryInv, WhileAligned
  <2>3. Len(log) <= Read
    <3>1. cursor.rec = Read + 1 /\ Read \in Nat
      BY <1>2, Bounds DEF Read
    <3>2. ~(Read + 1 \in 1 .. Len(log))
      BY <3>1, <2>1, <2>2, <1>3 DEF Replaying, CoveredInv, NoCutFrames, CanRead
    <3> QED  BY <3>1, <3>2, <1>3
  <2>4. snap.cur.at <= base + Read /\ Read \in Nat
    <3>1. snap.cur.at <= base + Len(log)
      BY <2>1 DEF CoveredInv, Safe
    <3>2. Read \in Nat
      BY <1>2, Bounds
    <3> QED  BY <2>3, <3>1, <3>2, <1>3
  <2>5. aligned'
    <3>1. ~StaleLog
      BY <2>4, <1>3 DEF StaleLog
    <3> QED  BY <3>1, <2>1 DEF CoveredInv
  <2> QED  BY <2>1, <2>5, <1>6 DEF CoveredInv, NoCutFrames, Up
<1>14. ASSUME ProcessCrash \/ MachineCrash
       PROVE  CoveredNext
  <2>1. mishaps' = mishaps + 1 /\ mishaps \in Nat
    BY <1>2, <1>14
       DEF ProcessCrash, MachineCrash, CanCrash, Mishap, TypeInv, Typed
  <2> QED  BY <2>1 DEF vars
<1>15. CASE ProcessCrash
  <2>1. /\ log' \in Remains(flushed) /\ phase' = "down"
        /\ UNCHANGED <<snap, base>> /\ aligned' = (aligned /\ ~Orphans(log'))
    BY <1>15 DEF ProcessCrash
  <2>2. snap.cur.at <= base + flushed
    BY <1>14, <1>15 DEF CoveredNext
  <2>3. /\ NoCutFrames' /\ Safe' = Len(log') /\ Len(log') \in Nat
        /\ flushed <= Len(log') /\ DOMAIN log' = 1 .. Len(log')
    BY <2>1, <1>3, CrashCovered
  <2>4. snap.cur.at <= base + Len(log')
    BY <2>2, <2>3, <1>3
  <2>5. ~Orphans(log')
    <3>1. \A k \in 1 .. snap.cur.at - base : k \in DOMAIN log'
      BY <2>3, <2>4, <1>3
    <3> QED  BY <3>1, <2>3 DEF Orphans, NoCutFrames
  <2> QED  BY <2>1, <2>3, <2>4, <2>5, <1>1 DEF CoveredInv
<1>16. CASE MachineCrash
  <2>1. /\ log' \in Remains(synced) /\ phase' = "down"
        /\ UNCHANGED <<base, aligned>>
    BY <1>16 DEF MachineCrash
  <2>2. snap.cur.at <= base + synced
    BY <1>14, <1>16 DEF CoveredNext
  <2>3. /\ NoCutFrames' /\ Safe' = Len(log') /\ Len(log') \in Nat
        /\ synced <= Len(log')
    BY <2>1, <1>3, CrashCovered
  <2>4. snap'.cur.at <= snap.cur.at /\ snap'.cur.at \in Nat
    <3>1. PICK file \in AfterPowerLoss(snap.cur) \cup AfterPowerLoss(snap.disk) :
            snap' = [cur |-> file, disk |-> file]
      BY <1>16 DEF MachineCrash
    <3>2. ASSUME NEW f \in Files, NEW left \in AfterPowerLoss(f)
          PROVE  left.at = f.at
      BY <3>2 DEF AfterPowerLoss, Files
    <3>3. file.at \in {snap.cur.at, snap.disk.at}
      BY <1>2, <3>1, <3>2 DEF TypeInv, Typed
    <3>4. snap.disk.at <= snap.cur.at /\ snap.disk.at \in Nat
      BY <1>2, Bounds DEF CoveredInv, RecoveryInv, Always, SnapBounds
    <3>5. snap'.cur.at = file.at
      BY <3>1
    <3> QED  BY <3>3, <3>4, <3>5, <1>3
  <2>5. (snap.cur.at <= base + Safe)'
    BY <2>1, <2>2, <2>3, <2>4, <1>3
  <2> QED  BY <2>1, <2>3, <2>5, <1>1 DEF CoveredInv
<1>17. CASE UNCHANGED vars
  BY <1>1, <1>17 DEF vars, files, ghost, CoveredInv, NoCutFrames, Safe
<1>18. ASSUME NEW frame
       PROVE  ~AppendFails(frame) /\ ~SyncFails
  BY DEF AppendFails, SyncFails
<1> QED  BY <1>7, <1>8, <1>9, <1>10, <1>11, <1>12, <1>13, <1>15, <1>16, <1>17,
            <1>18
         DEF CoveredNext, Next, Mutate, Checkpoint, Recover, Environment

\* After any writes, under any policies, checkpoints that succeed or fail,
\* recoveries, and crashes of the process or the machine that do not meet a
\* snapshot ahead of the log that survives (CoveredNext), open() serves the
\* state after some accepted write that is not older than the last one it
\* promised to keep.
THEOREM PromiseIsKept ==
  ASSUME Faults \subseteq {"ckpt"}
  PROVE  CoveredSpec => []PromiseKept
<1>1. ASSUME CoveredInv, phase = "replayed"
      PROVE  \E i \in promised.process .. Len(states) : Lookup(mem) = states[i]
  <2>1. TypeInv /\ Replaying /\ aligned
    BY <1>1 DEF CoveredInv, RecoveryInv, GapInv, WhileAligned
  <2>2. /\ DOMAIN log = 1 .. Len(log) /\ Len(log) \in Nat /\ base \in Nat
        /\ snap.cur.at \in Nat /\ Read \in Nat /\ cursor.rec = Read + 1
    BY <2>1, Bounds DEF Read
  <2>3. Len(log) <= Read
    <3>1. ~(Read + 1 \in 1 .. Len(log))
      BY <1>1, <2>1, <2>2 DEF Replaying, CoveredInv, NoCutFrames, CanRead
    <3> QED  BY <3>1, <2>2
  <2>4. ~StaleLog
    <3>1. snap.cur.at <= base + Len(log)
      BY <1>1 DEF CoveredInv, Safe
    <3> QED  BY <3>1, <2>2, <2>3 DEF StaleLog
  <2>5. RecoveryContract
    BY <1>1, RecoveryInvExact DEF CoveredInv
  <2> QED  BY <1>1, <2>1, <2>4, <2>5 DEF RecoveryContract
<1>2. CoveredInv => PromiseKept
  BY <1>1 DEF PromiseKept
<1> QED  BY <1>2, InitCoveredInv, CoveredInvStep, PTL DEF CoveredSpec

-----------------------------------------------------------------------------
(* The refinement                                                          *)

\* What the abstract store serves.
Served == IF Serving THEN Lookup(mem) ELSE <<>>

LEMMA ServedIsMap ==
  ASSUME TypeInv, Ids # {}
  PROVE  Lookup(mem) \in [Ids -> Vecs \cup {NoVec}] /\ Lookup(mem) # <<>>
<1>1. Lookup(mem) \in [Ids -> Vecs \cup {NoVec}]
  BY LookupType DEF TypeInv, Typed, TablesOK
<1>2. DOMAIN Lookup(mem) = Ids /\ DOMAIN <<>> = {}
  BY <1>1
<1> QED  BY <1>1, <1>2

\* A write that was accepted leads to one of the maps a call may lead to.
LEMMA AcceptedIsAfter ==
  ASSUME TypeInv, NEW frame, Accepts(frame)
  PROVE  Lookup(Apply(mem, frame)) \in Promise!After(Lookup(mem))
<1> DEFINE before == Lookup(mem)
           after  == Lookup(Apply(mem, frame))
<1>1. frame \in Frames /\ frame.op # "torn" /\ frame.rows # <<>>
  BY AcceptedFrame
<1>2. before \in [Ids -> Vecs \cup {NoVec}] /\ after \in [Ids -> Vecs \cup {NoVec}]
  BY <1>1, ApplyOK, LookupType DEF TypeInv, Typed, TablesOK
<1>3. Leads(before, frame, after)
  BY AcceptedLeads DEF TypeInv
<1>4. 1 \in DOMAIN frame.rows
  BY <1>1, FirstRow
<1>5. frame.rows[1].id \in Ids
  BY <1>1, <1>4, FrameRow
<1>6. after # before
  <2>1. CASE frame.op = "remove"
    BY <2>1, <1>3, <1>4 DEF Leads
  <2>2. CASE frame.op # "remove"
    <3>1. frame.rows[1].vec \in Vecs
      BY <2>2, <1>1, <1>4, FrameRow DEF Row
    <3>2. before[frame.rows[1].id] = NoVec
          /\ after[frame.rows[1].id] = frame.rows[1].vec
      BY <2>2, <1>3, <1>4 DEF Leads
    <3> QED  BY <3>1, <3>2, NoVecAssumption
  <2> QED  BY <2>1, <2>2
<1>7. CASE frame.op # "remove"
  <2>1. ASSUME NEW id \in Ids, before[id] # NoVec
        PROVE  after[id] = before[id]
    <3>1. id \notin RowIds(frame.rows)
      BY <2>1, <1>3, <1>7 DEF Leads, RowIds
    <3> QED  BY <3>1, <1>3 DEF Leads
  <2> HIDE DEF before, after
  <2>2. after \in Promise!After(before)
    BY <2>1, <1>2, <1>6 DEF Promise!After, Promise!Maps
  <2> QED  BY <2>2 DEF before, after
<1>8. CASE frame.op = "remove"
  <2>1. PICK id \in Ids : frame = RemoveFrame(id)
    BY <1>8 DEF Accepts, InsertFrame, BulkFrame
  <2>2. DOMAIN frame.rows = {1} /\ frame.rows[1].id = id
    BY <2>1 DEF RemoveFrame
  <2>3. after[id] = NoVec /\ \A j \in Ids \ {id} : after[j] = before[j]
    BY <2>2, <1>3, <1>8 DEF Leads, RowIds
  <2> HIDE DEF before, after
  <2>4. after = [before EXCEPT ![id] = NoVec]
    BY <2>3, <1>2
  <2>5. after \in Promise!After(before)
    BY <2>4, <1>2, <1>6 DEF Promise!After, Promise!Maps
  <2> QED  BY <2>5 DEF before, after
<1> QED  BY <1>7, <1>8

\* A step that leaves what the user sees is a stutter.
LEMMA Unseen ==
  ASSUME Served' = Served, states' = states, promised' = promised,
         (phase' \in {"logged", "durable"}) <=> (phase \in {"logged", "durable"})
  PROVE  UNCHANGED Promise!vars
BY DEF Served, Promise!vars

LEMMA StepRefines ==
  ASSUME Faults \subseteq {"ckpt"}, Ids # {},
         CoveredInv, CoveredInv', [CoveredNext]_vars
  PROVE  [Promise!Next]_Promise!vars
<1> DEFINE Flying == {"logged", "durable"}
<1>1. TypeInv /\ Always /\ TypeInv' /\ Always'
  BY DEF CoveredInv, RecoveryInv, GapInv
<1>2. Lookup(mem) # <<>> /\ Lookup(mem)' # <<>>
  <2>1. (TypeInv /\ Ids # {} => Lookup(mem) # <<>>)'
    BY ServedIsMap, PTL
  <2> QED  BY <2>1, <1>1, ServedIsMap
<1>3. CASE \E frame \in Requests : Write(frame)
  <2>1. PICK frame : Write(frame)
    BY <1>3
  <2>2. /\ phase = "ready" /\ phase' = "logged" /\ mem' = mem
        /\ states' = Append(states, Lookup(Apply(mem, frame)))
        /\ promised' = promised
    BY <2>1 DEF Write, CanWrite
  <2>3. Lookup(Apply(mem, frame)) \in Promise!After(Lookup(mem))
    BY <2>1, <1>1, AcceptedIsAfter DEF Write
  <2>4. Promise!Begin
    BY <2>2, <2>3, <1>2 DEF Promise!Begin, Promise!Idle, Promise!Nothing, Serving
  <2> QED  BY <2>4 DEF Promise!Next
<1>4. CASE ApplyRecord
  <2>1. /\ phase = "durable" /\ phase' = "ready" /\ states' = states
        /\ mem' = Apply(mem, log[Len(log)])
        /\ promised' =
             [process |-> IF sync = "close" THEN promised.process ELSE Len(states),
              machine |-> IF sync = "always" THEN Len(states) ELSE promised.machine]
    BY <1>4 DEF ApplyRecord
  <2>2. Lookup(mem') = states[Len(states)]
    BY <2>1, <1>1 DEF Always, MemCurrent, InFlightPhase
  <2>3. Promise!Acknowledge
    BY <2>1, <2>2 DEF Promise!Acknowledge, Serving
  <2> QED  BY <2>3 DEF Promise!Next
<1>5. CASE FsyncMarker \/ Close
  <2>1. /\ phase \in {"marked", "ready"} /\ phase' \in {"ready", "closed"}
        /\ promised' = [process |-> Len(states), machine |-> Len(states)]
        /\ mem' = mem /\ states' = states
    BY <1>5 DEF FsyncMarker, Close
  <2>2. Promise!Secure
    BY <2>1, <1>2 DEF Promise!Secure, Promise!Idle, Promise!Nothing, Serving
  <2> QED  BY <2>2 DEF Promise!Next
<1>6. CASE ProcessCrash \/ Exit
  <2>1. phase' = "down" /\ states' = states /\ promised' = promised
        /\ (phase \in Flying => Serving)
    BY <1>6 DEF ProcessCrash, Exit, ghost, Serving
  <2>2. CASE Serving
    <3>1. Promise!Stop
      BY <2>1, <2>2, <1>2 DEF Promise!Stop, Promise!Nothing, Serving
    <3> QED  BY <3>1 DEF Promise!Next
  <2>3. CASE ~Serving
    BY <2>1, <2>3, Unseen DEF Served, Serving
  <2> QED  BY <2>2, <2>3
<1>7. CASE MachineCrash
  <2>1. /\ phase' = "down" /\ states' = states
        /\ promised' = [promised EXCEPT !.process = promised.machine]
    BY <1>7 DEF MachineCrash
  <2>2. Promise!PowerLoss
    BY <2>1 DEF Promise!PowerLoss, Promise!Nothing, Serving
  <2> QED  BY <2>2 DEF Promise!Next
<1>8. CASE AttachWal
  <2> DEFINE Maps == [Ids -> Vecs \cup {NoVec}]
             R    == Recovered
             kept == SubSeq(states, 1, R - 1)
  <2>1. /\ phase = "replayed" /\ phase' = "ready" /\ mem' = mem
        /\ states' = Append(kept, Lookup(mem))
        /\ promised' = [process |-> Lesser(promised.process, R),
                        machine |-> Lesser(promised.machine, R)]
    BY <1>8 DEF AttachWal
  <2>2. /\ R \in 1 .. Len(states) /\ Lookup(mem) = states[R]
        /\ snap.cur.at <= R
        /\ Read # 0 => R = base + Read
        /\ Read = 0 => base' = R /\ base <= R
    <3>1. aligned' /\ RecoveryInv
      BY DEF CoveredInv
    <3>2. aligned /\ base <= snap.cur.at
      BY DEF CoveredInv, RecoveryInv, GapInv, NoGap
    <3>3. /\ R \in 1 .. Len(states) /\ Lookup(mem) = states[R]
          /\ snap.cur.at <= R
          /\ Read # 0 => base' = base /\ R = base + Read
          /\ Read = 0 => base' = R
      BY <3>1, <1>8, AttachRecovered
    <3>4. base \in Nat /\ snap.cur.at \in Nat /\ Len(states) \in Nat
      BY <1>1, Bounds
    <3> QED  BY <3>2, <3>3, <3>4
  <2>3. /\ states \in Seq(Maps) /\ Len(states) \in Nat /\ base \in Nat
        /\ Read \in Nat
        /\ promised.process \in Nat /\ promised.machine \in Nat
    BY <1>1, Bounds
  <2>4. promised.process <= R /\ promised.machine <= R
    <3>1. promised.process <= base + Read
      <4>1. Covered /\ Replaying
        BY DEF CoveredInv, RecoveryInv, WhileAligned
      <4>2. cursor.rec = Read + 1
        BY <1>1, Bounds DEF Read
      <4>3. ~(Read + 1 \in 1 .. promised.process - base)
        BY <2>1, <4>1, <4>2 DEF Covered, Replaying
      <4> QED  BY <4>3, <2>3
    <3>2. promised.machine <= promised.process
      BY <1>1 DEF Always, PromiseBounds
    <3> QED  BY <3>1, <3>2, <2>2, <2>3
  <2>5. promised' = promised
    <3>1. Lesser(promised.process, R) = promised.process
          /\ Lesser(promised.machine, R) = promised.machine
      BY <2>2, <2>3, <2>4 DEF Lesser
    <3>2. promised = [process |-> promised.process, machine |-> promised.machine]
      BY <1>1 DEF TypeInv, Typed
    <3> QED  BY <2>1, <3>1, <3>2
  <2>6. states' = SubSeq(states, 1, R)
    <3> HIDE DEF Maps, R
    <3>1. SubSeq(states, 1, R) = SubSeq(states, 1, R - 1) \o <<states[R]>>
      BY <2>2, <2>3, SubSeqRecursiveSecond
    <3>2. kept \in Seq(Maps) /\ states[R] \in Maps
      <4>1. \A i \in 1 .. R - 1 : states[i] \in Maps
        <5> SUFFICES ASSUME NEW i \in 1 .. R - 1
                     PROVE  states[i] \in Maps
          OBVIOUS
        <5>1. i \in 1 .. Len(states)
          BY <2>2, <2>3
        <5> QED  BY <5>1, <2>3, ElementOfSeq
      <4>2. R - 1 \in Int
        BY <2>2, <2>3
      <4> QED  BY <4>1, <4>2, <2>2, <2>3, SubSeqProperties, ElementOfSeq
    <3>3. Append(kept, states[R]) = kept \o <<states[R]>>
      <4> HIDE DEF kept
      <4> QED  BY <3>2, AppendIsConcat
    <3> QED  BY <2>1, <2>2, <3>1, <3>3
  <2>7. R \in promised.process .. Len(states)
    BY <2>2, <2>3, <2>4
  <2>8. Promise!Recover
    <3> HIDE DEF R, kept
    <3> QED  BY <2>1, <2>2, <2>5, <2>6, <2>7
             DEF Promise!Recover, Promise!Nothing, Serving
  <2> QED  BY <2>8 DEF Promise!Next
<1>9. CASE SyncRecord \/ \E policy \in Policies : SetPolicy(policy)
  <2>1. /\ phase \in {"logged", "ready"}
        /\ phase' = IF phase = "logged" THEN "durable" ELSE "ready"
        /\ UNCHANGED <<mem, states, promised>>
    BY <1>9 DEF SyncRecord, SetPolicy, ghost
  <2> QED  BY <2>1, Unseen DEF Served, Serving
<1>10. CASE Checkpoint /\ ~FsyncMarker
  <2>1. /\ phase \in {"ready", "saved", "tmpsynced", "renamed", "dirsynced",
                      "truncated", "marked"}
        /\ phase' \in {"ready", "saved", "tmpsynced", "renamed", "dirsynced",
                       "truncated", "marked"}
        /\ UNCHANGED <<mem, states, promised>>
    BY <1>10 DEF Checkpoint, SaveTmp, FsyncTmp, Rename, FsyncDir, TruncateLog,
                 CreateMarker, CheckpointFails, ghost
  <2> QED  BY <2>1, Unseen DEF Served, Serving
<1>11. CASE OpenDir \/ ReplayRow \/ ReplayDone
  <2>1. /\ phase \in {"down", "replay"}
        /\ phase' \in {"refused", "replay", "replayed"}
        /\ UNCHANGED <<states, promised>>
    BY <1>11 DEF OpenDir, ReplayRow, ReplayDone, ghost
  <2> QED  BY <2>1, Unseen DEF Served, Serving
<1>12. CASE UNCHANGED vars
  BY <1>12, Unseen DEF vars, ghost, Served, Serving
<1>13. ASSUME NEW frame
       PROVE  ~AppendFails(frame) /\ ~SyncFails
  BY DEF AppendFails, SyncFails
<1> QED  BY <1>3, <1>4, <1>5, <1>6, <1>7, <1>8, <1>9, <1>10, <1>11, <1>12, <1>13
         DEF CoveredNext, Next, Mutate, Recover, Environment

\* The engine with its log, snapshot and marker is a store that keeps its
\* promise: each step of it is a step of StorePromise or one the user does
\* not see, with the crashes that CoveredNext admits.
THEOREM StoreKeepsPromise ==
  ASSUME Faults \subseteq {"ckpt"}, Ids # {}
  PROVE  CoveredSpec => KeepsPromise
<1>1. Init => Promise!Init
  <2>1. Lookup(EmptyTables) = [id \in Ids |-> NoVec]
    BY DEF Lookup, EmptyTables, IsLive
  <2> QED  BY <2>1 DEF Init, Promise!Init, Promise!Nothing, Promise!Blank, Serving
<1>2. CoveredInv /\ CoveredInv' /\ [CoveredNext]_vars => [Promise!Next]_Promise!vars
  BY StepRefines
<1>3. CoveredInv /\ [CoveredNext]_vars => CoveredInv'
  BY CoveredInvStep
<1> QED  BY <1>1, <1>2, <1>3, InitCoveredInv, PTL
         DEF CoveredSpec, KeepsPromise, Promise!Spec
=============================================================================
