--------------------------- MODULE SharedDBProofs ---------------------------
(***************************************************************************)
(* A VectorDB shared by threads is linearizable, and its files hold what   *)
(* its memory does whenever no writer is inside, for any threads, calls,   *)
(* ids and vectors.                                                        *)
(*                                                                         *)
(* LockInv says that the threads inside a method body hold rw_ as Side     *)
(* asks, ThreadOK what a thread inside a body knows: a reader, that what   *)
(* it has read so far is of the settled tables; a mutator, how far the     *)
(* tables in memory are from them.  JournalInv says what snapshot and log  *)
(* hold at each place of a mutator.                                        *)
(***************************************************************************)
EXTENDS SharedDB, VectorTablesProofs

Adding   == {"map", "add", "revive"}
Removing == {"unmap", "bury"}
Reading  == {"read", "scan", "tombstones"}
Saved    == {"publish", "truncate"}

BodyLabels == {"enter"} \cup Adding \cup Removing \cup Reading \cup Saved
Labels     == {"idle", "called", "done"} \cup BodyLabels

Inside(th) == pc[th] \in BodyLabels

\* What kind of call has which labels.
LabelOK(p, c) ==
  /\ p # "idle" => c \in Calls
  /\ p \in Adding => c.op = "insert"
  /\ p \in Removing => c.op = "remove"
  /\ p = "read" => c.op = "get"
  /\ p = "scan" => c.op = "search"
  /\ p = "tombstones" => c.op \in {"save", "checkpoint"}
  /\ p \in Saved => c.op = "checkpoint"

Shape ==
  /\ pc \in [Threads -> Labels]
  /\ call = [t \in Threads |-> call[t]]
  /\ local = [t \in Threads |-> local[t]]
  /\ \A t \in Threads : LabelOK(pc[t], call[t])

LockInv ==
  /\ owner \in Threads \cup {NoThread}
  /\ readers \subseteq Threads
  /\ owner # NoThread => readers = {}
  /\ \A t \in Threads :
       /\ owner = t <=> Inside(t) /\ Side(call[t]) = "exclusive"
       /\ t \in readers <=> Inside(t) /\ Side(call[t]) = "shared"

\* The tables in memory while a batch is added, rows 1 .. r - 1 being done.
Half(p, s, rows, r) ==
  LET before == AddBatch(s, SubSeq(rows, 1, r - 1))
      mapped == [before EXCEPT !.rowOf[rows[r].id] = Len(s.rows) + r]
  IN  CASE p = "map"    -> before
        [] p = "add"    -> mapped
        [] p = "revive" -> [mapped EXCEPT !.rows = Append(@, rows[r])]

ThreadOK(p, c, l, m, s, isClosed) ==
  /\ p \in Adding =>
       /\ l = [start |-> Len(s.rows), row |-> l.row]
       /\ l.row \in 1 .. Len(c.rows)
       /\ ~isClosed /\ UniqueIds(c.rows)
       /\ \A id \in RowIds(c.rows) : ~IsLive(s, id)
       /\ m = Half(p, s, c.rows, l.row)
  /\ p \in Removing =>
       /\ ~isClosed /\ IsLive(s, c.id)
       /\ m = IF p = "unmap" THEN s ELSE [s EXCEPT !.rowOf[c.id] = 0]
  /\ p = "read" => l = s.rowOf[c.id] /\ l # 0
  /\ p = "scan" =>
       /\ l.row \in 1 .. Len(s.rows) + 1
       /\ l.hits = {row \in {s.rows[i] : i \in 1 .. l.row - 1} :
                      row.id \notin s.deleted}
  /\ p = "tombstones" => l = s.rows

DataInv ==
  /\ settled \in Tables /\ TablesConsistent(settled)
  /\ (\A t \in Threads : pc[t] \notin Adding \cup Removing) => mem = settled
  /\ \A t \in Threads :
       ThreadOK(pc[t], call[t], local[t], mem, settled, closed)

IInv == Shape /\ LockInv /\ DataInv

-----------------------------------------------------------------------------
(* Steps, by what they do to the places of the threads and to the lock.    *)

Others(th) ==
  \A u \in Threads \ {th} :
    pc'[u] = pc[u] /\ call'[u] = call[u] /\ local'[u] = local[u]

Stays(th) ==
  /\ Inside(th)
  /\ pc'[th] \in BodyLabels
  /\ UNCHANGED <<call, owner, readers>>

Leaves(th) ==
  /\ Inside(th)
  /\ pc'[th] = "done"
  /\ owner' = IF owner = th THEN NoThread ELSE owner
  /\ readers' = readers \ {th}
  /\ UNCHANGED call

LEMMA GoToMoves ==
  ASSUME Shape, NEW th \in Threads, NEW label, NEW values, GoTo(th, label, values)
  PROVE  /\ Others(th) /\ pc'[th] = label /\ local'[th] = values
         /\ UNCHANGED <<call, owner, readers, result>>
         /\ local' = [t \in Threads |-> local'[t]]
         /\ label \in Labels => pc' \in [Threads -> Labels]
BY DEF Shape, GoTo, Others

LEMMA LeaveMoves ==
  ASSUME Shape, NEW th \in Threads, NEW answer, Leave(th, answer), Inside(th)
  PROVE  /\ Others(th) /\ Leaves(th)
         /\ local' = [t \in Threads |-> local'[t]]
         /\ pc' \in [Threads -> Labels]
         /\ result' = [result EXCEPT ![th] = answer]
BY DEF Shape, Leave, Others, Leaves, Labels

LEMMA ShapeKept ==
  ASSUME Shape, NEW th \in Threads, Others(th),
         pc' \in [Threads -> Labels],
         local' = [t \in Threads |-> local'[t]],
         UNCHANGED call,
         LabelOK(pc'[th], call[th])
  PROVE  Shape'
<1>1. ASSUME NEW u \in Threads
      PROVE  LabelOK(pc'[u], call'[u])
  <2>1. CASE u = th
    BY <2>1
  <2>2. CASE u # th
    BY <2>2 DEF Shape, Others
  <2> QED  BY <2>1, <2>2
<1> QED  BY <1>1 DEF Shape

LEMMA StaysLock ==
  ASSUME Shape, LockInv, NEW th \in Threads, Others(th), Stays(th)
  PROVE  LockInv'
BY DEF LockInv, Others, Stays, Inside

LEMMA LeavesLock ==
  ASSUME Shape, LockInv, NEW th \in Threads, Others(th), Leaves(th)
  PROVE  LockInv'
<1>1. owner' \in Threads \cup {NoThread} /\ readers' \subseteq Threads
      /\ (owner' # NoThread => readers' = {})
  BY DEF LockInv, Leaves
<1>2. ASSUME NEW u \in Threads, u # th
      PROVE  /\ owner' = u <=> owner = u
             /\ u \in readers' <=> u \in readers
             /\ pc'[u] = pc[u] /\ call'[u] = call[u]
  BY <1>2, NoThreadAssumption DEF Leaves, Others
<1>3. owner' # th /\ th \notin readers' /\ pc'[th] \notin BodyLabels
  BY NoThreadAssumption DEF Leaves, BodyLabels, Adding, Removing, Reading, Saved
<1>4. ASSUME NEW u \in Threads
      PROVE  /\ owner' = u <=> Inside(u)' /\ Side(call'[u]) = "exclusive"
             /\ u \in readers' <=> Inside(u)' /\ Side(call'[u]) = "shared"
  <2>1. CASE u = th
    BY <2>1, <1>3 DEF Inside
  <2>2. CASE u # th
    BY <2>2, <1>2 DEF Inside, LockInv
  <2> QED  BY <2>1, <2>2
<1> QED  BY <1>1, <1>4 DEF LockInv

LEMMA LockLock ==
  ASSUME Shape, LockInv, NEW th \in Threads, Lock(th)
  PROVE  LockInv'
<1>1. pc[th] = "called" /\ pc'[th] = "enter" /\ UNCHANGED call
      /\ \A u \in Threads \ {th} : pc'[u] = pc[u]
  BY DEF Lock, Shape
<1>2. ~Inside(th) /\ Inside(th)' /\ owner # th /\ th \notin readers
  BY <1>1 DEF Inside, BodyLabels, Adding, Removing, Reading, Saved, LockInv
<1>3. CASE Side(call[th]) = "exclusive"
  <2>1. owner = NoThread /\ readers = {} /\ owner' = th /\ readers' = {}
    BY <1>3 DEF Lock
  <2> QED  BY <2>1, <1>1, <1>2, <1>3, NoThreadAssumption DEF LockInv, Inside
<1>4. CASE Side(call[th]) = "shared"
  <2>1. owner = NoThread /\ readers' = readers \cup {th} /\ owner' = owner
    BY <1>4 DEF Lock
  <2> QED  BY <2>1, <1>1, <1>2, <1>4, NoThreadAssumption DEF LockInv, Inside
<1>5. CASE Side(call[th]) \notin {"exclusive", "shared"}
  <2>1. UNCHANGED <<owner, readers>>
    BY <1>5 DEF Lock
  <2> QED  BY <2>1, <1>1, <1>2, <1>5 DEF LockInv, Inside
<1> QED  BY <1>3, <1>4, <1>5

-----------------------------------------------------------------------------
(* What the lock excludes.                                                 *)

Holds(th) == Inside(th) /\ Side(call[th]) \in {"exclusive", "shared"}

\* Only wal_sync() runs without the lock, and it has no place but its start.
LEMMA BusyHolds ==
  ASSUME Shape, NEW th \in Threads,
         pc[th] \in Adding \cup Removing \cup Reading \cup Saved
  PROVE  Holds(th)
<1>1. Inside(th)
  BY DEF Inside, BodyLabels
<1>2. call[th].op \in {"insert", "remove", "get", "search", "save", "checkpoint"}
  BY DEF Shape, LabelOK, Reading
<1> QED  BY <1>1, <1>2 DEF Holds, Side, Mutators

LEMMA WritersExclude ==
  ASSUME Shape, NEW th \in Threads, pc[th] \in Adding \cup Removing
  PROVE  Inside(th) /\ Side(call[th]) = "exclusive"
<1>1. Inside(th)
  BY DEF Inside, BodyLabels
<1>2. call[th].op \in {"insert", "remove"}
  BY DEF Shape, LabelOK
<1> QED  BY <1>1, <1>2 DEF Side, Mutators

\* While a thread has the exclusive side, no other one is past its entry.
LEMMA Solo ==
  ASSUME Shape, LockInv, NEW th \in Threads,
         Inside(th), Side(call[th]) = "exclusive",
         NEW u \in Threads \ {th}
  PROVE  pc[u] \notin Adding \cup Removing \cup Reading \cup Saved
<1>1. owner = th /\ readers = {}
  BY NoThreadAssumption DEF LockInv
<1>2. ~Holds(u)
  BY <1>1 DEF LockInv, Holds
<1> QED  BY <1>2, BusyHolds

\* A thread that holds the lock and is not writing sees the settled tables.
LEMMA SeesSettled ==
  ASSUME Shape, LockInv, DataInv, NEW th \in Threads,
         Holds(th), pc[th] \notin Adding \cup Removing
  PROVE  mem = settled
<1> SUFFICES ASSUME NEW u \in Threads, pc[u] \in Adding \cup Removing
             PROVE  FALSE
  BY DEF DataInv
<1>1. owner = u /\ readers = {}
  BY WritersExclude, NoThreadAssumption DEF LockInv
<1>2. th # u
  OBVIOUS
<1> QED  BY <1>1, <1>2 DEF LockInv, Holds

-----------------------------------------------------------------------------
(* How DataInv survives a step of one thread.                              *)

\* A step that leaves the tables alone.
LEMMA DataKept ==
  ASSUME DataInv, NEW th \in Threads, Others(th),
         UNCHANGED <<mem, settled, closed>>,
         pc'[th] \notin Adding \cup Removing => pc[th] \notin Adding \cup Removing,
         ThreadOK(pc'[th], call'[th], local'[th], mem, settled, closed)
  PROVE  DataInv'
<1>1. ASSUME NEW u \in Threads
      PROVE  ThreadOK(pc'[u], call'[u], local'[u], mem', settled', closed')
  <2>1. CASE u = th
    BY <2>1
  <2>2. CASE u # th
    BY <2>2 DEF Others, DataInv
  <2> QED  BY <2>1, <2>2
<1>2. ASSUME \A u \in Threads : pc'[u] \notin Adding \cup Removing
      PROVE  mem' = settled'
  BY <1>2 DEF Others, DataInv
<1> QED  BY <1>1, <1>2 DEF DataInv

\* A step of a thread that is alone with the tables.
LEMMA DataAlone ==
  ASSUME Shape, LockInv, NEW th \in Threads, Others(th),
         Inside(th), Side(call[th]) = "exclusive",
         settled' \in Tables, TablesConsistent(settled'),
         pc'[th] \notin Adding \cup Removing => mem' = settled',
         ThreadOK(pc'[th], call'[th], local'[th], mem', settled', closed')
  PROVE  DataInv'
<1>1. ASSUME NEW u \in Threads
      PROVE  ThreadOK(pc'[u], call'[u], local'[u], mem', settled', closed')
  <2>1. CASE u = th
    BY <2>1
  <2>2. CASE u # th
    <3>1. pc'[u] \notin Adding \cup Removing \cup Reading
      BY <2>2, Solo DEF Others
    <3> QED  BY <3>1 DEF ThreadOK, Reading
  <2> QED  BY <2>1, <2>2
<1>2. TablesConsistent(settled)'
  OBVIOUS
<1> QED  BY <1>1, <1>2 DEF DataInv

\* A place at which nothing is claimed.
LEMMA NoClaim ==
  ASSUME NEW p, p \notin Adding \cup Removing \cup Reading,
         NEW c, NEW l, NEW m, NEW s, NEW isClosed
  PROVE  ThreadOK(p, c, l, m, s, isClosed)
BY DEF ThreadOK, Reading

-----------------------------------------------------------------------------
(* Steps as AtomicDB sees them.                                            *)

LEMMA StayIsStutter ==
  ASSUME Shape, NEW th \in Threads, Others(th), Stays(th),
         pc' \in [Threads -> Labels],
         UNCHANGED <<settled, closed, settings, result>>
  PROVE  UNCHANGED Atomic!vars
<1>1. ASSUME NEW u \in Threads
      PROVE  (IF pc'[u] \in {"idle", "done"} THEN pc'[u] ELSE "called")
             = (IF pc[u] \in {"idle", "done"} THEN pc[u] ELSE "called")
  <2>1. CASE u = th
    BY <2>1 DEF Stays, Inside, BodyLabels, Adding, Removing, Reading, Saved
  <2>2. CASE u # th
    BY <2>2 DEF Others
  <2> QED  BY <2>1, <2>2
<1>2. AtomicAt' = AtomicAt
  BY <1>1 DEF AtomicAt
<1>3. UNCHANGED call
  BY DEF Stays
<1> QED  BY <1>2, <1>3 DEF Atomic!vars

LEMMA LeaveIsEffect ==
  ASSUME Shape, NEW th \in Threads, Others(th), Leaves(th),
         Atomic!Mutate(th) \/ Atomic!Look(th)
  PROVE  Atomic!Next
<1>1. AtomicAt[th] = "called"
  BY DEF AtomicAt, Leaves, Inside, BodyLabels, Adding, Removing, Reading, Saved
<1>2. ASSUME NEW u \in Threads
      PROVE  (IF pc'[u] \in {"idle", "done"} THEN pc'[u] ELSE "called")
             = [AtomicAt EXCEPT ![th] = "done"][u]
  <2>1. CASE u = th
    BY <2>1 DEF Leaves, AtomicAt
  <2>2. CASE u # th
    BY <2>2 DEF Others, AtomicAt
  <2> QED  BY <2>1, <2>2
<1>3. AtomicAt' = [AtomicAt EXCEPT ![th] = "done"]
  BY <1>2 DEF AtomicAt
<1>4. UNCHANGED call
  BY DEF Leaves
<1>5. Atomic!TakeEffect(th)
  BY <1>1, <1>3, <1>4 DEF Atomic!TakeEffect
<1> QED  BY <1>5 DEF Atomic!Next

\* On to the next statement.
LEMMA StayStep ==
  ASSUME IInv, NEW th \in Threads, Inside(th),
         NEW label \in BodyLabels, NEW values, GoTo(th, label, values),
         LabelOK(label, call[th]),
         UNCHANGED <<settled, closed, settings>>,
         DataInv'
  PROVE  IInv' /\ UNCHANGED Atomic!vars
<1>1. Shape /\ LockInv
  BY DEF IInv
<1>2. label \in Labels
  BY DEF Labels
<1>3. /\ Others(th) /\ pc'[th] = label
      /\ UNCHANGED <<call, owner, readers, result>>
      /\ local' = [t \in Threads |-> local'[t]]
      /\ pc' \in [Threads -> Labels]
  BY <1>1, <1>2, GoToMoves
<1>4. Stays(th)
  BY <1>3 DEF Stays
<1>5. Shape'
  BY <1>1, <1>3, ShapeKept
<1>6. LockInv'
  BY <1>1, <1>3, <1>4, StaysLock
<1>7. UNCHANGED Atomic!vars
  BY <1>1, <1>3, <1>4, StayIsStutter
<1> QED  BY <1>5, <1>6, <1>7 DEF IInv

\* A return statement.
LEMMA LeaveStep ==
  ASSUME IInv, NEW th \in Threads, Inside(th),
         NEW answer, Leave(th, answer),
         DataInv',
         Atomic!Mutate(th) \/ Atomic!Look(th)
  PROVE  IInv' /\ Atomic!Next
<1>1. Shape /\ LockInv
  BY DEF IInv
<1>2. /\ Others(th) /\ Leaves(th)
      /\ local' = [t \in Threads |-> local'[t]]
      /\ pc' \in [Threads -> Labels]
  BY <1>1, LeaveMoves
<1>3. LabelOK(pc'[th], call[th])
  <2>1. call[th] \in Calls
    BY <1>1 DEF Shape, LabelOK, Inside, BodyLabels, Adding, Removing, Reading, Saved
  <2>2. pc'[th] = "done"
    BY <1>2 DEF Leaves
  <2> QED  BY <2>1, <2>2 DEF LabelOK, Adding, Removing, Saved
<1>4. Shape'
  <2>1. UNCHANGED call
    BY <1>2 DEF Leaves
  <2> QED  BY <2>1, <1>1, <1>2, <1>3, ShapeKept
<1>5. LockInv'
  BY <1>1, <1>2, LeavesLock
<1>6. Atomic!Next
  BY <1>1, <1>2, LeaveIsEffect
<1> QED  BY <1>4, <1>5, <1>6 DEF IInv

\* A step of either kind that leaves the tables alone.
LEMMA StayData ==
  ASSUME IInv, NEW th \in Threads, Inside(th), pc[th] \notin Adding \cup Removing,
         NEW label \in BodyLabels, NEW values, GoTo(th, label, values),
         UNCHANGED <<mem, settled, closed>>,
         ThreadOK(label, call[th], values, mem, settled, closed)
  PROVE  DataInv'
<1>1. /\ Others(th) /\ pc'[th] = label /\ local'[th] = values /\ UNCHANGED call
  BY GoToMoves DEF IInv
<1> QED  BY <1>1, DataKept DEF IInv

LEMMA LeaveData ==
  ASSUME IInv, NEW th \in Threads, Inside(th), pc[th] \notin Adding \cup Removing,
         NEW answer, Leave(th, answer),
         UNCHANGED <<mem, settled, closed>>
  PROVE  DataInv'
<1>1. Others(th) /\ Leaves(th)
  BY LeaveMoves DEF IInv
<1>2. pc'[th] \notin Adding \cup Removing \cup Reading
  BY <1>1 DEF Leaves, Adding, Removing, Reading
<1>3. ThreadOK(pc'[th], call'[th], local'[th], mem, settled, closed)
  BY <1>2, NoClaim
<1> QED  BY <1>1, <1>3, DataKept DEF IInv

-----------------------------------------------------------------------------
(* One lemma for each action.                                              *)

LEMMA InvokeStep ==
  ASSUME IInv, NEW th \in Threads, Invoke(th)
  PROVE  IInv' /\ Atomic!Next
<1>1. Shape /\ LockInv /\ DataInv
  BY DEF IInv
<1>2. PICK c \in Calls : call' = [call EXCEPT ![th] = c]
  BY DEF Invoke
<1>3. /\ pc[th] = "idle" /\ pc'[th] = "called" /\ call'[th] = c
      /\ pc' = [pc EXCEPT ![th] = "called"]
      /\ UNCHANGED <<object, owner, readers, local, result, settled>>
      /\ Others(th)
  BY <1>1, <1>2 DEF Invoke, Shape, Others
<1>4. Shape'
  <2>1. \A u \in Threads : LabelOK(pc'[u], call'[u])
    BY <1>1, <1>3 DEF Shape, Others, LabelOK, Adding, Removing, Saved
  <2>2. "called" \in Labels
    BY DEF Labels
  <2> QED  BY <2>1, <2>2, <1>1, <1>2, <1>3 DEF Shape
<1>5. LockInv'
  <2>1. ~Inside(th) /\ ~Inside(th)'
    BY <1>3 DEF Inside, BodyLabels, Adding, Removing, Reading, Saved
  <2> QED  BY <2>1, <1>1, <1>3 DEF LockInv, Others, Inside
<1>6. DataInv'
  <2>1. UNCHANGED <<mem, settled, closed>>
    BY <1>3 DEF object
  <2>2. pc[th] \notin Adding \cup Removing
        /\ pc'[th] \notin Adding \cup Removing \cup Reading
    BY <1>3 DEF Adding, Removing, Reading
  <2>3. ThreadOK(pc'[th], call'[th], local'[th], mem, settled, closed)
    BY <2>2, NoClaim
  <2> QED  BY <2>1, <2>2, <2>3, <1>1, <1>3, DataKept
<1>7. Atomic!Invoke(th)
  <2>1. AtomicAt[th] = "idle"
    BY <1>3 DEF AtomicAt
  <2>2. ASSUME NEW u \in Threads
        PROVE  (IF pc'[u] \in {"idle", "done"} THEN pc'[u] ELSE "called")
               = [AtomicAt EXCEPT ![th] = "called"][u]
    <3>1. CASE u = th
      BY <3>1, <1>3 DEF AtomicAt
    <3>2. CASE u # th
      BY <3>2, <1>3 DEF Others, AtomicAt
    <3> QED  BY <3>1, <3>2
  <2>3. AtomicAt' = [AtomicAt EXCEPT ![th] = "called"]
    BY <2>2 DEF AtomicAt
  <2>4. UNCHANGED <<settled, closed, settings, result>>
    BY <1>3 DEF object
  <2> QED  BY <2>1, <2>3, <2>4, <1>2 DEF Atomic!Invoke
<1> QED  BY <1>4, <1>5, <1>6, <1>7 DEF IInv, Atomic!Next

LEMMA LockStep ==
  ASSUME IInv, NEW th \in Threads, Lock(th)
  PROVE  IInv' /\ UNCHANGED Atomic!vars
<1>1. Shape /\ LockInv /\ DataInv
  BY DEF IInv
<1>2. /\ pc[th] = "called" /\ pc'[th] = "enter"
      /\ pc' = [pc EXCEPT ![th] = "enter"]
      /\ UNCHANGED <<object, call, local, result, settled>>
      /\ Others(th)
  BY <1>1 DEF Lock, Shape, Others
<1>3. Shape'
  <2>1. \A u \in Threads : LabelOK(pc'[u], call'[u])
    BY <1>1, <1>2 DEF Shape, Others, LabelOK, Adding, Removing, Saved
  <2>2. "enter" \in Labels
    BY DEF Labels, BodyLabels
  <2> QED  BY <2>1, <2>2, <1>1, <1>2 DEF Shape
<1>4. LockInv'
  BY <1>1, LockLock
<1>5. DataInv'
  <2>1. UNCHANGED <<mem, settled, closed>>
    BY <1>2 DEF object
  <2>2. pc[th] \notin Adding \cup Removing
        /\ pc'[th] \notin Adding \cup Removing \cup Reading
    BY <1>2 DEF Adding, Removing, Reading
  <2>3. ThreadOK(pc'[th], call'[th], local'[th], mem, settled, closed)
    BY <2>2, NoClaim
  <2> QED  BY <2>1, <2>2, <2>3, <1>1, <1>2, DataKept
<1>6. AtomicAt' = AtomicAt
  <2>1. ASSUME NEW u \in Threads
        PROVE  (IF pc'[u] \in {"idle", "done"} THEN pc'[u] ELSE "called")
               = (IF pc[u] \in {"idle", "done"} THEN pc[u] ELSE "called")
    <3>1. CASE u = th
      BY <3>1, <1>2
    <3>2. CASE u # th
      BY <3>2, <1>2 DEF Others
    <3> QED  BY <3>1, <3>2
  <2> QED  BY <2>1 DEF AtomicAt
<1> QED  BY <1>2, <1>3, <1>4, <1>5, <1>6 DEF IInv, Atomic!vars, object

LEMMA ReturnStep ==
  ASSUME IInv, NEW th \in Threads, Return(th)
  PROVE  IInv' /\ Atomic!Next
<1>1. Shape /\ LockInv /\ DataInv
  BY DEF IInv
<1>2. /\ pc[th] = "done" /\ pc'[th] = "idle"
      /\ pc' = [pc EXCEPT ![th] = "idle"]
      /\ UNCHANGED <<object, owner, readers, call, local, result, settled>>
      /\ Others(th)
  BY <1>1 DEF Return, Shape, Others
<1>3. Shape'
  <2>1. \A u \in Threads : LabelOK(pc'[u], call'[u])
    BY <1>1, <1>2 DEF Shape, Others, LabelOK, Adding, Removing, Saved
  <2>2. "idle" \in Labels
    BY DEF Labels
  <2> QED  BY <2>1, <2>2, <1>1, <1>2 DEF Shape
<1>4. LockInv'
  <2>1. ~Inside(th) /\ ~Inside(th)'
    BY <1>2 DEF Inside, BodyLabels, Adding, Removing, Reading, Saved
  <2> QED  BY <2>1, <1>1, <1>2 DEF LockInv, Others, Inside
<1>5. DataInv'
  <2>1. UNCHANGED <<mem, settled, closed>>
    BY <1>2 DEF object
  <2>2. pc[th] \notin Adding \cup Removing
        /\ pc'[th] \notin Adding \cup Removing \cup Reading
    BY <1>2 DEF Adding, Removing, Reading
  <2>3. ThreadOK(pc'[th], call'[th], local'[th], mem, settled, closed)
    BY <2>2, NoClaim
  <2> QED  BY <2>1, <2>2, <2>3, <1>1, <1>2, DataKept
<1>6. Atomic!Return(th)
  <2>1. AtomicAt[th] = "done"
    BY <1>2 DEF AtomicAt
  <2>2. ASSUME NEW u \in Threads
        PROVE  (IF pc'[u] \in {"idle", "done"} THEN pc'[u] ELSE "called")
               = [AtomicAt EXCEPT ![th] = "idle"][u]
    <3>1. CASE u = th
      BY <3>1, <1>2 DEF AtomicAt
    <3>2. CASE u # th
      BY <3>2, <1>2 DEF Others, AtomicAt
    <3> QED  BY <3>1, <3>2
  <2>3. AtomicAt' = [AtomicAt EXCEPT ![th] = "idle"]
    BY <2>2 DEF AtomicAt
  <2> QED  BY <2>1, <2>3, <1>2 DEF Atomic!Return, object
<1> QED  BY <1>3, <1>4, <1>5, <1>6 DEF IInv, Atomic!Next

\* At its entry a method holds its side of the lock, and what it asks of.
LEMMA AtEntry ==
  ASSUME IInv, NEW th \in Threads, pc[th] = "enter",
         Side(call[th]) \in {"exclusive", "shared"}
  PROVE  /\ Inside(th) /\ pc[th] \notin Adding \cup Removing
         /\ mem = settled /\ call[th] \in Calls
<1>1. Inside(th)
  BY DEF Inside, BodyLabels
<1>2. pc[th] \notin Adding \cup Removing
  BY DEF Adding, Removing
<1>3. mem = settled
  BY <1>1, <1>2, SeesSettled DEF IInv, Holds
<1>4. call[th] \in Calls
  BY DEF IInv, Shape, LabelOK
<1> QED  BY <1>1, <1>2, <1>3, <1>4

LEMMA InsertStep ==
  ASSUME IInv, NEW th \in Threads, Insert(th)
  PROVE  IInv' /\ (Atomic!Next \/ UNCHANGED Atomic!vars)
<1> DEFINE c       == call[th]
           rows    == c.rows
           refused == closed \/ ~UniqueIds(rows)
                      \/ \E id \in RowIds(rows) : IsLive(mem, id)
<1>1. pc[th] = "enter" /\ c.op = "insert"
      /\ UNCHANGED <<mem, snapshot, closed, settings, settled>>
  BY DEF Insert, At
<1>2. Inside(th) /\ pc[th] \notin Adding \cup Removing
      /\ mem = settled /\ c \in Calls
  BY <1>1, AtEntry DEF Side, Mutators
<1>3. settled \in Tables /\ rows \in Seq(Row) /\ rows # <<>>
  BY <1>1, <1>2, RequestsAssumption DEF IInv, DataInv
<1>4. CASE refused /\ Leave(th, IF closed THEN "io_error" ELSE "duplicate")
  <2> DEFINE answer == IF closed THEN "io_error" ELSE "duplicate"
  <2>1. DataInv'
    BY <1>1, <1>2, <1>4, LeaveData
  <2>2. Atomic!Verdict(settled, closed, c) = answer
    BY <1>1, <1>2, <1>4
    DEF Atomic!Verdict, Atomic!UniqueIds, Atomic!RowIds, Atomic!IsLive,
        UniqueIds, RowIds, IsLive
  <2>3. result' = [result EXCEPT ![th] = answer]
    BY <1>4 DEF Leave
  <2>4. Atomic!Mutate(th)
    BY <2>2, <2>3, <1>1 DEF Atomic!Mutate
  <2> QED  BY <2>1, <2>4, <1>2, <1>4, LeaveStep
<1>5. CASE ~refused /\ GoTo(th, "map", [start |-> Len(mem.rows), row |-> 1])
  <2> DEFINE l == [start |-> Len(mem.rows), row |-> 1]
  <2>1. 1 \in 1 .. Len(rows) /\ Len(settled.rows) \in Nat
    BY <1>3, LenProperties, EmptySeq DEF Tables
  <2>2. Half("map", settled, rows, 1) = settled
    <3>1. SubSeq(rows, 1, 1 - 1) = <<>>
      BY SubSeqEmpty
    <3>2. Half("map", settled, rows, 1) = AddBatch(settled, SubSeq(rows, 1, 1 - 1))
      BY DEF Half
    <3> QED  BY <3>1, <3>2, <1>3, AddBatchNone
  <2>3. ThreadOK("map", c, l, mem, settled, closed)
    BY <2>1, <2>2, <1>2, <1>5 DEF ThreadOK, Adding, Removing
  <2>4. "map" \in BodyLabels /\ LabelOK("map", c)
    BY <1>1, <1>2 DEF BodyLabels, Adding, Removing, Saved, LabelOK
  <2>5. DataInv'
    BY <2>3, <2>4, <1>1, <1>2, <1>5, StayData
  <2> QED  BY <2>4, <2>5, <1>1, <1>2, <1>5, StayStep
<1> QED  BY <1>4, <1>5 DEF Insert

LEMMA RemoveStep ==
  ASSUME IInv, NEW th \in Threads, Remove(th)
  PROVE  IInv' /\ (Atomic!Next \/ UNCHANGED Atomic!vars)
<1> DEFINE c == call[th]
<1>1. pc[th] = "enter" /\ c.op = "remove"
      /\ UNCHANGED <<mem, snapshot, closed, settings, settled>>
  BY DEF Remove, At
<1>2. Inside(th) /\ pc[th] \notin Adding \cup Removing
      /\ mem = settled /\ c \in Calls
  BY <1>1, AtEntry DEF Side, Mutators
<1>3. CASE (closed \/ ~IsLive(mem, c.id))
           /\ Leave(th, IF closed THEN "io_error" ELSE "not_found")
  <2> DEFINE answer == IF closed THEN "io_error" ELSE "not_found"
  <2>1. DataInv'
    BY <1>1, <1>2, <1>3, LeaveData
  <2>2. Atomic!Verdict(settled, closed, c) = answer
    BY <1>1, <1>2, <1>3 DEF Atomic!Verdict, Atomic!IsLive, IsLive
  <2>3. result' = [result EXCEPT ![th] = answer]
    BY <1>3 DEF Leave
  <2>4. Atomic!Mutate(th)
    BY <2>2, <2>3, <1>1 DEF Atomic!Mutate
  <2> QED  BY <2>1, <2>4, <1>2, <1>3, LeaveStep
<1>4. CASE ~closed /\ IsLive(mem, c.id) /\ GoTo(th, "unmap", None)
  <2>1. ThreadOK("unmap", c, None, mem, settled, closed)
    BY <1>2, <1>4 DEF ThreadOK, Adding, Removing
  <2>2. "unmap" \in BodyLabels /\ LabelOK("unmap", c)
    BY <1>1, <1>2 DEF BodyLabels, Adding, Removing, Saved, LabelOK
  <2>3. DataInv'
    BY <2>1, <2>2, <1>1, <1>2, <1>4, StayData
  <2> QED  BY <2>2, <2>3, <1>1, <1>2, <1>4, StayStep
<1> QED  BY <1>3, <1>4 DEF Remove

\* What a thread knows while it adds a batch.
LEMMA AddingFacts ==
  ASSUME IInv, NEW th \in Threads, pc[th] \in Adding
  PROVE  LET c == call[th]
             l == local[th]
         IN  /\ Inside(th) /\ Side(c) = "exclusive"
             /\ c \in Calls /\ c.op = "insert"
             /\ settled \in Tables /\ TablesConsistent(settled)
             /\ c.rows \in Seq(Row) /\ UniqueIds(c.rows)
             /\ Len(c.rows) \in Nat /\ l.row \in 1 .. Len(c.rows)
             /\ l = [start |-> Len(settled.rows), row |-> l.row]
             /\ ~closed
             /\ \A id \in RowIds(c.rows) : ~IsLive(settled, id)
             /\ mem = Half(pc[th], settled, c.rows, l.row)
<1>1. Inside(th) /\ Side(call[th]) = "exclusive"
  BY WritersExclude DEF IInv
<1>2. call[th] \in Calls /\ call[th].op = "insert"
  BY DEF IInv, Shape, LabelOK, Adding
<1>3. call[th].rows \in Seq(Row) /\ Len(call[th].rows) \in Nat
  BY <1>2, RequestsAssumption, LenProperties
<1>4. ThreadOK(pc[th], call[th], local[th], mem, settled, closed)
      /\ settled \in Tables /\ TablesConsistent(settled)
  BY DEF IInv, DataInv
<1> QED  BY <1>1, <1>2, <1>3, <1>4 DEF ThreadOK

\* A step inside a batch that keeps what its thread knows.
LEMMA AddingStay ==
  ASSUME IInv, NEW th \in Threads, pc[th] \in Adding,
         NEW label \in Adding, NEW r \in 1 .. Len(call[th].rows),
         GoTo(th, label, [start |-> Len(settled.rows), row |-> r]),
         mem' = Half(label, settled, call[th].rows, r),
         UNCHANGED <<closed, settings, settled>>
  PROVE  IInv' /\ UNCHANGED Atomic!vars
<1> DEFINE l == [start |-> Len(settled.rows), row |-> r]
<1>1. /\ Inside(th) /\ Side(call[th]) = "exclusive"
      /\ call[th] \in Calls /\ call[th].op = "insert"
      /\ settled \in Tables /\ TablesConsistent(settled)
      /\ UniqueIds(call[th].rows) /\ ~closed
      /\ \A id \in RowIds(call[th].rows) : ~IsLive(settled, id)
  BY AddingFacts
<1>2. Others(th) /\ pc'[th] = label /\ local'[th] = l /\ UNCHANGED call
  BY GoToMoves DEF IInv
<1>3. ThreadOK(label, call[th], l, mem', settled, closed)
  BY <1>1 DEF ThreadOK, Adding, Removing
<1>4. DataInv'
  BY <1>1, <1>2, <1>3, DataAlone DEF IInv
<1>5. label \in BodyLabels /\ LabelOK(label, call[th])
  BY <1>1 DEF BodyLabels, LabelOK, Adding, Removing, Saved
<1> QED  BY <1>1, <1>4, <1>5, StayStep

LEMMA MapIdStep ==
  ASSUME IInv, NEW th \in Threads, MapId(th)
  PROVE  IInv' /\ UNCHANGED Atomic!vars
<1> DEFINE c == call[th]
           l == local[th]
<1>1. pc[th] = "map" /\ pc[th] \in Adding /\ "add" \in Adding
  BY DEF MapId, Adding
<1>2. l.row \in 1 .. Len(c.rows)
      /\ l = [start |-> Len(settled.rows), row |-> l.row]
      /\ mem = Half("map", settled, c.rows, l.row)
  BY <1>1, AddingFacts
<1>3. l.start = Len(settled.rows)
  BY <1>2
<1>4. /\ mem' = [mem EXCEPT !.rowOf[c.rows[l.row].id] = l.start + l.row]
      /\ GoTo(th, "add", l)
      /\ UNCHANGED <<closed, settings, settled>>
  BY DEF MapId
<1>5. mem' = Half("add", settled, c.rows, l.row)
  BY <1>2, <1>3, <1>4 DEF Half
<1>6. GoTo(th, "add", [start |-> Len(settled.rows), row |-> l.row])
  BY <1>2, <1>4
<1> HIDE DEF l
<1> QED  BY <1>1, <1>2, <1>4, <1>5, <1>6, AddingStay

LEMMA AddVectorStep ==
  ASSUME IInv, NEW th \in Threads, AddVector(th)
  PROVE  IInv' /\ UNCHANGED Atomic!vars
<1> DEFINE c == call[th]
           l == local[th]
<1>1. pc[th] = "add" /\ pc[th] \in Adding /\ "revive" \in Adding
  BY DEF AddVector, Adding
<1>2. l.row \in 1 .. Len(c.rows)
      /\ l = [start |-> Len(settled.rows), row |-> l.row]
      /\ mem = Half("add", settled, c.rows, l.row)
  BY <1>1, AddingFacts
<1>3. /\ mem' = [mem EXCEPT !.rows = Append(@, c.rows[l.row])]
      /\ GoTo(th, "revive", l)
      /\ UNCHANGED <<closed, settings, settled>>
  BY DEF AddVector
<1>4. mem' = Half("revive", settled, c.rows, l.row)
  BY <1>2, <1>3 DEF Half
<1>5. GoTo(th, "revive", [start |-> Len(settled.rows), row |-> l.row])
  BY <1>2, <1>3
<1> HIDE DEF l
<1> QED  BY <1>1, <1>2, <1>3, <1>4, <1>5, AddingStay

\* With its tombstone erased a row is done.
LEMMA ReviveEffect ==
  ASSUME NEW s \in Tables, NEW rows \in Seq(Row), UniqueIds(rows),
         NEW r \in 1 .. Len(rows), NEW m, m = Half("revive", s, rows, r)
  PROVE  [m EXCEPT !.deleted = @ \ {rows[r].id}] = AddBatch(s, SubSeq(rows, 1, r))
<1> DEFINE before == AddBatch(s, SubSeq(rows, 1, r - 1))
<1>1. Len(rows) \in Nat /\ r \in Nat /\ r - 1 \in 0 .. Len(rows)
      /\ rows[r] \in Row /\ s.rows \in Seq(Row)
  BY LenProperties, ElementOfSeq DEF Tables
<1>2. rows[r] = [id |-> rows[r].id, vec |-> rows[r].vec]
  BY <1>1 DEF Row
<1>3. Len(before.rows) + 1 = Len(s.rows) + r
  <2> DEFINE part == SubSeq(rows, 1, r - 1)
  <2>1. before.rows = s.rows \o part
    BY DEF AddBatch
  <2>2. part \in Seq(Row) /\ Len(part) = r - 1
    BY <1>1, PartOfBatch
  <2> HIDE DEF part, before
  <2>3. Len(s.rows \o part) = Len(s.rows) + Len(part) /\ Len(s.rows) \in Nat
    BY <2>2, <1>1, ConcatProperties, LenProperties
  <2> QED  BY <2>1, <2>2, <2>3, <1>1
<1>4. before = [rows |-> before.rows, rowOf |-> before.rowOf,
                deleted |-> before.deleted]
  BY DEF AddBatch
<1>5. m = [[before EXCEPT !.rowOf[rows[r].id] = Len(s.rows) + r]
             EXCEPT !.rows = Append(@, rows[r])]
  BY DEF Half
<1> HIDE DEF before
<1>6. [before EXCEPT !.rowOf[rows[r].id] = Len(s.rows) + r]
      = [rows    |-> before.rows,
         rowOf   |-> [before.rowOf EXCEPT ![rows[r].id] = Len(s.rows) + r],
         deleted |-> before.deleted]
  BY <1>4
<1> DEFINE grown  == Append(before.rows, rows[r])
           mapped == [before.rowOf EXCEPT ![rows[r].id] = Len(s.rows) + r]
<1>7. m = [rows |-> grown, rowOf |-> mapped, deleted |-> before.deleted]
  BY <1>5, <1>6
<1>8. [m EXCEPT !.deleted = @ \ {rows[r].id}]
      = [rows |-> grown, rowOf |-> mapped, deleted |-> before.deleted \ {rows[r].id}]
  <2> DEFINE left == before.deleted \ {rows[r].id}
  <2>1. m.deleted \ {rows[r].id} = left
    BY <1>7
  <2> HIDE DEF grown, mapped, left
  <2>2. [m EXCEPT !.deleted = left] = [rows |-> grown, rowOf |-> mapped, deleted |-> left]
    BY <1>7
  <2> QED  BY <2>1, <2>2 DEF left
<1>9. [m EXCEPT !.deleted = @ \ {rows[r].id}]
      = AddRow(before, rows[r].id, rows[r].vec)
  BY <1>2, <1>3, <1>8 DEF AddRow
<1> QED  BY <1>9, AddBatchOneMore DEF before

\* The last row of a batch settles the whole of it.
LEMMA ReviveLast ==
  ASSUME IInv, NEW th \in Threads, Revive(th),
         ~(local[th].row < Len(call[th].rows)), settled' = mem'
  PROVE  settled' = AddBatch(settled, call[th].rows) /\ call[th].op = "insert"
<1> DEFINE c    == call[th]
           l    == local[th]
           rows == c.rows
<1>1. pc[th] = "revive" /\ pc[th] \in Adding
  BY DEF Revive, Adding
<1>2. /\ c.op = "insert"
      /\ settled \in Tables
      /\ rows \in Seq(Row) /\ UniqueIds(rows)
      /\ Len(rows) \in Nat /\ l.row \in 1 .. Len(rows)
      /\ mem = Half("revive", settled, rows, l.row)
  BY <1>1, AddingFacts
<1>3. mem' = AddBatch(settled, SubSeq(rows, 1, l.row))
  <2>1. mem' = [mem EXCEPT !.deleted = @ \ {rows[l.row].id}]
    BY DEF Revive
  <2> HIDE DEF l, rows
  <2> QED  BY <2>1, <1>2, ReviveEffect
<1>4. l.row = Len(rows)
  BY <1>2
<1>5. SubSeq(rows, 1, l.row) = rows
  BY <1>2, <1>4, SubSeqFull
<1> QED  BY <1>2, <1>3, <1>5

LEMMA ReviveStep ==
  ASSUME IInv, NEW th \in Threads, Revive(th)
  PROVE  IInv' /\ (Atomic!Next \/ UNCHANGED Atomic!vars)
<1> DEFINE c    == call[th]
           l    == local[th]
           rows == c.rows
<1>1. pc[th] = "revive" /\ pc[th] \in Adding /\ "map" \in Adding
  BY DEF Revive, Adding
<1>2. /\ Inside(th) /\ Side(c) = "exclusive"
      /\ c \in Calls /\ c.op = "insert"
      /\ settled \in Tables /\ TablesConsistent(settled)
      /\ rows \in Seq(Row) /\ UniqueIds(rows)
      /\ Len(rows) \in Nat /\ l.row \in 1 .. Len(rows)
      /\ l = [start |-> Len(settled.rows), row |-> l.row]
      /\ ~closed
      /\ \A id \in RowIds(rows) : ~IsLive(settled, id)
      /\ mem = Half("revive", settled, rows, l.row)
  BY <1>1, AddingFacts
<1>3. mem' = AddBatch(settled, SubSeq(rows, 1, l.row))
  <2>1. mem' = [mem EXCEPT !.deleted = @ \ {rows[l.row].id}]
    BY DEF Revive
  <2> HIDE DEF l, rows
  <2> QED  BY <2>1, <1>2, ReviveEffect
<1>4. UNCHANGED <<closed, settings>>
  BY DEF Revive
<1>5. CASE l.row < Len(rows) /\ GoTo(th, "map", [l EXCEPT !.row = @ + 1])
           /\ UNCHANGED settled
  <2>1. l.row + 1 \in 1 .. Len(rows) /\ (l.row + 1) - 1 = l.row
    BY <1>2, <1>5
  <2>2. [l EXCEPT !.row = @ + 1] = [start |-> Len(settled.rows), row |-> l.row + 1]
    BY <1>2
  <2>3. mem' = Half("map", settled, rows, l.row + 1)
    <3>1. Half("map", settled, rows, l.row + 1)
          = AddBatch(settled, SubSeq(rows, 1, (l.row + 1) - 1))
      BY DEF Half
    <3> QED  BY <3>1, <2>1, <1>3
  <2>4. GoTo(th, "map", [start |-> Len(settled.rows), row |-> l.row + 1])
    BY <1>5, <2>2
  <2> QED  BY <2>1, <2>3, <2>4, <1>1, <1>4, <1>5, AddingStay
<1>6. CASE ~(l.row < Len(rows)) /\ Leave(th, "ok") /\ settled' = mem'
  <2>1. SubSeq(rows, 1, l.row) = rows
    <3>1. l.row = Len(rows)
      BY <1>2, <1>6
    <3> QED  BY <3>1, <1>2, SubSeqFull
  <2>2. settled' = AddBatch(settled, rows)
    BY <2>1, <1>3, <1>6
  <2>3. settled' \in Tables /\ TablesConsistent(settled')
    BY <2>2, <1>2, AddBatchType, AddBatchConsistent
  <2>4. Others(th) /\ Leaves(th)
    BY <1>2, <1>6, LeaveMoves DEF IInv
  <2>5. ThreadOK(pc'[th], call'[th], local'[th], mem', settled', closed')
    <3>1. pc'[th] \notin Adding \cup Removing \cup Reading
      BY <2>4 DEF Leaves, Adding, Removing, Reading
    <3> QED  BY <3>1, NoClaim
  <2>6. DataInv'
    BY <2>3, <2>4, <2>5, <1>2, <1>6, DataAlone DEF IInv
  <2>7. Atomic!Verdict(settled, closed, c) = "ok"
    BY <1>2
    DEF Atomic!Verdict, Atomic!UniqueIds, Atomic!RowIds, Atomic!IsLive,
        UniqueIds, RowIds, IsLive
  <2>8. settled' = Atomic!AddBatch(settled, rows)
    BY <2>2 DEF AddBatch, RowIds, PositionIn,
                Atomic!AddBatch, Atomic!RowIds, Atomic!PositionIn
  <2>9. result' = [result EXCEPT ![th] = "ok"]
    BY <1>6 DEF Leave
  <2>10. Atomic!Mutate(th)
    BY <2>7, <2>8, <2>9, <1>2, <1>4 DEF Atomic!Mutate
  <2> QED  BY <2>6, <2>10, <1>2, <1>6, LeaveStep
<1> QED  BY <1>5, <1>6 DEF Revive

LEMMA UnmapStep ==
  ASSUME IInv, NEW th \in Threads, Unmap(th)
  PROVE  IInv' /\ UNCHANGED Atomic!vars
<1> DEFINE c == call[th]
<1>1. pc[th] = "unmap" /\ pc[th] \in Removing
      /\ mem' = [mem EXCEPT !.rowOf[c.id] = 0]
      /\ GoTo(th, "bury", None)
      /\ UNCHANGED <<log, snapshot, closed, settings, settled>>
  BY DEF Unmap, Removing
<1>2. Inside(th) /\ Side(c) = "exclusive"
  BY <1>1, WritersExclude DEF IInv
<1>3. c \in Calls /\ c.op = "remove"
  BY <1>1 DEF IInv, Shape, LabelOK
<1>4. ~closed /\ IsLive(settled, c.id) /\ mem = settled
      /\ settled \in Tables /\ TablesConsistent(settled)
  BY <1>1 DEF IInv, DataInv, ThreadOK
<1>5. Others(th) /\ pc'[th] = "bury" /\ local'[th] = None /\ UNCHANGED call
  BY <1>1, GoToMoves DEF IInv
<1>6. ThreadOK("bury", c, None, mem', settled, closed)
  BY <1>1, <1>4 DEF ThreadOK, Adding, Removing
<1>7. "bury" \in BodyLabels /\ LabelOK("bury", c) /\ "bury" \in Removing
  BY <1>3 DEF BodyLabels, LabelOK, Adding, Removing, Saved
<1>8. DataInv'
  BY <1>1, <1>2, <1>4, <1>5, <1>6, <1>7, DataAlone DEF IInv
<1> QED  BY <1>1, <1>2, <1>7, <1>8, StayStep

LEMMA BuryStep ==
  ASSUME IInv, NEW th \in Threads, Bury(th)
  PROVE  IInv' /\ Atomic!Next
<1> DEFINE c == call[th]
<1>1. pc[th] = "bury" /\ pc[th] \in Removing
      /\ mem' = [mem EXCEPT !.deleted = @ \cup {c.id}]
      /\ settled' = mem'
      /\ Leave(th, "ok")
      /\ UNCHANGED <<log, snapshot, closed, settings>>
  BY DEF Bury, Removing
<1>2. Inside(th) /\ Side(c) = "exclusive"
  BY <1>1, WritersExclude DEF IInv
<1>3. c \in Calls /\ c.op = "remove" /\ c.id \in Ids
  BY <1>1, RequestsAssumption DEF IInv, Shape, LabelOK
<1>4. ~closed /\ IsLive(settled, c.id)
      /\ mem = [settled EXCEPT !.rowOf[c.id] = 0]
      /\ settled \in Tables /\ TablesConsistent(settled)
  BY <1>1 DEF IInv, DataInv, ThreadOK
<1>5. settled' = RemoveRow(settled, c.id)
  BY <1>1, <1>4 DEF RemoveRow, Tables
<1>6. settled' \in Tables /\ TablesConsistent(settled')
  BY <1>3, <1>4, <1>5, RemoveRowType, RemoveRowConsistent
<1>7. Others(th) /\ Leaves(th)
  BY <1>1, <1>2, LeaveMoves DEF IInv
<1>8. ThreadOK(pc'[th], call'[th], local'[th], mem', settled', closed')
  <2>1. pc'[th] \notin Adding \cup Removing \cup Reading
    BY <1>7 DEF Leaves, Adding, Removing, Reading
  <2> QED  BY <2>1, NoClaim
<1>9. DataInv'
  BY <1>1, <1>2, <1>6, <1>7, <1>8, DataAlone DEF IInv
<1>10. Atomic!Verdict(settled, closed, c) = "ok"
  BY <1>3, <1>4 DEF Atomic!Verdict, Atomic!IsLive, IsLive
<1>11. settled' = Atomic!RemoveRow(settled, c.id)
  BY <1>5 DEF RemoveRow, Atomic!RemoveRow
<1>12. result' = [result EXCEPT ![th] = "ok"]
  BY <1>1 DEF Leave
<1>13. Atomic!Mutate(th)
  BY <1>1, <1>3, <1>10, <1>11, <1>12 DEF Atomic!Mutate
<1> QED  BY <1>1, <1>2, <1>9, <1>13, LeaveStep

-----------------------------------------------------------------------------
(* close, the setters and the readers.                                     *)

LEMMA CloseStep ==
  ASSUME IInv, NEW th \in Threads, Close(th)
  PROVE  IInv' /\ Atomic!Next
<1> DEFINE c == call[th]
<1>1. pc[th] = "enter" /\ c.op = "close"
      /\ closed' = TRUE
      /\ Leave(th, "ok")
      /\ UNCHANGED <<mem, log, snapshot, settings, settled>>
  BY DEF Close, At
<1>2. Inside(th) /\ Side(c) = "exclusive" /\ mem = settled
  <2>1. Side(c) = "exclusive"
    BY <1>1 DEF Side, Mutators
  <2> QED  BY <2>1, <1>1, AtEntry
<1>3. Others(th) /\ Leaves(th)
  BY <1>1, <1>2, LeaveMoves DEF IInv
<1>4. ThreadOK(pc'[th], call'[th], local'[th], mem', settled', closed')
  <2>1. pc'[th] \notin Adding \cup Removing \cup Reading
    BY <1>3 DEF Leaves, Adding, Removing, Reading
  <2> QED  BY <2>1, NoClaim
<1>5. settled' \in Tables /\ TablesConsistent(settled') /\ mem' = settled'
  BY <1>1, <1>2 DEF IInv, DataInv
<1>6. DataInv'
  BY <1>2, <1>3, <1>4, <1>5, DataAlone DEF IInv
<1>7. result' = [result EXCEPT ![th] = "ok"]
  BY <1>1 DEF Leave
<1>8. Atomic!Mutate(th)
  BY <1>1, <1>7 DEF Atomic!Mutate
<1> QED  BY <1>1, <1>2, <1>6, <1>8, LeaveStep

LEMMA SetStep ==
  ASSUME IInv, NEW th \in Threads, Set(th)
  PROVE  IInv' /\ Atomic!Next
<1> DEFINE c == call[th]
<1>1. pc[th] = "enter" /\ c.op = "set"
      /\ settings' = [settings EXCEPT ![c.field] = c.value]
      /\ Leave(th, "ok")
      /\ UNCHANGED <<mem, log, snapshot, closed, settled>>
  BY DEF Set, At
<1>2. Inside(th) /\ pc[th] \notin Adding \cup Removing
  BY <1>1 DEF Inside, BodyLabels, Adding, Removing
<1>3. DataInv'
  BY <1>1, <1>2, LeaveData
<1>4. result' = [result EXCEPT ![th] = "ok"]
  BY <1>1 DEF Leave
<1>5. Atomic!Mutate(th)
  BY <1>1, <1>4 DEF Atomic!Mutate
<1> QED  BY <1>1, <1>2, <1>3, <1>5, LeaveStep

LEMMA GetStep ==
  ASSUME IInv, NEW th \in Threads, Get(th)
  PROVE  IInv' /\ (Atomic!Next \/ UNCHANGED Atomic!vars)
<1> DEFINE c   == call[th]
           row == mem.rowOf[c.id]
<1>1. pc[th] = "enter" /\ c.op = "get"
      /\ UNCHANGED <<mem, closed, settings, settled>>
  BY DEF Get, At, object
<1>2. Inside(th) /\ pc[th] \notin Adding \cup Removing
      /\ mem = settled /\ c \in Calls
  <2>1. Side(c) = "shared"
    BY <1>1 DEF Side, Mutators
  <2> QED  BY <2>1, <1>1, AtEntry
<1>3. c.id \in Ids
  BY <1>1, <1>2, RequestsAssumption
<1>4. CASE row = 0 /\ Leave(th, NoVec)
  <2>1. DataInv'
    BY <1>1, <1>2, <1>4, LeaveData
  <2>2. Atomic!Lookup(settled)[c.id] = NoVec
    BY <1>2, <1>3, <1>4 DEF Atomic!Lookup, Atomic!IsLive
  <2>3. result' = [result EXCEPT ![th] = NoVec]
    BY <1>4 DEF Leave
  <2>4. Atomic!Look(th)
    BY <1>1, <2>2, <2>3 DEF Atomic!Look
  <2> QED  BY <2>1, <2>4, <1>2, <1>4, LeaveStep
<1>5. CASE row # 0 /\ GoTo(th, "read", row)
  <2>1. ThreadOK("read", c, row, mem, settled, closed)
    BY <1>2, <1>5 DEF ThreadOK, Adding, Removing
  <2>2. "read" \in BodyLabels /\ LabelOK("read", c)
    BY <1>1, <1>2 DEF BodyLabels, LabelOK, Adding, Removing, Reading, Saved
  <2>3. DataInv'
    BY <2>1, <2>2, <1>1, <1>2, <1>5, StayData
  <2> QED  BY <2>2, <2>3, <1>1, <1>2, <1>5, StayStep
<1> QED  BY <1>4, <1>5 DEF Get

\* What a reader knows in the middle of its body.
LEMMA ReadingFacts ==
  ASSUME IInv, NEW th \in Threads, pc[th] \in Reading
  PROVE  /\ Inside(th) /\ pc[th] \notin Adding \cup Removing
         /\ mem = settled /\ settled \in Tables /\ TablesConsistent(settled)
         /\ call[th] \in Calls /\ LabelOK(pc[th], call[th])
         /\ ThreadOK(pc[th], call[th], local[th], mem, settled, closed)
<1>1. Holds(th)
  BY BusyHolds DEF IInv
<1>2. pc[th] \notin Adding \cup Removing
  BY DEF Adding, Removing, Reading
<1>3. mem = settled
  BY <1>1, <1>2, SeesSettled DEF IInv
<1>4. LabelOK(pc[th], call[th]) /\ call[th] \in Calls
  BY DEF IInv, Shape, LabelOK, Reading
<1> QED  BY <1>1, <1>2, <1>3, <1>4 DEF Holds, IInv, DataInv

\* The row that get() read from row_of_ is still in the buffer.
LEMMA ReadVectorStep ==
  ASSUME IInv, NEW th \in Threads, ReadVector(th)
  PROVE  IInv' /\ Atomic!Next
<1> DEFINE c      == call[th]
           answer == IF local[th] \in DOMAIN mem.rows
                     THEN mem.rows[local[th]].vec ELSE Garbage
<1>1. pc[th] = "read" /\ pc[th] \in Reading
      /\ Leave(th, answer)
      /\ UNCHANGED <<mem, closed, settings, settled>>
  BY DEF ReadVector, object, Reading
<1>2. Inside(th) /\ pc[th] \notin Adding \cup Removing
      /\ mem = settled /\ TablesConsistent(settled)
      /\ c \in Calls /\ c.op = "get"
      /\ local[th] = settled.rowOf[c.id] /\ local[th] # 0
  BY <1>1, ReadingFacts DEF LabelOK, ThreadOK
<1>3. c.id \in Ids
  BY <1>2, RequestsAssumption
<1>4. local[th] \in DOMAIN settled.rows
  BY <1>2, <1>3 DEF TablesConsistent, IsLive
<1>5. Atomic!Lookup(settled)[c.id] = answer
  BY <1>2, <1>3, <1>4 DEF Atomic!Lookup, Atomic!IsLive
<1>6. result' = [result EXCEPT ![th] = answer]
  BY <1>1 DEF Leave
<1>7. Atomic!Look(th)
  <2> HIDE DEF answer
  <2> QED  BY <1>1, <1>2, <1>5, <1>6 DEF Atomic!Look
<1>8. DataInv'
  <2> HIDE DEF answer
  <2> QED  BY <1>1, <1>2, LeaveData
<1> HIDE DEF answer
<1> QED  BY <1>1, <1>2, <1>7, <1>8, LeaveStep

LEMMA SearchStep ==
  ASSUME IInv, NEW th \in Threads, Search(th)
  PROVE  IInv' /\ UNCHANGED Atomic!vars
<1> DEFINE c == call[th]
           l == [row |-> 1, hits |-> {}]
<1>1. pc[th] = "enter" /\ c.op = "search"
      /\ GoTo(th, "scan", l)
      /\ UNCHANGED <<mem, closed, settings, settled>>
  BY DEF Search, At, object
<1>2. Inside(th) /\ pc[th] \notin Adding \cup Removing
      /\ mem = settled /\ c \in Calls
  <2>1. Side(c) = "shared"
    BY <1>1 DEF Side, Mutators
  <2> QED  BY <2>1, <1>1, AtEntry
<1>3. Len(settled.rows) \in Nat
  BY LenProperties DEF IInv, DataInv, Tables
<1>4. ThreadOK("scan", c, l, mem, settled, closed)
  <2>1. l.row \in 1 .. Len(settled.rows) + 1
    BY <1>3
  <2>2. l.hits = {row \in {settled.rows[i] : i \in 1 .. l.row - 1} :
                    row.id \notin settled.deleted}
    <3>1. 1 .. l.row - 1 = {}
      OBVIOUS
    <3> QED  BY <3>1
  <2> QED  BY <2>1, <2>2 DEF ThreadOK, Adding, Removing
<1>5. "scan" \in BodyLabels /\ LabelOK("scan", c)
  BY <1>1, <1>2 DEF BodyLabels, LabelOK, Adding, Removing, Reading, Saved
<1>6. DataInv'
  BY <1>1, <1>2, <1>4, <1>5, StayData
<1> QED  BY <1>1, <1>2, <1>5, <1>6, StayStep

LEMMA ScanStep ==
  ASSUME IInv, NEW th \in Threads, Scan(th)
  PROVE  IInv' /\ (Atomic!Next \/ UNCHANGED Atomic!vars)
<1> DEFINE c    == call[th]
           l    == local[th]
           more == IF mem.rows[l.row].id \in mem.deleted THEN l.hits
                   ELSE l.hits \cup {mem.rows[l.row]}
<1>1. pc[th] = "scan" /\ pc[th] \in Reading
      /\ UNCHANGED <<mem, closed, settings, settled>>
  BY DEF Scan, object, Reading
<1>2. Inside(th) /\ pc[th] \notin Adding \cup Removing
      /\ mem = settled /\ settled \in Tables
      /\ c \in Calls /\ c.op = "search" /\ LabelOK("scan", c)
      /\ l.row \in 1 .. Len(settled.rows) + 1
      /\ l.hits = {row \in {settled.rows[i] : i \in 1 .. l.row - 1} :
                     row.id \notin settled.deleted}
  BY <1>1, ReadingFacts DEF LabelOK, ThreadOK
<1>3. Len(settled.rows) \in Nat /\ DOMAIN settled.rows = 1 .. Len(settled.rows)
  BY <1>2, LenProperties DEF Tables
<1>4. CASE l.row \notin DOMAIN mem.rows /\ Leave(th, l.hits)
  <2>1. DataInv'
    BY <1>1, <1>2, <1>4, LeaveData
  <2>2. l.row - 1 = Len(settled.rows)
    BY <1>2, <1>3, <1>4
  <2>3. Atomic!Hits(settled) = l.hits
    BY <1>2, <1>3, <2>2 DEF Atomic!Hits
  <2>4. result' = [result EXCEPT ![th] = l.hits]
    BY <1>4 DEF Leave
  <2>5. Atomic!Look(th)
    BY <1>1, <1>2, <2>3, <2>4 DEF Atomic!Look
  <2> QED  BY <2>1, <2>5, <1>2, <1>4, LeaveStep
<1>5. CASE l.row \in DOMAIN mem.rows
           /\ GoTo(th, "scan", [row |-> l.row + 1, hits |-> more])
  <2>1. l.row + 1 \in 1 .. Len(settled.rows) + 1 /\ (l.row + 1) - 1 = l.row
    BY <1>2, <1>3, <1>5
  <2>2. more = {row \in {settled.rows[i] : i \in 1 .. l.row} :
                  row.id \notin settled.deleted}
    <3>1. 1 .. l.row = (1 .. l.row - 1) \cup {l.row}
      BY <1>2, <1>3
    <3>2. {settled.rows[i] : i \in 1 .. l.row}
          = {settled.rows[i] : i \in 1 .. l.row - 1} \cup {settled.rows[l.row]}
      BY <3>1
    <3> QED  BY <3>2, <1>2
  <2> HIDE DEF more
  <2>3. ThreadOK("scan", c, [row |-> l.row + 1, hits |-> more],
                 mem, settled, closed)
    BY <2>1, <2>2 DEF ThreadOK, Adding, Removing
  <2>4. "scan" \in BodyLabels
    BY DEF BodyLabels, Reading
  <2>5. DataInv'
    BY <2>3, <2>4, <1>1, <1>2, <1>5, StayData
  <2> QED  BY <2>4, <2>5, <1>1, <1>2, <1>5, StayStep
<1> QED  BY <1>4, <1>5 DEF Scan

LEMMA SizeStep ==
  ASSUME IInv, NEW th \in Threads, Size(th)
  PROVE  IInv' /\ Atomic!Next
<1> DEFINE c      == call[th]
           answer == Cardinality({id \in Ids : IsLive(mem, id)})
<1>1. pc[th] = "enter" /\ c.op = "size"
      /\ Leave(th, answer)
      /\ UNCHANGED <<mem, closed, settings, settled>>
  BY DEF Size, At, object
<1>2. Inside(th) /\ pc[th] \notin Adding \cup Removing /\ mem = settled
  <2>1. Side(c) = "shared"
    BY <1>1 DEF Side, Mutators
  <2> QED  BY <2>1, <1>1, AtEntry
<1>3. Atomic!Cardinality({id \in Ids : Atomic!IsLive(settled, id)}) = answer
  <2>1. {id \in Ids : Atomic!IsLive(settled, id)} = {id \in Ids : IsLive(mem, id)}
    BY <1>2 DEF IsLive, Atomic!IsLive
  <2>2. \A S : Atomic!Cardinality(S) = Cardinality(S)
    BY DEF Cardinality, Atomic!Cardinality
  <2> QED  BY <2>1, <2>2
<1> HIDE DEF answer
<1>4. DataInv'
  BY <1>1, <1>2, LeaveData
<1>5. result' = [result EXCEPT ![th] = answer]
  BY <1>1 DEF Leave
<1>6. Atomic!Look(th)
  BY <1>1, <1>3, <1>5 DEF Atomic!Look
<1> QED  BY <1>1, <1>2, <1>4, <1>6, LeaveStep

\* wal_sync() needs no lock: it reads one value and nothing else.
LEMMA ReadStep ==
  ASSUME IInv, NEW th \in Threads, Read(th)
  PROVE  IInv' /\ Atomic!Next
<1> DEFINE c == call[th]
<1>1. pc[th] = "enter" /\ c.op = "read"
      /\ Leave(th, settings[c.field])
      /\ UNCHANGED <<mem, closed, settings, settled>>
  BY DEF Read, At, object
<1>2. Inside(th) /\ pc[th] \notin Adding \cup Removing
  BY <1>1 DEF Inside, BodyLabels, Adding, Removing
<1>3. DataInv'
  BY <1>1, <1>2, LeaveData
<1>4. result' = [result EXCEPT ![th] = settings[c.field]]
  BY <1>1 DEF Leave
<1>5. Atomic!Look(th)
  BY <1>1, <1>4 DEF Atomic!Look
<1> QED  BY <1>1, <1>2, <1>3, <1>5, LeaveStep

-----------------------------------------------------------------------------
(* save and checkpoint.                                                    *)

LEMMA StartSaveStep ==
  ASSUME IInv, NEW th \in Threads, StartSave(th)
  PROVE  IInv' /\ UNCHANGED Atomic!vars
<1> DEFINE c == call[th]
<1>1. pc[th] = "enter" /\ c.op \in {"save", "checkpoint"}
      /\ GoTo(th, "tombstones", mem.rows)
      /\ UNCHANGED <<mem, closed, settings, settled>>
  BY DEF StartSave, At, object
<1>2. Inside(th) /\ pc[th] \notin Adding \cup Removing
      /\ mem = settled /\ c \in Calls
  <2>1. Side(c) \in {"exclusive", "shared"}
    BY <1>1 DEF Side, Mutators
  <2> QED  BY <2>1, <1>1, AtEntry
<1>3. ThreadOK("tombstones", c, mem.rows, mem, settled, closed)
  BY <1>2 DEF ThreadOK, Adding, Removing
<1>4. "tombstones" \in BodyLabels /\ LabelOK("tombstones", c)
  BY <1>1, <1>2 DEF BodyLabels, LabelOK, Adding, Removing, Reading, Saved
<1>5. DataInv'
  BY <1>1, <1>2, <1>3, <1>4, StayData
<1> QED  BY <1>1, <1>2, <1>4, <1>5, StayStep

LEMMA FinishSaveStep ==
  ASSUME IInv, NEW th \in Threads, FinishSave(th)
  PROVE  IInv' /\ (Atomic!Next \/ UNCHANGED Atomic!vars)
<1> DEFINE c     == call[th]
           image == [rows |-> local[th], deleted |-> mem.deleted]
<1>1. pc[th] = "tombstones" /\ pc[th] \in Reading
      /\ UNCHANGED <<mem, closed, settings, settled>>
  BY DEF FinishSave, object, Reading
<1>2. Inside(th) /\ pc[th] \notin Adding \cup Removing
      /\ mem = settled /\ c \in Calls /\ c.op \in {"save", "checkpoint"}
      /\ local[th] = settled.rows
  BY <1>1, ReadingFacts DEF LabelOK, ThreadOK
<1>3. Atomic!SaveImage(settled) = image
  BY <1>2 DEF Atomic!SaveImage
<1> HIDE DEF image
<1>4. CASE c.op = "save" /\ Leave(th, image)
  <2>1. DataInv'
    BY <1>1, <1>2, <1>4, LeaveData
  <2>2. result' = [result EXCEPT ![th] = image]
    BY <1>4 DEF Leave
  <2>3. Atomic!Look(th)
    BY <1>1, <1>3, <1>4, <2>2 DEF Atomic!Look
  <2> QED  BY <2>1, <2>3, <1>2, <1>4, LeaveStep
<1>5. CASE c.op # "save" /\ GoTo(th, "publish", image)
  <2>1. ThreadOK("publish", c, image, mem, settled, closed)
    BY NoClaim DEF Adding, Removing, Reading
  <2>2. "publish" \in BodyLabels /\ LabelOK("publish", c)
    BY <1>2, <1>5 DEF BodyLabels, LabelOK, Adding, Removing, Saved
  <2>3. DataInv'
    BY <2>1, <2>2, <1>1, <1>2, <1>5, StayData
  <2> QED  BY <2>2, <2>3, <1>1, <1>2, <1>5, StayStep
<1> QED  BY <1>4, <1>5 DEF FinishSave, image

LEMMA NothingToDoStep ==
  ASSUME IInv, NEW th \in Threads, NothingToDo(th)
  PROVE  IInv' /\ Atomic!Next
<1> DEFINE c == call[th]
<1>1. pc[th] = "enter" /\ c.op = "checkpoint"
      /\ Leave(th, "ok")
      /\ UNCHANGED <<mem, closed, settings, settled>>
  BY DEF NothingToDo, At, object
<1>2. Inside(th) /\ pc[th] \notin Adding \cup Removing
  BY <1>1 DEF Inside, BodyLabels, Adding, Removing
<1>3. DataInv'
  BY <1>1, <1>2, LeaveData
<1>4. result' = [result EXCEPT ![th] = "ok"]
  BY <1>1 DEF Leave
<1>5. Atomic!Look(th)
  BY <1>1, <1>4 DEF Atomic!Look
<1> QED  BY <1>1, <1>2, <1>3, <1>5, LeaveStep

LEMMA PublishStep ==
  ASSUME IInv, NEW th \in Threads, Publish(th)
  PROVE  IInv' /\ UNCHANGED Atomic!vars
<1> DEFINE c == call[th]
<1>1. pc[th] = "publish" /\ GoTo(th, "truncate", None)
      /\ UNCHANGED <<mem, closed, settings, settled>>
  BY DEF Publish
<1>2. Inside(th) /\ pc[th] \notin Adding \cup Removing
  BY <1>1 DEF Inside, BodyLabels, Adding, Removing, Saved
<1>3. "truncate" \in BodyLabels /\ LabelOK("truncate", c)
  BY <1>1 DEF BodyLabels, LabelOK, Adding, Removing, Saved, IInv, Shape
<1>4. ThreadOK("truncate", c, None, mem, settled, closed)
  BY NoClaim DEF Adding, Removing, Reading
<1>5. DataInv'
  BY <1>1, <1>2, <1>3, <1>4, StayData
<1> QED  BY <1>1, <1>2, <1>3, <1>5, StayStep

LEMMA TruncateStep ==
  ASSUME IInv, NEW th \in Threads, Truncate(th)
  PROVE  IInv' /\ Atomic!Next
<1> DEFINE c == call[th]
<1>1. pc[th] = "truncate" /\ Leave(th, "ok")
      /\ UNCHANGED <<mem, closed, settings, settled>>
  BY DEF Truncate
<1>2. Inside(th) /\ pc[th] \notin Adding \cup Removing
      /\ c.op = "checkpoint"
  BY <1>1 DEF Inside, BodyLabels, Adding, Removing, Saved, IInv, Shape, LabelOK
<1>3. DataInv'
  BY <1>1, <1>2, LeaveData
<1>4. result' = [result EXCEPT ![th] = "ok"]
  BY <1>1 DEF Leave
<1>5. Atomic!Look(th)
  BY <1>1, <1>2, <1>4 DEF Atomic!Look
<1> QED  BY <1>1, <1>2, <1>3, <1>5, LeaveStep

-----------------------------------------------------------------------------
(* The theorem.                                                            *)

LEMMA InitStep ==
  ASSUME Init
  PROVE  IInv /\ Atomic!Init
<1>1. settled \in Tables /\ TablesConsistent(settled) /\ mem = settled
  <2>1. PICK rows \in Loaded : /\ snapshot = [rows |-> rows, deleted |-> {}]
                               /\ mem = Restore(snapshot)
    BY DEF Init
  <2>2. snapshot \in Images
    BY <2>1, RequestsAssumption DEF Images
  <2>3. mem \in Tables /\ TablesConsistent(mem)
    BY <2>1, <2>2, RestoreType, RestoreConsistent
  <2> QED  BY <2>3 DEF Init
<1>2. \A t \in Threads : pc[t] = "idle"
  BY DEF Init
<1>3. \A t \in Threads : ~Inside(t)
  BY <1>2 DEF Inside, BodyLabels, Adding, Removing, Reading, Saved
<1>4. Shape
  <2>1. pc \in [Threads -> Labels]
    BY DEF Init, Labels
  <2>2. call = [t \in Threads |-> call[t]] /\ local = [t \in Threads |-> local[t]]
    BY DEF Init
  <2>3. \A t \in Threads : LabelOK(pc[t], call[t])
    BY <1>2 DEF LabelOK, Adding, Removing, Saved
  <2> QED  BY <2>1, <2>2, <2>3 DEF Shape
<1>5. LockInv
  BY <1>3, NoThreadAssumption DEF Init, LockInv
<1>6. DataInv
  <2>1. ASSUME NEW t \in Threads
        PROVE  ThreadOK(pc[t], call[t], local[t], mem, settled, closed)
    <3>1. pc[t] \notin Adding \cup Removing \cup Reading
      BY <1>2 DEF Adding, Removing, Reading
    <3> QED  BY <3>1, NoClaim
  <2> QED  BY <2>1, <1>1 DEF DataInv
<1>7. Atomic!Init
  <2>1. Atomic!TablesConsistent(settled)
    BY <1>1 DEF TablesConsistent, IsLive, RowIds,
                Atomic!TablesConsistent, Atomic!IsLive, Atomic!RowIds
  <2>2. AtomicAt = [t \in Threads |-> "idle"]
    BY <1>2 DEF AtomicAt
  <2> QED  BY <2>1, <2>2 DEF Init, Atomic!Init
<1> QED  BY <1>4, <1>5, <1>6, <1>7 DEF IInv

LEMMA NextStep ==
  ASSUME IInv, [Next]_vars
  PROVE  IInv' /\ (Atomic!Next \/ UNCHANGED Atomic!vars)
<1>1. CASE UNCHANGED vars
  <2>1. IInv'
    BY <1>1
    DEF vars, object, threads, IInv, Shape, LockInv, DataInv, Inside
  <2>2. AtomicAt' = AtomicAt
    BY <1>1 DEF vars, threads, AtomicAt
  <2> QED  BY <1>1, <2>1, <2>2 DEF vars, object, threads, Atomic!vars
<1>2. ASSUME NEW th \in Threads, Invoke(th) \/ Proceed(th)
      PROVE  IInv' /\ (Atomic!Next \/ UNCHANGED Atomic!vars)
  <2>1. CASE Invoke(th)
    BY <2>1, InvokeStep
  <2>2. CASE Lock(th)
    BY <2>2, LockStep
  <2>3. CASE Return(th)
    BY <2>3, ReturnStep
  <2>4. CASE Insert(th)
    BY <2>4, InsertStep
  <2>5. CASE MapId(th)
    BY <2>5, MapIdStep
  <2>6. CASE AddVector(th)
    BY <2>6, AddVectorStep
  <2>7. CASE Revive(th)
    BY <2>7, ReviveStep
  <2>8. CASE Remove(th)
    BY <2>8, RemoveStep
  <2>9. CASE Unmap(th)
    BY <2>9, UnmapStep
  <2>10. CASE Bury(th)
    BY <2>10, BuryStep
  <2>11. CASE Close(th)
    BY <2>11, CloseStep
  <2>12. CASE Set(th)
    BY <2>12, SetStep
  <2>13. CASE Get(th)
    BY <2>13, GetStep
  <2>14. CASE ReadVector(th)
    BY <2>14, ReadVectorStep
  <2>15. CASE Search(th)
    BY <2>15, SearchStep
  <2>16. CASE Scan(th)
    BY <2>16, ScanStep
  <2>17. CASE Size(th)
    BY <2>17, SizeStep
  <2>18. CASE Read(th)
    BY <2>18, ReadStep
  <2>19. CASE StartSave(th)
    BY <2>19, StartSaveStep
  <2>20. CASE FinishSave(th)
    BY <2>20, FinishSaveStep
  <2>21. CASE NothingToDo(th)
    BY <2>21, NothingToDoStep
  <2>22. CASE Publish(th)
    BY <2>22, PublishStep
  <2>23. CASE Truncate(th)
    BY <2>23, TruncateStep
  <2> QED  BY <1>2, <2>1, <2>2, <2>3, <2>4, <2>5, <2>6, <2>7, <2>8, <2>9, <2>10,
              <2>11, <2>12, <2>13, <2>14, <2>15, <2>16, <2>17, <2>18, <2>19,
              <2>20, <2>21, <2>22, <2>23 DEF Proceed
<1> QED  BY <1>1, <1>2 DEF Next

\* What the threads, the lock and the tables agree on at every step.
THEOREM SharedInvariant == Spec => []IInv
<1>1. Init => IInv
  BY InitStep
<1>2. IInv /\ [Next]_vars => IInv'
  BY NextStep
<1> QED  BY <1>1, <1>2, PTL DEF Spec

\* However the threads interleave, every call takes effect in one step between
\* its invocation and its return: the side of rw_ that each method of VectorDB
\* takes is strong enough, and wal_sync() needs none.
THEOREM SharedIsLinearizable == Spec => Linearizable
<1>1. Init => Atomic!Init
  BY InitStep
<1>2. IInv /\ [Next]_vars => [Atomic!Next]_(Atomic!vars)
  BY NextStep
<1> QED  BY <1>1, <1>2, SharedInvariant, PTL DEF Spec, Linearizable, Atomic!Spec

\* mem is what the last mutator left whenever nobody holds rw_ exclusively.
THEOREM UnlockedIsSettled ==
  Spec => [](owner = NoThread => mem = settled /\ TablesConsistent(mem))
<1>1. ASSUME IInv, owner = NoThread
      PROVE  mem = settled /\ TablesConsistent(mem)
  <2>1. ASSUME NEW t \in Threads
        PROVE  pc[t] \notin Adding \cup Removing
    BY <1>1, WritersExclude, NoThreadAssumption DEF IInv, LockInv
  <2> QED  BY <1>1, <2>1 DEF IInv, DataInv
<1> QED  BY <1>1, SharedInvariant, PTL

-----------------------------------------------------------------------------
(* The files.  A record is in the log before its call touches the tables,  *)
(* and a checkpoint has its snapshot out before it empties the log.        *)

Writing == Adding \cup Removing

Logged == {c \in Calls : c.op \in {"insert", "remove"}}

JournalInv ==
  /\ snapshot \in Images /\ log \in Seq(Logged) /\ closed \in BOOLEAN
  /\ \A t \in Threads :
       /\ pc[t] \in Writing =>
            Replayed(snapshot, log) = Redo(SaveImage(settled), call[t])
       /\ pc[t] = "publish" => local[t] = SaveImage(settled)
       /\ pc[t] = "truncate" => snapshot = SaveImage(settled)
  /\ (\A t \in Threads : pc[t] \notin Writing \cup {"truncate"}) =>
       Replayed(snapshot, log) = SaveImage(settled)

LEMMA RedoType ==
  ASSUME NEW image \in Images, NEW record \in Logged
  PROVE  Redo(image, record) \in Images
<1>1. image.rows \in Seq(Row) /\ image.deleted \in SUBSET Ids
  BY DEF Images
<1>2. CASE record.op = "insert"
  <2>1. record.rows \in Seq(Row)
    BY <1>2, RequestsAssumption DEF Logged
  <2>2. image.rows \o record.rows \in Seq(Row)
    BY <1>1, <2>1, ConcatProperties
  <2> QED  BY <2>2, <1>1, <1>2 DEF Redo, Images
<1>3. CASE record.op # "insert"
  <2>1. record.id \in Ids
    BY <1>3, RequestsAssumption DEF Logged
  <2> QED  BY <2>1, <1>1, <1>3 DEF Redo, Images
<1> QED  BY <1>2, <1>3

\* The images after each number of records are what their definition says.
LEMMA AfterRuns ==
  ASSUME NEW image \in Images, NEW records \in Seq(Logged)
  PROVE  LET f == After(image, records)
         IN  /\ f \in [0 .. Len(records) -> Images]
             /\ f[0] = image
             /\ \A n \in 1 .. Len(records) : f[n] = Redo(f[n - 1], records[n])
<1> DEFINE last == Len(records)
           step == [n \in 1 .. last |-> [i \in Images |-> Redo(i, records[n])]]
           Step(g) == [n \in 0 .. last |->
                         IF n = 0 THEN image ELSE Redo(g[n - 1], records[n])]
<1>1. last \in Nat /\ \A n \in 1 .. last : records[n] \in Logged
  BY LenProperties, ElementOfSeq
<1> HIDE DEF last
<1>2. \A n \in 1 .. last : \A i \in Images : step[n][i] = Redo(i, records[n])
  OBVIOUS
<1>3. step \in [1 .. last -> [Images -> Images]]
  BY <1>1, RedoType
<1> HIDE DEF step
<1>4. PICK f : Iterates(f, last, Images, image, step)
  BY <1>1, <1>3, Recursion
<1>5. /\ f \in [0 .. last -> Images]
      /\ f[0] = image
      /\ \A n \in 1 .. last : f[n] = step[n][f[n - 1]]
  BY <1>4 DEF Iterates
<1>6. \A n \in 1 .. last : n \in 0 .. last /\ n - 1 \in 0 .. last /\ n # 0
  BY <1>1
<1>7. \A n \in 1 .. last : f[n] = Redo(f[n - 1], records[n])
  BY <1>2, <1>5, <1>6
<1>8. f = Step(f)
  <2>1. \A n \in 0 .. last : n = 0 \/ n \in 1 .. last
    BY <1>1
  <2>2. \A n \in 0 .. last : f[n] = Step(f)[n]
    BY <1>5, <1>7, <2>1
  <2>3. f = [n \in 0 .. last |-> f[n]]
    BY <1>5
  <2> HIDE DEF Step
  <2>4. Step(f) = [n \in 0 .. last |-> Step(f)[n]]
    BY DEF Step
  <2> QED  BY <2>2, <2>3, <2>4
<1> DEFINE g == After(image, records)
<1>9. g = Step(g)
  <2>1. g = CHOOSE h : h = Step(h)
    BY DEF After, last
  <2> HIDE DEF g, Step
  <2> QED  BY <2>1, <1>8
<1>10. \A n \in 0 .. last : g[n] = IF n = 0 THEN image ELSE Redo(g[n - 1], records[n])
  <2> HIDE DEF g
  <2>1. \A n \in 0 .. last : g[n] = Step(g)[n]
    BY <1>9
  <2> QED  BY <2>1
<1>11. g[0] = image /\ \A n \in 1 .. last : g[n] = Redo(g[n - 1], records[n])
  <2> HIDE DEF g
  <2> QED  BY <1>10, <1>1, <1>6
<1>12. g = [n \in 0 .. last |-> g[n]]
  <2> HIDE DEF g
  <2>1. Step(g) = [n \in 0 .. last |-> Step(g)[n]]
    OBVIOUS
  <2> HIDE DEF Step
  <2> QED  BY <2>1, <1>9
<1> HIDE DEF g, Step
<1> DEFINE Fine == {n \in 0 .. last : g[n] \in Images}
<1>13. 0 \in Fine
  BY <1>11, <1>1
<1>14. \A n \in 0 .. last - 1 : n \in Fine => n + 1 \in Fine
  <2> SUFFICES ASSUME NEW n \in 0 .. last - 1, g[n] \in Images
               PROVE  g[n + 1] \in Images /\ n + 1 \in 0 .. last
    OBVIOUS
  <2>1. n + 1 \in 1 .. last /\ n + 1 - 1 = n /\ n + 1 \in 0 .. last
    BY <1>1
  <2>2. g[n + 1] = Redo(g[n + 1 - 1], records[n + 1])
    BY <2>1, <1>11
  <2> QED  BY <2>1, <2>2, <1>1, RedoType
<1>15. \A n \in 0 .. last : g[n] \in Images
  <2> HIDE DEF Fine
  <2>1. \A n \in 0 .. last : n \in Fine
    BY <1>1, <1>13, <1>14, UpTo
  <2> QED  BY <2>1 DEF Fine
<1> QED  BY <1>11, <1>12, <1>15 DEF g, last

LEMMA ReplayedType ==
  ASSUME NEW image \in Images, NEW records \in Seq(Logged)
  PROVE  Replayed(image, records) \in Images
<1>1. Len(records) \in 0 .. Len(records)
  BY LenProperties
<1> QED  BY <1>1, AfterRuns DEF Replayed

\* An empty log leaves the snapshot as it is.
LEMMA ReplayedNone ==
  ASSUME NEW image \in Images
  PROVE  <<>> \in Seq(Logged) /\ Replayed(image, <<>>) = image
<1>1. <<>> \in Seq(Logged) /\ Len(<<>>) = 0
  BY EmptySeq
<1> QED  BY <1>1, AfterRuns DEF Replayed

\* A record more at the end of the log is one step more of its replay.
LEMMA ReplayedAppend ==
  ASSUME NEW image \in Images, NEW records \in Seq(Logged), NEW record \in Logged
  PROVE  Replayed(image, Append(records, record))
           = Redo(Replayed(image, records), record)
<1> DEFINE last   == Len(records)
           longer == Append(records, record)
           f      == After(image, records)
           g      == After(image, longer)
<1>1. /\ last \in Nat /\ longer \in Seq(Logged) /\ Len(longer) = last + 1
      /\ longer[last + 1] = record
      /\ \A n \in 1 .. last : longer[n] = records[n]
  BY AppendProperties, LenProperties
<1> HIDE DEF longer
<1>2. f[0] = image /\ \A n \in 1 .. last : f[n] = Redo(f[n - 1], records[n])
  BY AfterRuns
<1>3. g[0] = image /\ \A n \in 1 .. last + 1 : g[n] = Redo(g[n - 1], longer[n])
  BY <1>1, AfterRuns
<1> HIDE DEF f, g, last
<1> DEFINE Same == {n \in 0 .. last : f[n] = g[n]}
<1>4. 0 \in Same
  BY <1>1, <1>2, <1>3
<1>5. \A n \in 0 .. last - 1 : n \in Same => n + 1 \in Same
  <2> SUFFICES ASSUME NEW n \in 0 .. last - 1, f[n] = g[n]
               PROVE  f[n + 1] = g[n + 1] /\ n + 1 \in 0 .. last
    OBVIOUS
  <2>1. n + 1 \in 1 .. last /\ n + 1 - 1 = n /\ n + 1 \in 0 .. last
        /\ n + 1 \in 1 .. last + 1
    BY <1>1
  <2> QED  BY <2>1, <1>1, <1>2, <1>3
<1>6. f[last] = g[last]
  <2> HIDE DEF Same
  <2>1. \A n \in 0 .. last : n \in Same
    BY <1>1, <1>4, <1>5, UpTo
  <2> QED  BY <2>1, <1>1 DEF Same
<1>7. last + 1 \in 1 .. last + 1 /\ last + 1 - 1 = last
  BY <1>1
<1>8. g[last + 1] = Redo(f[last], record)
  BY <1>1, <1>3, <1>6, <1>7
<1> QED  BY <1>8, <1>1 DEF Replayed, f, g, last, longer

-----------------------------------------------------------------------------
(* How JournalInv survives a step of one thread.                           *)

\* What one thread's place says of the files.
Files(p, c, l, snap, records, s) ==
  /\ p \in Writing => Replayed(snap, records) = Redo(SaveImage(s), c)
  /\ p = "publish" => l = SaveImage(s)
  /\ p = "truncate" => snap = SaveImage(s)
  /\ p \notin Writing \cup {"truncate"} => Replayed(snap, records) = SaveImage(s)

\* A step that leaves the files alone.
LEMMA QuietFiles ==
  ASSUME JournalInv, NEW th \in Threads, Others(th),
         UNCHANGED <<log, snapshot, settled>>, closed' \in BOOLEAN,
         pc[th] # "truncate", pc'[th] # "truncate",
         pc'[th] \in Writing <=> pc[th] \in Writing,
         pc[th] \in Writing => call'[th] = call[th],
         pc'[th] = "publish" => local'[th] = SaveImage(settled)
  PROVE  JournalInv'
<1>1. ASSUME NEW u \in Threads
      PROVE  /\ pc'[u] \in Writing =>
                  Replayed(snapshot', log') = Redo(SaveImage(settled'), call'[u])
             /\ pc'[u] = "publish" => local'[u] = SaveImage(settled')
             /\ pc'[u] = "truncate" => snapshot' = SaveImage(settled')
  <2>1. CASE u = th
    BY <2>1 DEF JournalInv
  <2>2. CASE u # th
    BY <2>2 DEF JournalInv, Others
  <2> QED  BY <2>1, <2>2
<1>2. ASSUME \A u \in Threads : pc'[u] \notin Writing \cup {"truncate"}
      PROVE  Replayed(snapshot', log') = SaveImage(settled')
  <2>1. ASSUME NEW u \in Threads
        PROVE  pc[u] \notin Writing \cup {"truncate"}
    BY <1>2 DEF Others
  <2> QED  BY <2>1 DEF JournalInv
<1> QED  BY <1>1, <1>2 DEF JournalInv

\* A step of a thread that is alone with the files.
LEMMA AloneFiles ==
  ASSUME Shape, LockInv, NEW th \in Threads, Others(th),
         Inside(th), Side(call[th]) = "exclusive",
         snapshot' \in Images, log' \in Seq(Logged), closed' \in BOOLEAN,
         Files(pc'[th], call'[th], local'[th], snapshot', log', settled')
  PROVE  JournalInv'
<1>1. ASSUME NEW u \in Threads \ {th}
      PROVE  pc'[u] \notin Writing \cup {"publish", "truncate"}
  BY Solo DEF Others, Writing, Saved
<1>2. ASSUME NEW u \in Threads
      PROVE  /\ pc'[u] \in Writing =>
                  Replayed(snapshot', log') = Redo(SaveImage(settled'), call'[u])
             /\ pc'[u] = "publish" => local'[u] = SaveImage(settled')
             /\ pc'[u] = "truncate" => snapshot' = SaveImage(settled')
  <2>1. CASE u = th
    BY <2>1 DEF Files
  <2>2. CASE u # th
    BY <2>2, <1>1
  <2> QED  BY <2>1, <2>2
<1>3. ASSUME \A u \in Threads : pc'[u] \notin Writing \cup {"truncate"}
      PROVE  Replayed(snapshot', log') = SaveImage(settled')
  BY <1>3 DEF Files
<1> QED  BY <1>2, <1>3 DEF JournalInv

\* What the files hold when a thread is alone with them.
LEMMA AloneHas ==
  ASSUME Shape, LockInv, JournalInv, NEW th \in Threads,
         Inside(th), Side(call[th]) = "exclusive"
  PROVE  Files(pc[th], call[th], local[th], snapshot, log, settled)
<1>1. ASSUME NEW u \in Threads \ {th}
      PROVE  pc[u] \notin Writing \cup {"publish", "truncate"}
  BY Solo DEF Writing, Saved
<1>2. ASSUME pc[th] \notin Writing \cup {"truncate"}
      PROVE  Replayed(snapshot, log) = SaveImage(settled)
  BY <1>1, <1>2 DEF JournalInv
<1> QED  BY <1>2 DEF JournalInv, Files

\* A record is what its call does to the image of the tables.
LEMMA RedoInsert ==
  ASSUME NEW s, NEW c, c.op = "insert"
  PROVE  Redo(SaveImage(s), c) = SaveImage(AddBatch(s, c.rows))
BY DEF Redo, SaveImage, AddBatch

LEMMA RedoRemove ==
  ASSUME NEW s \in Tables, NEW c, c.op = "remove"
  PROVE  Redo(SaveImage(s), c) = SaveImage(RemoveRow(s, c.id))
BY DEF Redo, SaveImage, RemoveRow, Tables

LEMMA InsertFiles ==
  ASSUME IInv, JournalInv, NEW th \in Threads, Insert(th)
  PROVE  JournalInv'
<1> DEFINE c == call[th]
<1>1. pc[th] = "enter" /\ c.op = "insert"
      /\ UNCHANGED <<mem, snapshot, closed, settings, settled>>
  BY DEF Insert, At
<1>2. Shape /\ LockInv
  BY DEF IInv
<1>3. Inside(th) /\ Side(c) = "exclusive" /\ c \in Calls
  BY <1>1, AtEntry DEF Side, Mutators
<1>4. pc[th] \notin Writing /\ pc[th] # "truncate"
  BY <1>1 DEF Writing, Adding, Removing
<1>5. CASE UNCHANGED log /\ \E answer : Leave(th, answer)
  <2>1. Others(th) /\ pc'[th] = "done"
    BY <1>2, <1>3, <1>5, LeaveMoves DEF Leaves
  <2>2. pc'[th] \notin Writing \cup {"publish", "truncate"} /\ closed' \in BOOLEAN
    BY <2>1, <1>1 DEF Writing, Adding, Removing, JournalInv
  <2> QED  BY <2>1, <2>2, <1>1, <1>4, <1>5, QuietFiles
<1>6. CASE log' = Append(log, c) /\ \E l : GoTo(th, "map", l)
  <2>1. Others(th) /\ pc'[th] = "map" /\ UNCHANGED call
    BY <1>2, <1>6, GoToMoves
  <2>2. c \in Logged /\ snapshot \in Images /\ log \in Seq(Logged)
        /\ closed' \in BOOLEAN
    BY <1>1, <1>3 DEF Logged, JournalInv
  <2>3. Replayed(snapshot, log) = SaveImage(settled)
    BY <1>2, <1>3, <1>4, AloneHas DEF Files
  <2>4. Replayed(snapshot, log') = Redo(SaveImage(settled), c)
    BY <2>2, <2>3, <1>6, ReplayedAppend
  <2>5. log' \in Seq(Logged)
    BY <2>2, <1>6, AppendProperties
  <2>6. Files(pc'[th], call'[th], local'[th], snapshot', log', settled')
    BY <2>1, <2>4, <1>1 DEF Files, Writing, Adding
  <2> QED  BY <2>1, <2>2, <2>5, <2>6, <1>1, <1>2, <1>3, AloneFiles
<1> QED  BY <1>5, <1>6 DEF Insert

LEMMA RemoveFiles ==
  ASSUME IInv, JournalInv, NEW th \in Threads, Remove(th)
  PROVE  JournalInv'
<1> DEFINE c == call[th]
<1>1. pc[th] = "enter" /\ c.op = "remove"
      /\ UNCHANGED <<mem, snapshot, closed, settings, settled>>
  BY DEF Remove, At
<1>2. Shape /\ LockInv
  BY DEF IInv
<1>3. Inside(th) /\ Side(c) = "exclusive" /\ c \in Calls
  BY <1>1, AtEntry DEF Side, Mutators
<1>4. pc[th] \notin Writing /\ pc[th] # "truncate"
  BY <1>1 DEF Writing, Adding, Removing
<1>5. CASE UNCHANGED log /\ \E answer : Leave(th, answer)
  <2>1. Others(th) /\ pc'[th] = "done"
    BY <1>2, <1>3, <1>5, LeaveMoves DEF Leaves
  <2>2. pc'[th] \notin Writing \cup {"publish", "truncate"} /\ closed' \in BOOLEAN
    BY <2>1, <1>1 DEF Writing, Adding, Removing, JournalInv
  <2> QED  BY <2>1, <2>2, <1>1, <1>4, <1>5, QuietFiles
<1>6. CASE log' = Append(log, c) /\ GoTo(th, "unmap", None)
  <2>1. Others(th) /\ pc'[th] = "unmap" /\ UNCHANGED call
    BY <1>2, <1>6, GoToMoves
  <2>2. c \in Logged /\ snapshot \in Images /\ log \in Seq(Logged)
        /\ closed' \in BOOLEAN
    BY <1>1, <1>3 DEF Logged, JournalInv
  <2>3. Replayed(snapshot, log) = SaveImage(settled)
    BY <1>2, <1>3, <1>4, AloneHas DEF Files
  <2>4. Replayed(snapshot, log') = Redo(SaveImage(settled), c)
    BY <2>2, <2>3, <1>6, ReplayedAppend
  <2>5. log' \in Seq(Logged)
    BY <2>2, <1>6, AppendProperties
  <2>6. Files(pc'[th], call'[th], local'[th], snapshot', log', settled')
    BY <2>1, <2>4, <1>1 DEF Files, Writing, Removing
  <2> QED  BY <2>1, <2>2, <2>5, <2>6, <1>1, <1>2, <1>3, AloneFiles
<1> QED  BY <1>5, <1>6 DEF Remove

\* A step inside a batch or a removal: the record is logged, the tables are
\* not settled yet.
LEMMA WritingFiles ==
  ASSUME IInv, JournalInv, NEW th \in Threads, pc[th] \in Writing,
         NEW label \in Writing, NEW values, GoTo(th, label, values),
         UNCHANGED <<log, snapshot, closed, settled>>
  PROVE  JournalInv'
<1>1. Others(th) /\ pc'[th] = label /\ UNCHANGED call
  BY GoToMoves DEF IInv
<1>2. pc[th] # "truncate" /\ label \notin {"publish", "truncate"}
      /\ closed' \in BOOLEAN
  BY DEF Writing, Adding, Removing, JournalInv
<1> QED  BY <1>1, <1>2, QuietFiles

\* The last step of a mutation settles what its record says.
LEMMA SettledFiles ==
  ASSUME IInv, JournalInv, NEW th \in Threads, pc[th] \in Writing,
         Leave(th, "ok"),
         UNCHANGED <<log, snapshot, closed>>,
         SaveImage(settled') = Redo(SaveImage(settled), call[th])
  PROVE  JournalInv'
<1>1. Shape /\ LockInv /\ Inside(th) /\ Side(call[th]) = "exclusive"
  BY WritersExclude DEF IInv, Writing
<1>2. Others(th) /\ pc'[th] = "done"
  BY <1>1, LeaveMoves DEF Leaves
<1>3. Replayed(snapshot, log) = Redo(SaveImage(settled), call[th])
      /\ snapshot \in Images /\ log \in Seq(Logged) /\ closed \in BOOLEAN
  BY DEF JournalInv
<1>4. Files(pc'[th], call'[th], local'[th], snapshot', log', settled')
  BY <1>2, <1>3 DEF Files, Writing, Adding, Removing
<1> QED  BY <1>1, <1>2, <1>3, <1>4, AloneFiles

LEMMA AddingFiles ==
  ASSUME IInv, JournalInv, NEW th \in Threads,
         MapId(th) \/ AddVector(th) \/ Revive(th) \/ Unmap(th) \/ Bury(th)
  PROVE  JournalInv'
<1>1. CASE MapId(th)
  <2>1. pc[th] \in Writing /\ "add" \in Writing
    BY <1>1 DEF MapId, Writing, Adding
  <2> QED  BY <2>1, <1>1, WritingFiles DEF MapId
<1>2. CASE AddVector(th)
  <2>1. pc[th] \in Writing /\ "revive" \in Writing
    BY <1>2 DEF AddVector, Writing, Adding
  <2> QED  BY <2>1, <1>2, WritingFiles DEF AddVector
<1>3. CASE Unmap(th)
  <2>1. pc[th] \in Writing /\ "bury" \in Writing
    BY <1>3 DEF Unmap, Writing, Removing
  <2> QED  BY <2>1, <1>3, WritingFiles DEF Unmap
<1>4. CASE Revive(th)
  <2> DEFINE c    == call[th]
             l    == local[th]
             rows == c.rows
  <2>1. pc[th] = "revive" /\ pc[th] \in Adding /\ pc[th] \in Writing
        /\ "map" \in Writing /\ UNCHANGED <<log, snapshot, closed>>
    BY <1>4 DEF Revive, Writing, Adding
  <2>2. CASE GoTo(th, "map", [l EXCEPT !.row = @ + 1]) /\ UNCHANGED settled
    BY <2>1, <2>2, WritingFiles
  <2>3. CASE ~(l.row < Len(rows)) /\ Leave(th, "ok") /\ settled' = mem'
    <3>1. settled' = AddBatch(settled, rows) /\ c.op = "insert"
      BY <1>4, <2>3, ReviveLast
    <3>2. SaveImage(settled') = Redo(SaveImage(settled), c)
      BY <3>1, RedoInsert
    <3> QED  BY <3>2, <2>1, <2>3, SettledFiles
  <2> QED  BY <1>4, <2>2, <2>3 DEF Revive
<1>5. CASE Bury(th)
  <2> DEFINE c == call[th]
  <2>1. pc[th] = "bury" /\ pc[th] \in Removing /\ pc[th] \in Writing
        /\ mem' = [mem EXCEPT !.deleted = @ \cup {c.id}]
        /\ settled' = mem' /\ Leave(th, "ok")
        /\ UNCHANGED <<log, snapshot, closed>>
    BY <1>5 DEF Bury, Writing, Removing
  <2>2. c.op = "remove" /\ settled \in Tables
        /\ mem = [settled EXCEPT !.rowOf[c.id] = 0]
    BY <2>1 DEF IInv, DataInv, ThreadOK, Shape, LabelOK
  <2>3. settled' = RemoveRow(settled, c.id)
    BY <2>1, <2>2 DEF RemoveRow, Tables
  <2>4. SaveImage(settled') = Redo(SaveImage(settled), c)
    BY <2>2, <2>3, RedoRemove
  <2> QED  BY <2>1, <2>4, SettledFiles
<1> QED  BY <1>1, <1>2, <1>3, <1>4, <1>5

\* A return statement, or a step to a place that claims nothing of the files.
LEMMA LeaveFiles ==
  ASSUME IInv, JournalInv, NEW th \in Threads, Inside(th),
         pc[th] \notin Writing \cup {"truncate"},
         NEW answer, Leave(th, answer),
         UNCHANGED <<log, snapshot, settled>>, closed' \in BOOLEAN
  PROVE  JournalInv'
<1>1. Others(th) /\ pc'[th] = "done"
  BY LeaveMoves DEF IInv, Leaves
<1>2. pc'[th] \notin Writing \cup {"publish", "truncate"}
  BY <1>1 DEF Writing, Adding, Removing
<1> QED  BY <1>1, <1>2, QuietFiles

LEMMA GoToFiles ==
  ASSUME IInv, JournalInv, NEW th \in Threads,
         pc[th] \notin Writing \cup {"truncate"},
         NEW label, label \notin Writing \cup {"truncate"}, NEW values,
         label = "publish" => values = SaveImage(settled),
         GoTo(th, label, values),
         UNCHANGED <<log, snapshot, closed, settled>>
  PROVE  JournalInv'
<1>1. Others(th) /\ pc'[th] = label /\ local'[th] = values
  BY GoToMoves DEF IInv
<1>2. closed' \in BOOLEAN
  BY DEF JournalInv
<1> QED  BY <1>1, <1>2, QuietFiles

\* Outside of the methods, and while waiting for the lock.
LEMMA CallerFiles ==
  ASSUME IInv, JournalInv, NEW th \in Threads,
         Invoke(th) \/ Lock(th) \/ Return(th)
  PROVE  JournalInv'
<1>1. Others(th) /\ UNCHANGED <<log, snapshot, settled, closed>>
      /\ pc[th] \in {"idle", "called", "done"}
      /\ pc'[th] \in {"idle", "called", "enter"}
  BY DEF Invoke, Lock, Return, IInv, Shape, Others, object
<1>2. pc[th] \notin Writing \cup {"truncate"}
      /\ pc'[th] \notin Writing \cup {"publish", "truncate"}
      /\ closed' \in BOOLEAN
  BY <1>1 DEF Writing, Adding, Removing, JournalInv
<1> QED  BY <1>1, <1>2, QuietFiles

\* close and the setters.
LEMMA SetFiles ==
  ASSUME IInv, JournalInv, NEW th \in Threads, Close(th) \/ Set(th)
  PROVE  JournalInv'
<1>1. pc[th] = "enter" /\ Leave(th, "ok")
      /\ UNCHANGED <<log, snapshot, settled>> /\ closed' \in BOOLEAN
  BY DEF Close, Set, At, JournalInv
<1>2. Inside(th) /\ pc[th] \notin Writing \cup {"truncate"}
  BY <1>1 DEF Inside, BodyLabels, Writing, Adding, Removing
<1> QED  BY <1>1, <1>2, LeaveFiles

\* The readers, save() and a checkpoint that has nothing to do.
LEMMA ReaderFiles ==
  ASSUME IInv, JournalInv, NEW th \in Threads,
         \/ Get(th) \/ ReadVector(th) \/ Search(th) \/ Scan(th) \/ Size(th)
         \/ Read(th) \/ StartSave(th) \/ NothingToDo(th)
  PROVE  JournalInv'
<1>1. pc[th] \in {"enter", "read", "scan"}
      /\ UNCHANGED <<log, snapshot, closed, settled>>
      /\ \/ \E answer : Leave(th, answer)
         \/ \E label \in {"read", "scan", "tombstones"} : \E values :
              GoTo(th, label, values)
  BY DEF Get, ReadVector, Search, Scan, Size, Read, StartSave, NothingToDo,
         At, object
<1>2. Inside(th) /\ pc[th] \notin Writing \cup {"truncate"}
  BY <1>1 DEF Inside, BodyLabels, Reading, Writing, Adding, Removing
<1>3. closed' \in BOOLEAN
  BY <1>1 DEF JournalInv
<1>4. CASE \E answer : Leave(th, answer)
  BY <1>1, <1>2, <1>3, <1>4, LeaveFiles
<1>5. CASE \E label \in {"read", "scan", "tombstones"} : \E values :
             GoTo(th, label, values)
  <2>1. PICK label \in {"read", "scan", "tombstones"} :
          \E values : GoTo(th, label, values)
    BY <1>5
  <2>2. label \notin Writing \cup {"publish", "truncate"}
    BY <2>1 DEF Writing, Adding, Removing
  <2> QED  BY <2>1, <2>2, <1>1, <1>2, GoToFiles
<1> QED  BY <1>1, <1>4, <1>5

LEMMA FinishSaveFiles ==
  ASSUME IInv, JournalInv, NEW th \in Threads, FinishSave(th)
  PROVE  JournalInv'
<1> DEFINE image == [rows |-> local[th], deleted |-> mem.deleted]
<1>1. pc[th] = "tombstones" /\ pc[th] \in Reading
      /\ UNCHANGED <<log, snapshot, closed, settled>>
  BY DEF FinishSave, object, Reading
<1>2. Inside(th) /\ mem = settled /\ local[th] = settled.rows
  BY <1>1, ReadingFacts DEF ThreadOK
<1>3. image = SaveImage(settled)
  BY <1>2 DEF SaveImage
<1>4. pc[th] \notin Writing \cup {"truncate"} /\ closed' \in BOOLEAN
      /\ "publish" \notin Writing \cup {"truncate"}
  BY <1>1 DEF Writing, Adding, Removing, JournalInv
<1> HIDE DEF image
<1>5. CASE Leave(th, image)
  BY <1>1, <1>2, <1>4, <1>5, LeaveFiles
<1>6. CASE GoTo(th, "publish", image)
  BY <1>1, <1>3, <1>4, <1>6, GoToFiles
<1> QED  BY <1>5, <1>6 DEF FinishSave, image

\* A checkpoint: what is published is the settled tables, and only then does
\* the log go.
LEMMA CheckpointFiles ==
  ASSUME IInv, JournalInv, NEW th \in Threads, Publish(th) \/ Truncate(th)
  PROVE  JournalInv'
<1>1. pc[th] \in Saved
  BY DEF Publish, Truncate, Saved
<1>2. Shape /\ LockInv /\ Inside(th) /\ Side(call[th]) = "exclusive"
  <2>1. call[th].op = "checkpoint"
    BY <1>1 DEF IInv, Shape, LabelOK
  <2> QED  BY <2>1, <1>1 DEF IInv, Inside, BodyLabels, Side, Mutators
<1>3. snapshot \in Images /\ log \in Seq(Logged) /\ closed \in BOOLEAN
      /\ SaveImage(settled) \in Images
  BY SaveImageType DEF JournalInv, IInv, DataInv
<1>4. CASE Publish(th)
  <2>1. pc[th] = "publish" /\ GoTo(th, "truncate", None) /\ snapshot' = local[th]
        /\ UNCHANGED <<log, closed, settled>>
    BY <1>4 DEF Publish
  <2>2. snapshot' = SaveImage(settled)
    BY <2>1 DEF JournalInv
  <2>3. Others(th) /\ pc'[th] = "truncate"
    BY <2>1, <1>2, GoToMoves
  <2>4. Files(pc'[th], call'[th], local'[th], snapshot', log', settled')
    BY <2>1, <2>2, <2>3 DEF Files, Writing, Adding, Removing
  <2> QED  BY <2>1, <2>2, <2>3, <2>4, <1>2, <1>3, AloneFiles
<1>5. CASE Truncate(th)
  <2>1. pc[th] = "truncate" /\ Leave(th, "ok") /\ log' = <<>>
        /\ UNCHANGED <<snapshot, closed, settled>>
    BY <1>5 DEF Truncate
  <2>2. snapshot = SaveImage(settled)
    BY <2>1 DEF JournalInv
  <2>3. Others(th) /\ pc'[th] = "done"
    BY <2>1, <1>2, LeaveMoves DEF Leaves
  <2>4. log' \in Seq(Logged) /\ Replayed(snapshot', log') = SaveImage(settled')
    BY <2>1, <2>2, <1>3, ReplayedNone
  <2>5. Files(pc'[th], call'[th], local'[th], snapshot', log', settled')
    BY <2>3, <2>4 DEF Files, Writing, Adding, Removing
  <2> QED  BY <2>1, <2>3, <2>4, <2>5, <1>2, <1>3, AloneFiles
<1> QED  BY <1>4, <1>5

LEMMA InitFiles == Init => JournalInv
<1> SUFFICES ASSUME Init
             PROVE  JournalInv
  OBVIOUS
<1>1. PICK rows \in Loaded : /\ snapshot = [rows |-> rows, deleted |-> {}]
                             /\ mem = Restore(snapshot)
  BY DEF Init
<1>2. snapshot \in Images
  BY <1>1, RequestsAssumption DEF Images
<1>3. SaveImage(mem) = snapshot
  BY <1>1 DEF SaveImage, Restore
<1>4. log \in Seq(Logged) /\ Replayed(snapshot, log) = snapshot
  BY <1>2, ReplayedNone DEF Init
<1>5. \A t \in Threads : pc[t] \notin Writing \cup {"publish", "truncate"}
  BY DEF Init, Writing, Adding, Removing
<1> QED  BY <1>2, <1>3, <1>4, <1>5 DEF Init, JournalInv

LEMMA NextFiles == IInv /\ JournalInv /\ [Next]_vars => JournalInv'
<1> SUFFICES ASSUME IInv, JournalInv, [Next]_vars
             PROVE  JournalInv'
  OBVIOUS
<1>1. CASE UNCHANGED vars
  BY <1>1 DEF vars, object, threads, JournalInv
<1>2. ASSUME NEW th \in Threads, Invoke(th) \/ Proceed(th)
      PROVE  JournalInv'
  <2>1. CASE Insert(th)
    BY <2>1, InsertFiles
  <2>2. CASE Remove(th)
    BY <2>2, RemoveFiles
  <2>3. CASE MapId(th) \/ AddVector(th) \/ Revive(th) \/ Unmap(th) \/ Bury(th)
    BY <2>3, AddingFiles
  <2>4. CASE Invoke(th) \/ Lock(th) \/ Return(th)
    BY <2>4, CallerFiles
  <2>5. CASE Close(th) \/ Set(th)
    BY <2>5, SetFiles
  <2>6. CASE \/ Get(th) \/ ReadVector(th) \/ Search(th) \/ Scan(th) \/ Size(th)
             \/ Read(th) \/ StartSave(th) \/ NothingToDo(th)
    BY <2>6, ReaderFiles
  <2>7. CASE FinishSave(th)
    BY <2>7, FinishSaveFiles
  <2>8. CASE Publish(th) \/ Truncate(th)
    BY <2>8, CheckpointFiles
  <2> QED  BY <1>2, <2>1, <2>2, <2>3, <2>4, <2>5, <2>6, <2>7, <2>8 DEF Proceed
<1> QED  BY <1>1, <1>2 DEF Next

LEMMA JournalHolds == Spec => []JournalInv
<1>1. Init => JournalInv
  BY InitFiles
<1>2. IInv /\ JournalInv /\ [Next]_vars => JournalInv'
  BY NextFiles
<1> QED  BY <1>1, <1>2, SharedInvariant, PTL DEF Spec

\* Whenever no call holds rw_ exclusively, replaying the log on the snapshot
\* gives the tables in memory: the order of the records is the order of the
\* calls, and checkpoint() drops no record that its snapshot does not hold.
THEOREM DiskHoldsMemory == Spec => []DiskCoversMemory
<1>1. IInv /\ JournalInv => DiskCoversMemory
  <2> SUFFICES ASSUME IInv, JournalInv, owner = NoThread
               PROVE  Replayed(snapshot, log) = SaveImage(mem)
    BY DEF DiskCoversMemory
  <2>1. ASSUME NEW t \in Threads
        PROVE  pc[t] \notin Writing \cup {"truncate"}
    <3>1. owner # t
      BY NoThreadAssumption
    <3>2. pc[t] \notin Writing
      BY <3>1, WritersExclude DEF IInv, LockInv, Writing
    <3>3. ASSUME pc[t] = "truncate"
          PROVE  Inside(t) /\ Side(call[t]) = "exclusive"
      <4>1. call[t].op = "checkpoint"
        BY <3>3 DEF IInv, Shape, LabelOK, Saved
      <4> QED  BY <4>1, <3>3 DEF Inside, BodyLabels, Saved, Side, Mutators
    <3> QED  BY <3>1, <3>2, <3>3 DEF IInv, LockInv
  <2>2. mem = settled
    BY <2>1 DEF IInv, DataInv, Writing
  <2> QED  BY <2>1, <2>2 DEF JournalInv
<1> QED  BY <1>1, SharedInvariant, JournalHolds, PTL

-----------------------------------------------------------------------------
(* Types.                                                                  *)

LEMMA HalfType ==
  ASSUME NEW s \in Tables, NEW rows \in Seq(Row), UniqueIds(rows),
         NEW r \in 1 .. Len(rows), NEW p \in Adding
  PROVE  Half(p, s, rows, r) \in Tables
<1> DEFINE part   == SubSeq(rows, 1, r - 1)
           before == AddBatch(s, part)
           place  == Len(s.rows) + r
           mapped == [before EXCEPT !.rowOf[rows[r].id] = place]
<1>1. Len(rows) \in Nat /\ r - 1 \in 0 .. Len(rows) /\ r \in Nat
      /\ Len(s.rows) \in Nat /\ rows[r] \in Row
  BY LenProperties, ElementOfSeq DEF Tables
<1>2. part \in Seq(Row)
  BY <1>1, PartOfBatch
<1>3. before \in Tables
  BY <1>2, AddBatchType
<1>4. place \in Nat
  BY <1>1
<1> HIDE DEF part, before, place
<1>5. mapped \in Tables
  BY <1>3, <1>4 DEF Tables
<1>6. [mapped EXCEPT !.rows = Append(@, rows[r])] \in Tables
  <2> HIDE DEF mapped
  <2>1. Append(mapped.rows, rows[r]) \in Seq(Row)
    BY <1>1, <1>5, AppendProperties DEF Tables
  <2> QED  BY <2>1, <1>5 DEF Tables
<1>7. CASE p = "map"
  BY <1>7, <1>3 DEF Half, before, part
<1>8. CASE p = "add"
  BY <1>8, <1>5 DEF Half, before, part, place
<1>9. CASE p = "revive"
  BY <1>9, <1>6 DEF Half, before, part, place
<1> QED  BY <1>7, <1>8, <1>9 DEF Adding

\* Memory and files stay well typed at every step of every method, and get()
\* never reads outside of the row buffer: no other call can move between the
\* lookup of the row and the read of the vector.
THEOREM TypesHold == Spec => []TypeOK
<1>1. IInv /\ JournalInv => TypeOK
  <2> SUFFICES ASSUME IInv, JournalInv
               PROVE  TypeOK
    OBVIOUS
  <2>1. settled \in Tables /\ TablesConsistent(settled)
    BY DEF IInv, DataInv
  <2>2. mem \in Tables
    <3>1. CASE \A t \in Threads : pc[t] \notin Adding \cup Removing
      BY <3>1, <2>1 DEF IInv, DataInv
    <3>2. ASSUME NEW t \in Threads, pc[t] \in Adding
          PROVE  mem \in Tables
      <4>1. /\ call[t].rows \in Seq(Row) /\ UniqueIds(call[t].rows)
            /\ local[t].row \in 1 .. Len(call[t].rows)
            /\ mem = Half(pc[t], settled, call[t].rows, local[t].row)
        BY <3>2, AddingFacts
      <4> QED  BY <4>1, <2>1, <3>2, HalfType
    <3>3. ASSUME NEW t \in Threads, pc[t] \in Removing
          PROVE  mem \in Tables
      <4>1. mem = IF pc[t] = "unmap" THEN settled
                  ELSE [settled EXCEPT !.rowOf[call[t].id] = 0]
        BY <3>3 DEF IInv, DataInv, ThreadOK
      <4> QED  BY <4>1, <2>1 DEF Tables
    <3> QED  BY <3>1, <3>2, <3>3
  <2>3. log \in Seq(Calls)
    <3>1. Logged \subseteq Calls
      BY DEF Logged
    <3> QED  BY <3>1 DEF JournalInv
  <2>4. ASSUME NEW t \in Threads, pc[t] = "read"
        PROVE  local[t] \in DOMAIN mem.rows
    <3>1. Holds(t) /\ pc[t] \notin Adding \cup Removing
      BY <2>4, BusyHolds DEF IInv, Reading, Adding, Removing
    <3>2. mem = settled
      BY <3>1, SeesSettled DEF IInv
    <3>3. local[t] = settled.rowOf[call[t].id] /\ local[t] # 0
      BY <2>4 DEF IInv, DataInv, ThreadOK
    <3>4. call[t].id \in Ids
      BY <2>4, RequestsAssumption DEF IInv, Shape, LabelOK
    <3> QED  BY <3>2, <3>3, <3>4, <2>1 DEF TablesConsistent, IsLive
  <2> QED  BY <2>1, <2>2, <2>3, <2>4 DEF TypeOK, JournalInv, IInv, LockInv
<1> QED  BY <1>1, SharedInvariant, JournalHolds, PTL
=============================================================================
