---------------------------- MODULE StorePromise ----------------------------
(***************************************************************************)
(* What a directory-backed VectorDB promises its user (db.hpp, wal.hpp),   *)
(* without files, frames or checkpoints.                                   *)
(*                                                                         *)
(* While the directory is open it serves one map from ids to vectors; each *)
(* accepted write is one step of a history of such maps.  When the process *)
(* goes away, in whatever manner, the next one serves the map after some   *)
(* write of the history, and not one before "floor", the last write that   *)
(* was acknowledged to survive.                                            *)
(***************************************************************************)
EXTENDS Naturals, Sequences

CONSTANTS Ids, Vecs, NoVec

VARIABLES served, writes, floor, busy

vars == <<served, writes, floor, busy>>

Maps  == [Ids -> Vecs \cup {NoVec}]
Blank == [id \in Ids |-> NoVec]

\* Served while no process has the directory open: the map of no ids.
Nothing == <<>>

Init ==
  /\ served = Nothing
  /\ writes = <<Blank>>
  /\ floor = [process |-> 1, machine |-> 1]
  /\ busy = FALSE

\* The maps one accepted call leads to: insert and insert_bulk give vectors
\* to ids that have none, all of them or none; remove takes one away.
After(map) ==
  {m \in Maps \ {map} :
     \/ \A id \in Ids : map[id] # NoVec => m[id] = map[id]
     \/ \E id \in Ids : m = [map EXCEPT ![id] = NoVec]}

Idle == served # Nothing /\ ~busy

\* A write is on its way: from here on a crash may or may not keep it.
Begin ==
  /\ Idle
  /\ \E m \in After(served) : writes' = Append(writes, m)
  /\ busy' = TRUE
  /\ UNCHANGED <<served, floor>>

\* The write is acknowledged: it shows, and survives what its policy says.
Acknowledge ==
  /\ busy
  /\ busy' = FALSE
  /\ served' = writes[Len(writes)]
  /\ floor' \in {[process |-> p, machine |-> m] :
                   p \in {floor.process, Len(writes)},
                   m \in {floor.machine, Len(writes)}}
  /\ UNCHANGED writes

\* checkpoint() and close() make everything acknowledged safe.
Secure ==
  /\ Idle
  /\ floor' = [process |-> Len(writes), machine |-> Len(writes)]
  /\ UNCHANGED <<served, writes, busy>>

\* The process ends, or the machine does.
Stop ==
  /\ served # Nothing
  /\ served' = Nothing
  /\ busy' = FALSE
  /\ UNCHANGED <<writes, floor>>

PowerLoss ==
  /\ served' = Nothing
  /\ busy' = FALSE
  /\ floor' = [floor EXCEPT !.process = floor.machine]
  /\ UNCHANGED writes

\* open() returns: a prefix of the history that holds what was promised.
Recover ==
  /\ served = Nothing
  /\ \E i \in floor.process .. Len(writes) :
       served' = writes[i] /\ writes' = SubSeq(writes, 1, i)
  /\ UNCHANGED <<floor, busy>>

Next == Begin \/ Acknowledge \/ Secure \/ Stop \/ PowerLoss \/ Recover

Spec == Init /\ [][Next]_vars
=============================================================================
