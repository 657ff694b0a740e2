--------------------------- MODULE DurablePromise ---------------------------
(***************************************************************************)
(* DurableStore implements StorePromise, under every policy, as long as no *)
(* frame is cut, no append or sync fails, and no crash meets a snapshot    *)
(* that is ahead of the log; RecoveryContract says what holds otherwise.   *)
(* The map is served from the moment open() returns; a write is busy from  *)
(* its frame in the log to its acknowledgement.                            *)
(***************************************************************************)
EXTENDS DurableStore

\* A crash comes only while the frames that are certain to outlive it reach
\* as far as the newest snapshot.  This leaves out one window: from the rename
\* of a checkpoint to the truncation of the log, which comes late if the
\* checkpoint fails or the process dies in between, as long as frames that the
\* snapshot covers are still in a buffer.  The power fails there and takes a
\* part of them: replaying the rest over the snapshot steps back (StaleLog).
\* Or the process dies there under kSyncOnClose (Orphans).
CoveredNext ==
  /\ Next
  /\ ProcessCrash => snap.cur.at <= base + flushed
  /\ MachineCrash => snap.cur.at <= base + synced

CoveredSpec == Init /\ [][CoveredNext]_vars

Serving == phase \notin {"down", "replay", "replayed", "refused"}

Promise == INSTANCE StorePromise WITH
  served <- IF Serving THEN Lookup(mem) ELSE <<>>,
  writes <- states,
  floor  <- promised,
  busy   <- phase \in {"logged", "durable"}

\* Whatever the order of writes, checkpoints that succeed or fail, crashes
\* of the process, power failures and recoveries, within CoveredSpec: the
\* engine is a store that keeps its promise (db.hpp).
KeepsPromise == Promise!Spec
=============================================================================
