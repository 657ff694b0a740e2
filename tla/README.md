# StarryVector in TLA+

StarryVector is an embeddable vector database in C++: a row buffer with exact
search (`FlatIndex`), an approximate index (`HnswIndex`), a facade with a
reader/writer lock (`VectorDB`) and a directory-backed mode with snapshots and
a write-ahead log (`VectorDB::open`, `WalWriter`, `WalReader`). This directory
holds a model of it in TLA+, configurations that TLC checks on small instances,
and theorems that TLAPS proves for every value of the constants.

Run from this directory:

    tlc -workers 2 -config shared.cfg MCSharedDB
    tlapm SharedDBProofs.tla

`PROJECT.json` lists the runs, the lines each definition stands for, the
mutants that show each property can fail, the hazards and the findings.


## 1. The system

### Components, state and operations

| Component | State | Operations |
|---|---|---|
| In-memory tables (`db.cpp`, `flat_index.cpp`) | row buffer (`storage_`, `ids_`), live map `row_of_`, tombstones `deleted_` | `insert`, `insert_bulk`, `remove`, `get`, `save_body`, `restore_from_file` |
| Directory-backed engine (`db.cpp`) | the tables, `wal_`, `sync_`, `dir_`; on disk `snapshot.bin`, `snapshot.bin.tmp`, `wal.log`, `checkpoint.ok`, `starry.meta` | `open`, the mutators, `checkpoint`, `wal_sync`, `set_wal_sync`, `close`, destruction |
| Write-ahead log (`wal.cpp`) | one `FILE*`, the checksum table | `append`, `sync`, `truncate`, `close`; `next` on the reading side |
| Detached database (`db.cpp`, `flat_index.cpp`) | the tables, a private mapping of the file that was loaded | `save`, `load`, the mutators |
| Exact search (`flat_index.cpp`) | none | `search` with a bounded heap and a skip set |
| HNSW graph (`hnsw_index.cpp`) | nodes with levels and link lists, entry row, top layer, level generator | `add_row`, `add_rows_bulk`, `search`, `serialize`, `deserialize` |
| Bulk workers (`hnsw_index.cpp`) | an atomic counter, one plan per row of a wave | plan in parallel, link in row order |
| Reader/writer lock (`db.cpp`) | `rw_` | shared for readers and `save`, exclusive for mutators, `checkpoint`, `close` |
| Schema (`db.cpp`) | `starry.meta`, the snapshot header | written on creation, read by `open` |
| Distance kernels, name tables, programs, tests | none | - |

### How they interact

A public mutator takes the exclusive side of `rw_`, validates, appends one frame
to the log, syncs it as `sync_` asks, changes the tables and the graph, and
returns. `checkpoint` writes a snapshot to a temporary file, fsyncs it, renames
it over `snapshot.bin`, fsyncs the directory, empties the log and leaves a
marker file, `checkpoint.ok`, that says a snapshot must exist. `open` takes the
schema from `starry.meta`, or else from the snapshot's header or the caller, and
writes it down; it checks the marker, restores the snapshot (its rows stay in a
mapping of the file), replays the readable prefix of the log through the
ordinary mutators, and attaches the log for append. A search takes the shared
side, passes the tombstones to the index as a skip set and maps rows to ids. A
bulk insertion into an HNSW index cuts its rows into waves, plans the rows of a
wave on several threads against the frozen graph, joins them, and links alone.

### What is hard

- *Crashes.* A process or the machine may stop between any two effects of any
  operation, also during `open` and during a second recovery.
- *Three levels of loss.* A frame may be in the stdio buffer, in the kernel or
  on the medium; a rename may be visible but not durable; stdio and the kernel
  also write back early, on their own.
- *Calls that fail half way.* A checkpoint that fails leaves its first steps
  done; a failed sync leaves its frame in the log; the application goes on.
- *Directory entries.* Four files come and go under one directory; an entry that
  was not fsynced may be the old one after a power failure, file by file.
- *Threads.* Readers share the lock with readers and with `save`; a method that
  took the wrong side, or none, or both, would show only in some interleavings.
- *Workers.* Planners share a counter, the plan slots and the graph.
- *Stale pairs of files.* After a crash the log may be older than the snapshot,
  or reach back behind it.
- *Long legal histories.* Deleting and inserting one id again leaves two rows of
  it in the buffer, which later steps meet.
- *Graph bookkeeping.* Levels, back-links that are cut at the cap, entry rows
  that were deleted, waves planned against a frozen graph.

### What makes each component correct

- Tables: the three tables always describe one set of rows (`TablesOK`).
- Engine: it is a store that keeps its promise (`KeepsPromise`, a refinement):
  what a policy promised survives the crash it was promised against
  (`PromiseKept`); recovery gives exactly the snapshot followed by the read part
  of the log (`RecoveryContract`); there is no gap between the two
  (`NoGap`); the log is dropped only behind a durable snapshot
  (`DropOnlyDurable`); `open` refuses only for one known cause
  (`OnlyRepeatsRefused`). `RecoveryContract` and `NoGap` speak of logs that have kept
  their place in the history; what takes it from them is named in section 2.
- Schema and directory: rows are read under the schema they were stored under
  (`SchemaStable`); an `open` that returns serves what it owes (`Complete`); one
  that refuses has a reason (`RefusalJustified`). The first and the last have one
  exception, records that a power failure left without their schema.
- Log: the reader returns unchanged frames and misses none where it stops
  (`ReadsWhole`); they are the ones before the first damaged one
  (`PrefixContract`).
- Lock: the methods are linearizable (`Linearizable`, a refinement); log and
  snapshot together hold what memory holds (`DiskCoversMemory`); every call
  returns (`EveryCallReturns`).
- Detached database: what was saved loads and gives the same answers
  (`SavedIsLoadable`); a zero-copy view is still backed by its file
  (`ViewBacked`); exact search is exact (`SearchExact`).
- HNSW: every walk can index what it indexes (`GraphSound`); the beam search is
  graph search over live rows (`SearchIsReachability`); however narrow the beam,
  it does not give up early (`NoNearerNeighbour`); a restart does not change the
  graph (`RoundTrip`); where every row is nearest to itself a list names a row
  once (`LinksOnce`).
- Workers: no scheduling shows in the graph (`ScheduleUnseen`), no two workers
  fill one slot and none still plans when linking starts (`OwnSlot`), every bulk
  call returns (`CallReturns`).


## 2. The modules

| Module | Models | Notes |
|---|---|---|
| `VectorTables` | the tables, as operators on one record | used by four modules |
| `StorePromise` | abstract: a store seen by its user | no files |
| `DurableStore` | the directory-backed engine, its disk, crashes, failed calls, recovery | extends `VectorTables` |
| `DurablePromise` | the refinement mapping of `DurableStore` to `StorePromise` | |
| `StoreDirectory` | schema resolution and the directory entries of the four files | |
| `WalFrames` | the bytes of the log, what damages them, and the reader | |
| `AtomicDB` | abstract: calls that take effect in one step | extends `VectorTables` |
| `SharedDB` | one database, several threads, `rw_` | with the mapping to `AtomicDB` |
| `VectorDB` | a detached flat database, its files, exact search | extends `VectorTables` |
| `HnswOps` | descent, beam search, heuristic selection, both builders, the word stream of the graph | loops are recursive functions, so that they can be proved about |
| `HnswIndex` | the life of one graph: insert, bulk, soft delete, reload | extends `HnswOps` |
| `HnswBulk` | `add_rows_bulk` with its threads | extends `HnswOps` |
| `MC...` | constants for TLC | |
| `VectorTablesProofs` | lemmas on the operators of `VectorTables`; induction and recursion over positions | TLAPS |
| `DurableStoreProofs` | all properties of `DurableStore`, and the refinement of `StorePromise` | TLAPS, extends `DurablePromise` |
| `StoreDirectoryProofs` | all properties of `StoreDirectory` | TLAPS |
| `SharedDBProofs` | linearizability, the files and the types of `SharedDB` | TLAPS |
| `VectorDBProofs` | all properties of `VectorDB`, exact search with them | TLAPS |
| `WalFramesProofs` | all properties of `WalFrames` | TLAPS |
| `HnswIndexProofs` | all properties of `HnswIndex`: the graph, its persistence, search | TLAPS |
| `HnswBulkProofs` | all safety properties of `HnswBulk` | TLAPS |

Three levels meet in the log. `WalFrames` shows that a damaged file reads as a
prefix of its records (but see section 4), so `DurableStore` takes a log for a
sequence of frames with a possibly cut last one; `DurableStore` shows that log
and snapshot keep the promise, so `StoreDirectory` takes a logged mutation for a
set member and looks at the files as wholes; `SharedDB` leaves crashes to both
and looks at the threads, which `DurableStore` leaves out because `rw_` lets one
mutator run at a time.

Operators called "Mutant of ..." are not part of the model; each is a plausible
bug in the code the definition after it stands for, and some property fails
when it takes that definition's place.

### VectorTables

`t.rows` is the row buffer (`ids_` and `storage_`), `t.rowOf` is `row_of_` with
0 for a missing key, `t.deleted` is `deleted_`. `AddRow`, `AddBatch` and
`RemoveRow` are the tails of `insert`, `insert_bulk` and `remove` once the call
is accepted. `SaveImage`, `RestoreOK` and `Restore` are the database part of
`save_body` and `restore_from_file`: all rows are written, the map is built
again from the ids, a repeated id refuses the file.

### DurableStore

One operation runs at a time, because the exclusive side of `rw_` is held; it is
a chain of actions, one for each effect on a file, and `phase` is the place
reached.

| Action | Code |
|---|---|
| `Write`, `AppendFails` | validation and `wal_.append` in `insert`, `insert_bulk`, `remove` |
| `SyncRecord`, `SyncFails` | `wal_.sync(sync_)` under the three policies |
| `ApplyRecord` | the change of the tables and `return kOk` |
| `SaveTmp`, `FsyncTmp`, `Rename`, `FsyncDir`, `TruncateLog`, `CreateMarker`, `FsyncMarker` | `checkpoint`, step by step |
| `CheckpointFails` | each early return of `checkpoint` |
| `OpenDir`, `ReplayRow`, `ReplayDone`, `AttachWal` | `open`: marker, snapshot, `replay_wal`, `wal_.open` |
| `Close`, `Exit` | `close`, and the destructors |
| `ProcessCrash`, `MachineCrash` | the environment |

The log is the sequence of all frames given to `fwrite`, of which the first
`flushed` have left stdio and the first `synced` are on the medium. A crash
keeps any prefix from there on, and may cut the last frame. `snap.cur` is the
snapshot programs see, `snap.disk` the one a power failure leaves; a file whose
bytes were not fsynced may come back broken.

Auxiliary variables: `states` is the history of lookup maps, one per accepted
mutation (a mutation that is logged but not yet acknowledged counts, since it
may survive); `base` is the index in it that the start of the log stands for;
`promised` is the last index acknowledged to survive each kind of crash;
`aligned` says that frame k of the log still leads to state `base + k`. Four
events turn it FALSE: a frame is accepted behind a cut one (`Write`); a sync
fails and its frame stays (`SyncFails`); a log that ends before the snapshot
does is replayed over it (`AttachWal`); a process crash takes frames that only a
snapshot whose rename is not yet durable still holds (`Orphans`, in
`ProcessCrash`; it takes `kSyncOnClose`, whose frames can be in the stdio buffer
at the rename). `RecoveryContract` and `NoGap` name the flag, and section 4 says
what becomes of the data after each of the four. The flag is never set by
looking at a snapshot that could be undone: recovery from one leaves it as it
was, and that there is no hole then is the claim of `NoGap`.

### StorePromise and DurablePromise

`StorePromise` has no files: a history of maps (`writes`), the map that is
served, and `floor`, the last write acknowledged to survive a crash of each
kind. `Recover` may serve any write from the floor on. `DurablePromise` maps
`served` to the lookups while the directory is open, `writes` to `states`,
`floor` to `promised`, and calls a write busy from its frame to its
acknowledgement. A checkpoint maps to stutters and one `Secure`, a replay to
stutters and one `Recover`. The refinement is of `CoveredSpec`, for all three
policies. It leaves out one window for a crash: from the rename of a checkpoint
to the truncation of the log, as long as frames that the new snapshot covers are
still in a buffer that this crash can take (stdio for a process crash, the kernel
for a power failure). The truncation comes late if the checkpoint fails or the
process dies in between. Power failures of an unsynced log are otherwise part of
it. In that window the promise does not hold (section 4).

### StoreDirectory

| Action | Code |
|---|---|
| `Open`, `Resolve` | the start of `open`: `read_meta`, the snapshot's header, the caller's schema |
| `WriteMeta`, `WriteMetaFails` | `write_meta`, which truncates the file before it writes |
| `Recover` | the comparison with the explicit schema, the marker check, the checks of `restore_from_file` and `replay_wal` |
| `Attach` | `wal_.open`, which creates the log |
| `Write` | one accepted mutation under `kSyncAlways` |
| `Publish`, `SyncDir`, `Truncate`, `Mark`, `SyncMark`, `CheckpointFails` | `checkpoint` |
| `Exit`, `Crash`, `PowerLoss`, `Delete` | the environment |

`disk` is what programs see, `hard` what certainly survives; a power failure
brings each file back from either, independently. `owed` and `truth` are what
the application may count on: acknowledged writes and their schema. Once a
checkpoint has fsynced the directory (`secured`) nothing takes them away. Before
that a power failure may take any file; owed is then what the files that came
back hold, and the schema of these writes stays `truth`. It may also take
`starry.meta` and leave `wal.log`, with nothing to tell the schema of its
records: the directory is then `orphaned`, and the next caller's schema is
believed (section 4). `SchemaStable` and `RefusalJustified` name this exception
and no other.

### WalFrames

A file is a sequence of cells of four bytes; a checksum is the sequence of cells
it was computed from, so that it fails to notice no damage, except that the
checksum of nothing is the number zero. That exception is why a tail of zeros
would read as an empty frame, and the least length of 8 is what stops it.
`LogRecord` is `append`; `Readable` has the tests of `next`. The file is read and
written by turns, as `open` does it: `OpenReader` is `WalReader::open`, which
copies the file, `ReadRecord` a call of `next` that returns true and
`StopReading` the one that returns false, after which `OpenWriter` opens for
append wherever the reader stopped. A crash at any of these ends in a new
reader.

### AtomicDB and SharedDB

In `SharedDB` a method is a chain of steps, one per container or file it
touches, between `Lock` and `Leave`:

| Actions | Code |
|---|---|
| `Insert`, `MapId`, `AddVector`, `Revive` | `insert`, `insert_bulk`: log; then per row `row_of_`, the index, `deleted_` |
| `Remove`, `Unmap`, `Bury` | `remove`: log; then `row_of_`, `deleted_` |
| `Get`, `ReadVector` | `get`: the map, then the row buffer |
| `Search`, `Scan` | `search`: row by row with the skip set |
| `Size`, `Read`, `Set`, `Close` | `size`, the accessors, the setters, `close` |
| `StartSave`, `FinishSave`, `Publish`, `Truncate`, `NothingToDo` | `save`, `checkpoint`: rows, tombstones, rename, log |

`Side` is the table of which method takes which side. A read outside the buffer
would give `Garbage`; `TypeOK` says that `get`, between its lookup and its read,
has the number of a row of the buffer. `Redo` is what replay makes of one record,
`Replayed` of a log, as a function of the number of records. `AtomicDB` takes each call
in one step. The mapping gives it `settled`, the tables after the last mutator,
for its tables, and everything between invocation and `done` for "called", so
the effect is at the last step of each method.

### VectorDB

`view` names the file a loaded database reads its rows from until its first
insert. `Save` onto that file loses the rows, because the file is truncated
first; `faulted` is a database that lost its rows so. Vectors are points on a line;
`Consider` is one turn of the scan's loop, with the skip set tested after the
distance, as in the code; `ScanRows` is the bounded heap after each number of
rows, as a recursive function, so that it can be proved about.

### HnswOps and HnswIndex

The kernel is a constant, `Distance`, which gives each pair of vectors a number;
nothing is assumed about these numbers, so it stands for `kL2`, for the inner
product, where a row need not be nearest to itself, and for cosine. A vector may
be inserted any number of times. Rows at equal distances are taken in their
order of arrival; `std::sort` and the heaps leave that order open, and the models
and the theorems are about this one. A neighbour that the new row has chosen
twice learns of it twice (`BackLinked`). Levels come from an arbitrary finite stream in place of
the generator, so every outcome of the random draws is covered. `AddRow` is
`add_row`: `PlanRow` and `LinkRow` at once. `AddBulk` is `add_rows_bulk` with its
waves: a row is planned against the graph its wave found and linked to the one
there is. `Serialize` and `Deserialize` work on a stream of words and keep every
check of the loader.

A loop of the code is a recursive function over the number of turns. Where the
code has `while (true)`, the number of turns is a bound: `Len(g.nodes)` moves of
the greedy descent, `Turns` turns of a beam. A beam that has stopped stays as it
is, and that every beam has stopped after `Turns` turns is proved (`WalkEnds`), so
the bound cuts nothing off.

### HnswBulk

`Call`, `StartWave`, `Join`, `LinkNext` and `FinishCall` are the calling thread,
`Take` (the `fetch_add`), `DescendForPlan` and `PlanLayer` any worker, the caller
included. A planner reads the graph once per layer, so a link made too early
would be seen by a part of a plan. `pool` is the number of helpers the machine
has, none included; a wave of one row starts none. The reference for the result
is `AddBulk` of `HnswOps`, in which nothing is concurrent.


## 3. What is checked

| Run | Question | Bounds |
|---|---|---|
| `durable_process` | Is the engine a store that keeps its promise, under every policy, through process crashes, power failures and failed checkpoints that do not fall into the window of `CoveredSpec`, with ids deleted and inserted again? Do the tables stay consistent through replay? | 2 ids, 2 vectors, no batches, 4 states, 3 frames, 3 mishaps |
| `durable_relaxed` | Under every policy, both crashes at any moment, cut frames, failed appends, syncs and checkpoints: is the recovered state exactly what snapshot and log hold, with no gap; what can make `open` refuse; when is the log dropped? | 2 ids, 1 vector, 3 states, 3 frames, 2 mishaps |
| `directory` | In a new or an old directory, through crashes, power failures, failed calls and deleted files: is anything owed missing; is the schema ever mixed up, or a refusal without a reason, other than by the loss of a `starry.meta` that no checkpoint has secured? | 4 schemas, one and three that differ from it in one field each; 2 writes; 4 mishaps |
| `wal_frames` | Wherever the log is cut, zero-filled or damaged: does the reader return only frames that were written, and exactly those before the damage? | frames up to 32 bytes, 3 appends, 2 faults |
| `shared` | Are the methods linearizable under their sides of the lock, do log and snapshot follow memory, does every call return? | 3 threads, 3 calls of 11 requests, 1 row loaded |
| `db_flat` | Exact search after any mix of writes, saves and loads; zero-copy views; loading what was saved | 3 ids, 2 points, 2 paths, 3 rows |
| `hnsw` | Soundness of the graph, its persistence, which lists name a row once, what search reaches and that it does not stop early, over every level stream and order of insertion | L2 on 3 points, 4 rows of which 2 may be equal, layers 0 and 1, M = 2, batches of up to 3 in waves of 2, reloads of one row |
| `hnsw_bulk` | Can the number or the scheduling of the workers be seen in the graph; does every bulk call return? | L2 on 3 points, 4 rows, any of them equal, layers 0 and 1, M = 2, waves of 2, batches of 2 and 3, the caller and up to 2 helpers |
| `bug_*` | One documented promise each that the code does not keep (section 4) | as small as the counterexample allows |

The bounds are chosen for the interesting cases. Two ids suffice for a batch, a
remove of one id among others, and a revived id; three frames let a snapshot
cover some frames of the log and not others; two or three mishaps give a crash
during the recovery from a crash, or a failed checkpoint followed by a crash.
In the directory four mishaps give a cut `starry.meta`, a power failure in the
`open` that rewrites it, and deletions of both files behind them. In the log a
cap of 32 bytes is met exactly by a batch of two rows and exceeded by one of
three; two faults give a cut behind which more is appended and cut again. One
record ends in the number that is the length of a frame, so that a frame cut by
one cell can be completed by the next (section 4). Two threads give every
conflict of a reader or writer with a writer; the third gives a reader beside a
reader while a writer waits. For the flat database three rows fill the heap at k
= 1 and k = 2, with a tie. Three points on the line at 0, 1 and 3 have three
different distances; four rows of them hold an equal pair, with its ties. With
M = 2 the upper layer's cap is 2 and a fourth row overflows it; on layer 0 the
cap of 4 is overfull only when a row is linked twice. A wave of 2 in a batch of
3 gives a full wave behind the entry row of an empty graph and, in a graph with
rows, a full wave and a rest of one row, which starts no helper. `MaxRows` also
bounds the levels drawn. `MaxTwins` lets one row repeat a vector in `hnsw` (the
theorems have no such bound, and `hnsw_bulk` repeats freely). A reload changes
only the level generator, so `MaxReload` bounds how late one comes; whether a
graph can be reloaded is what `RoundTrip` says of every graph.

Limits of the runs, by intent:

- `durable_process` leaves out failed appends and syncs, cut frames and crashes
  in the window of `CoveredSpec`: with them the promise does not hold
  (`bug_torn_tail`, section 4). `durable_relaxed` has all of them, and batches,
  and checks the properties that survive; the theorem `StoreKeepsPromise` has
  batches too.
- In `directory` an operator deletes only behind a checkpoint that returned: a
  crash between the truncation and the marker, and the loss of the snapshot on
  top, is not noticed by `open`.
- `db_flat` never revives an id: see `bug_stale_row`.
- `hnsw` and `hnsw_bulk` use L2. `bug_inner_product` has the inner product, and the
  theorems any kernel. `LinksOnce`, and the second half of `RoundTrip`, speak of
  graphs whose rows are all nearest to themselves, which they are under L2 and
  cosine as long as no vector is repeated; what happens to the others is in
  section 4.
- `shared` has no failed calls and no crashes; records are logged and snapshots
  published in one step each.
- Deadlock is checked, except where the system may really stop: an HNSW
  application that has used all its points; a database that was saved over the
  only file of its rows and has nothing left (`db_flat`); threads that made all
  their calls (`shared`).
- Ids, vectors, writes and paths that are only compared are symmetric, in runs
  without liveness; `shared` and `hnsw_bulk` use no symmetry.

### Fairness

`SharedDB` assumes weak fairness of `Proceed(th)` for every thread: the operating
system runs every thread that can run. Nobody is made to call. Nothing is
assumed about the order in which `rw_` admits waiting threads, since
`std::shared_mutex` promises none: a writer could starve under an endless stream
of readers, and `EveryCallReturns` is therefore about the finitely many calls
that `MaxCalls` allows. What it excludes is a wait that can never end, such as a
method that locks `rw_` a second time.

`HnswBulk` assumes weak fairness of the caller (`StartWave`, `Join`,
`FinishCall`) and of each worker's `Take`, and that planning and linking, once
begun, end (`[]<>`). The latter is what weak fairness of these steps implies:
they wait for nobody and each is a bounded loop. It is written this way so
that TLC need not evaluate a graph search to see whether a step is enabled.
`CallReturns` then rests on the join: it waits for the helpers of this wave and
for no others.

The engine, the directory and the single-threaded databases are straight lines
of code under one lock; no liveness is claimed and no fairness assumed there.


## 4. Where code and documentation part

Four have a run with a shortest trace.

| Run | What happens |
|---|---|
| `bug_replay_repeats` | insert, remove, a checkpoint that crashes after the rename, reopen: replay inserts the removed id again behind its old row; the next checkpoint writes the id twice and empties the log, and `open` refuses the directory for ever |
| `bug_torn_tail` | a cut frame is never cut off; acknowledged, fsynced frames behind it are not read by the next recovery |
| `bug_stale_row` | reviving an id lifts its tombstone, and the old row is a hit again, at the distance of the deleted vector |
| `bug_inner_product` | four different vectors under the inner product: a row is linked twice, a list gets longer than the number of rows, and the file that `save` wrote is refused |

`bug_replay_repeats` contradicts db.cpp:617-619, which calls the stale log's replay
idempotent. It is for lookups, which `RecoveryContract` compares, and not for the
row buffer that the next snapshot is made of. The application inserts nothing
twice in it; one that does, since "deleted ids may be re-inserted"
(db.cpp:270-271), gets there with insert, remove, insert and a checkpoint,
without any crash.

Met while modelling, without a run of their own:

- A mutation refused with `kIoError` because the sync failed (db.cpp:265) is in
  the log and is there after reopening; db.hpp:168-169
  calls the reopened state "a consistent prefix of the acknowledged write
  sequence".
- A cut frame can be completed by the frame appended behind it, when the length
  at the head of that frame has the bytes that were cut off. The reader accepts
  the first, goes on in the middle of the second, and can no longer return it;
  if a later crash cuts at just that place, it returns the frames appended after
  that too, a log with a hole. wal.hpp:20-23 promises that a torn tail is dropped
  and that what precedes it is applied. `Apart` names the logs in which this did
  not happen; `ReadsWhole` holds in the others as well.
- `save` onto the file a loaded database still reads its rows from (db.cpp:407)
  truncates that file under the mapping; db.hpp:145-147 names no such limit.
  `VectorDB` has the step, and its properties say that nothing else does this.
- When the greedy descent ends at a deleted row, the beam starts without a live
  row and HNSW search answers with nothing (hnsw_index.cpp:132).
- The entry row of a beam is not marked visited and can take two of the k places
  (hnsw_index.cpp:135).
- A row that is not strictly nearest to itself: because the entry row is queued
  twice and a candidate is dropped only when it is strictly nearer to a chosen
  row than to the new one (hnsw_index.cpp:101), such a row is chosen twice, and
  the back-link loop (hnsw_index.cpp:263-270) then appends the new row twice to
  its list. Under the inner product different vectors suffice: the rows 1, 2, 3, 4
  in one dimension with M = 16 give row 0 the links 1, 2, 2, 3, 3. Under every
  metric equal vectors do: with M = 16, 4 to 31 equal vectors give a list longer
  than their number. `save` returns `kOk` and `load` refuses the file
  (hnsw_index.cpp:602), although db.hpp:150 says load "Restores a database
  previously written by save()". With as many rows as a list can hold, 2M, the
  loader takes the graph with its repeated links. `hnsw` has equal vectors,
  `bug_inner_product` the other case.
- The directory entry of a new `wal.log` is not fsynced before the first
  checkpoint (db.cpp:797): a power failure can take the whole log, although
  kSyncAlways "loses nothing that was acknowledged" (db.hpp:190-191).
- A log that exists and cannot be opened for reading counts as missing
  (wal.cpp:149-157): `open` returns `kOk` without its records.
- An HNSW database without rows saves an entry row of -1, which `deserialize`
  refuses (hnsw_index.cpp:583): the file, or the directory after a checkpoint,
  cannot be opened.
- `starry.meta` is not fsynced with its directory entry either (db.cpp:120): open
  a fresh directory as L2, write under kSyncAlways, and let a power failure keep
  `wal.log` and take `starry.meta`. A caller who opens it with another metric and
  the same dimension is served the rows under that metric; one who names no
  schema is refused; db.hpp:172-174 says existing directories derive the schema
  from `starry.meta` and reject a conflicting one. `StoreDirectory` has the case,
  as `orphaned`.
- Under a relaxed policy a power failure after a rename can keep the new
  snapshot and lose part of the log it covers. Replaying the rest over the newer
  snapshot gives a state that never was, where db.hpp:168-169 promises "a
  consistent prefix". With `kSyncAlways` alone it takes process crashes
  between append and fsync in addition, whose frames are replayed, go into the
  snapshot and are on the medium only with the next record.
- Under `kSyncOnClose` a hole is possible: insert a, whose frame stays in the stdio
  buffer; a checkpoint that gets as far as the rename; the process dies, and the
  frame with it. Reopened, the directory has a from the snapshot. Insert b under
  `kSyncAlways`; a power failure undoes the rename. The next recovery gives b
  without a, which is no prefix (db.hpp:166-169). `ProcessCrash` has the step
  (`Orphans`), and `NoGap` holds of every other log.
- A crash between the truncation and the marker (db.cpp:635-646), and the loss of
  the snapshot on top, is served as an empty database; db.cpp:638-640 wants it
  refused.
- Replay inserts a bulk record row by row; the comment at db.cpp:698-699 calls
  the result identical, hnsw_index.hpp:24-26 says the two builds differ. For the
  tables it is identical, which is the theorem `AddBatchOneMore`.
- The level generator starts over when a graph is loaded. The model does this
  (`drawn` in `Reload`); no property needs the levels to be independent.
- The comment at hnsw_index.cpp:387-389 on layers above the frozen graph: two
  such rows in one wave stay without links to each other there.


## 5. What is proved

All theorems hold for every `Ids`, `Vecs`, `Policies`, `CrashKinds`, `Faults`,
`Ops`, `Threads`, `Calls`, `Loaded`, `Schemas`, `Writes`, `Points`, `Distance`, `M`, `Ef`, `Wave` and bounds that satisfy
the named assumptions of the modules (`NoVec` is not a vector, policies are among
the three, requests are well formed, no file is equal to the mark of a missing
one, `Distance` gives pairs of points integers, `M` and `Wave` are not 0, bounds are natural
numbers). Symmetry and the bounds of the runs play no
part in them.

| Theorem | States | Given |
|---|---|---|
| `TypeCorrect` | `Spec => []TypeOK` | |
| `TablesAgree` | `Spec => []TablesOK` | |
| `LogDroppedOnlyDurable` | `Spec => DropOnlyDurable` | |
| `NoGapHolds` | `Spec => []NoGap` | |
| `RecoveryContractHolds` | `Spec => []RecoveryContract` | |
| `RefusalsExplained` | `Spec => []OnlyRepeatsRefused` | |
| `PromiseIsKept` | `CoveredSpec => []PromiseKept` | `Faults \subseteq {"ckpt"}` |
| `StoreKeepsPromise` | `CoveredSpec => KeepsPromise`, the refinement | the same, `Ids # {}` |
| `TypesHold`, `SchemaIsStable`, `CompleteHolds`, `RefusalsAreJustified` (StoreDirectoryProofs) | `TypeOK`, `SchemaStable`, `Complete`, `RefusalJustified` of every behaviour of `Spec` | |
| `SharedIsLinearizable` | `Spec => Linearizable`: every interleaving implements `AtomicDB` | |
| `UnlockedIsSettled` | whenever nobody owns the lock, memory is what the last mutator left, and consistent | |
| `TypesHold`, `DiskHoldsMemory` (SharedDBProofs) | `TypeOK`, `DiskCoversMemory` | |
| `TypesHold`, `ViewIsBacked` (VectorDBProofs) | `TypeOK`, `ViewBacked` | |
| `SavedLoads`, `SearchIsExact` | `SavedIsLoadable`, `SearchExact` | `"reinsert" \notin Ops` |
| `TypesHold`, `ReadsWholeFrames`, `PrefixContractHolds` (WalFramesProofs) | `TypeOK`, `ReadsWhole`, `PrefixContract` | |
| `IndexTypes`, `IndexGraphSound`, `IndexLinksOnce`, `IndexRoundTrip` | `TypeOK`, `GraphSound`, `LinksOnce`, `RoundTrip` of every behaviour of `HnswIndex`, for any `Distance` | |
| `IndexSearchIsReachability`, `IndexNoNearerNeighbour` | `SearchIsReachability`, `NoNearerNeighbour`, for every beam width and set of tombstones | |
| `BulkTypes`, `SlotsAreOwned`, `ScheduleIsUnseen` | `TypeOK`, `OwnSlot`, `ScheduleUnseen`, for any number of threads | |
| `AddBatchOneMore` | a batch is its rows inserted one after the other, as replay does | |
| `RestoreConsistent` | the tables the loader builds agree with each other, whatever the image | |

The hypotheses are those of the runs, and each is needed. A failed append leaves
a cut frame behind which later frames are lost (`bug_torn_tail`), a failed sync a
frame that was refused; `PromiseIsKept` has neither, nor crashes in the window of
`CoveredSpec`, and `RecoveryContractHolds` says what is left with all of them.
Inserting a deleted id again gives two rows of one id (`bug_stale_row`).

*The engine.* `TablesOK` alone is not inductive: the tables change by what is
*in the log* (`ApplyRecord`, `ReplayRow`) or *in a snapshot* (`OpenDir`).
`TypeInv` adds that every frame is well formed (`FramesSound`: the rows of an
insert, the distinct ids of a batch, one id of a remove), that the frame in
flight passed validation against the current tables (`InFlight`), and that the
replay cursor stands at a row of a frame (`CursorOK`). The lemmas of
`VectorTablesProofs` say that each operator on the tables keeps types and
consistency under its caller's check; `TypeInvHolds` has one step per action.

`DropOnlyDurable` speaks about files, so it needs `Saving`: at each phase of a
checkpoint the temporary file, then the visible, then the durable snapshot is
the image of the current tables, intact and fsynced from `FsyncTmp` on.
Nothing else runs in these phases, which is where the lock enters the argument.

`NoGap` also needs that the log starts inside the history (`BaseInHistory`), and
`Reaches`: as long as a power failure may undo the rename, an unbroken log
reaches from the old snapshot as far as the new one. `GapInv` is the conjunction
of all of these. Truncation moves `base` to the end of the history exactly when
`Saving` makes the durable snapshot reach there; a power failure leaves one of
the two snapshots, and both reach the base. Recovery from a snapshot whose
rename is not durable starts the log at the state it restores only if nothing of
the log was read; by `Reaches` the two snapshots are then the same. A process
crash keeps `Reaches` except where `Orphans` says that it does not.

*Recovery.* `RecoveryInv` ties the files to the history `states`. `LogLeads`:
frame k of an unbroken log leads from `states[base + k - 1]` to
`states[base + k]`, id by id (`Leads`), and only cut frames follow a cut one.
`SnapSound`: the snapshot of index `at` restores to `states[at]`. `MemCurrent`:
while the directory is open memory is the last state, or the one before it while
a call is in flight. `Covered`: the frames up to a promised state have left
stdio, or are on the medium. `Replaying` is the invariant of the loop in
`replay_wal`. Replay may start *behind* the snapshot, and a frame that is
already in it is refused row by row with `kDuplicateId`, or applied over it, so
memory need not be any state of the history in between. What holds at every row
is said id by id: an id has the vector that the rows replayed so far give it
(`Target`), or, only as long as the log is behind the snapshot (`StaleLog`), the
one of the snapshot. When the log has been read as far as the snapshot reaches,
the second case is gone, and lookups equal the state after the last frame. That
is `RecoveryContract`. `OnlyRepeatsRefused` needs less, that a file which programs see
was written whole (`FilesIntact`).

*The promise.* `CoveredInv` adds to `RecoveryInv` what the hypotheses of
`CoveredSpec` buy: `aligned` never turns false, no frame is cut, and the log, with
the record being written left aside, reaches as far as the snapshot that `open`
restores. A crash keeps that because `CoveredNext` lets it come only where the
frames that survive it reach that far; everywhere else it follows from
`LogComplete` (`LogCoversSnapshot`). Recovery then serves
`states[base + Len(log)]`, which `Covered` puts above the floor. The refinement
maps every action: `Write`, `ApplyRecord` and the checkpoints to a write, its
acknowledgement, `Secure` or a stutter, the end of a replay to `Recover`.

*The directory.* A power failure gives each file back from `disk` or from
`hard`, so an invariant about `disk` alone is lost at once. `DirInv` relates the
two (`Behind`: what is certain of a file is what programs see, or nothing, or an
older snapshot of the same schema) and then states for both what every mixture
has to satisfy: one schema, and a file to find it in (`OneSchema`); every owed
write in the certain snapshot, or in the log that is certain (`Held`). `Lost` is the
one exception, a published snapshot that an operator deleted; `checkpoint.ok` is
certain there, so nothing is served. `Opened` says what each phase of `open` and
`checkpoint` rests on. `DirInv` was checked by TLC before it was proved, and
`RefusalJustified` follows from it step by step.

*The threads.* `Linearizable` needs an inductive invariant of three parts. `Shape`
types the object. `LockInv` says that a thread inside a method holds the side
its method takes, and that an owner excludes everybody else (`WritersExclude`).
`DataInv` says what the local variables of a thread are worth while it holds its
side (`ThreadOK`): a reader's row number is that of a row, the hits so far are
those of the rows scanned, the image begun is that of the tables; and between
the steps of a mutator memory is `settled` with a part of the change done
(`Half`). For an insertion the part is the first rows of the batch and, within
a row, the map, then the buffer, then the tombstone. Each step then either
changes no part of the abstract state (`StayStep`) or is the last of its method
and maps to `TakeEffect` (`LeaveStep`); the other threads keep their part of
`DataInv` because the lock excludes them (`DataAlone`) or because nothing they
read changed (`DataKept`). The last row of an insertion needs `AddBatchOneMore`:
the rows added one by one are the batch of `AtomicDB`. `wal_sync` takes no lock
and needs none of this, since it reads one value once.

`DiskCoversMemory` holds only between the calls of writers; `JournalInv` says
what the files hold inside of them. From the append to the last step of a
mutator the replayed log is one record ahead of `settled`; at "publish" the
thread holds the image of `settled`; at "truncate" the snapshot has it while the
log still holds its records, and replaying it would be wrong; everywhere else
the replayed log is the image of `settled`. `ReplayedAppend` says that a record
more is one step more of the replay, `RedoInsert` and `RedoRemove` that a record
does to an image what its call does to the tables.

*The detached database.* `ViewBacked` needs types only. The other two need that
no id has two rows (`FreshOnly`), which inserts of fresh ids keep. Exactness of
the search is an induction over the rows: `Found` says of the heap after n rows
that it is ordered, holds distinct live rows of the first n, at most k, and that
a live row among them which it does not hold is no nearer than any it holds,
with the heap full. `KeepRow` is the case in which a row is placed and one may
fall out, `ConsiderRow` the whole turn of the loop.

*The log.* Damage can be anywhere, so the invariant cannot be about whole frames.
`FramesInv` says of every *single* checksum in the file that it stands two cells
behind the start of a frame that the writer put there, and is the checksum of
that frame's payload (`SumsSound`); this survives every cut, every run of zeros
and every bad cell. A position at which `next` succeeds has such a checksum
behind it, so a whole frame begins there (`ReadableIsWhole`); `WholeIsReadable` is
the converse, and both rest on `RecordOfBody`: the reader's decoding inverts the
writer's layout. `ReadsWhole` follows record by record. For `PrefixContract` the
frames lie in the order of the log (`Sorted`), so the frame at the end of the
last one read is the next of the log, if none between them was begun inside the
last one (`Apart`). The checksum is injective in the model, by construction of
its cells; the theorems say nothing about damage that CRC-32 does not see.

*The graph.* `IInv` is `Sound(graph)` and the bounds of the level generator.
`Sound` says of every link list that it names rows of its own layer, never its
owner, at most `Cap` of them; that it names each once, if every row is nearest to
itself (`Once`); and that the entry row is one of the top layer. With that alone every walk stays where it is: a step of the descent
(`GreedyStays`), a turn of the beam (`TurnStays`), hence what a plan holds
(`Planned`). A bulk row is planned against an older graph, and `PlanKeepsFitting`
says why this is harmless: rows are only added, their levels and points never
change, and the layers above the frozen top stay empty in the plan. That the
heuristic keeps no row twice follows from its own test (`SelectIs`): a row that
comes again was kept already, and is nearer to itself than to the new row. This
is the one place where the metric matters, and where it does not put every row
nearest to itself nothing is said about repetitions, only about the length of
the list. `Linked`
joins these: the new row's lists, the lists that learn of it, the lists that are
selected again.

*Persistence.* The word stream is read back list by list (`ListRead`), node by
node (`NodeRead`), row by row (`LoadsBack`): `Holds` says that the stream has a given
piece at a given place, `ChainHolds` that a stream built by appending has all its
pieces where the reader will look. Each check of the loader passes because
`Sound` says so, but for one: the bound of a list length by the number of rows. It
holds where lists name rows once (`NoLongerThanRows`), or where there are as many
rows as a list can hold. Where it does not, the loader refuses, and never takes
the stream for another graph (`RowsSeen`). An empty graph is refused
(`EmptyIsRefused`), as section 4 says.

*Search.* `Walked` is the invariant of the turns of `search_layer` on layer 0.
`Confined`: candidates, results and the neighbours still to do are in every set
that holds the start and is closed under links through live rows. `Collected`:
there are never more than `ef` results, and as long as there are fewer every
live row met is one of them. `Closest`: no live row met is nearer than the first result.
`Pending`: a result is still a candidate, or all its live neighbours were met or
are next. When the walk has ended (`Halts`) these four give the two theorems:
with room left no candidate is left either, so the results are closed
under links (`WalkReaches`); and the first result cannot be a candidate, since the
nearest candidate is then farther than the last result (`WalkIsNearest`). The
walk does end: `Fuel` counts 1 + 2M turns for each candidate and each row not
yet visited, and each neighbour to do; every turn burns some (`FuelBurns`), and
`Turns` is what there was at the start.

A wider beam is not in general a better one, and nothing is claimed about it:
`Closest` is about the rows that were met, and which rows those are depends on the
width.

*The workers.* `Safe` types the threads (`Threads`), relates the wave to what is
planned and linked (`Waves`), says that the counter is the next row nobody has
taken (`Counted`), and that each slot below it is owned by one planner or
finished (`Slots`). `OwnSlot` follows. For `ScheduleUnseen` two more are needed.
`Planned`: a planner at a layer has what `PlanRow` has at that layer for the
frozen graph, and a finished slot is `PlanRow` of it; it is kept because nothing
is linked while anybody plans. `OnCourse`: the graph together with the rest of the
call is at a prefix of the build that `AddBulk` makes alone, and a wave begins
exactly where `AddToWave` freezes a new graph.

*Induction.* The library's induction theorems take an operator as parameter and
cannot be instantiated by the provers here. `UpTo` states induction of a *set* of
positions, from the least element that well-foundedness gives (`LeastNumber`),
and `Recursion`, or `Iterates` where every turn has its own domain, that a function
which iterates a given step exists. With these `ScanRows`, `After` and the loops
of `HnswOps`, which are recursive functions over positions, are shown to be what
their definitions say.

Only model-checked: `EveryCallReturns` and `CallReturns`, which are liveness under
fairness; TLAPS proves no ENABLED. Every safety property, action property and
refinement that a passing run checks is a theorem.


## 6. What is not modelled, and the plan

Left out, with the reason:

- The bytes of a snapshot (header fields, section lengths, the product of the
  tombstone count that can wrap) and a checksum that accepts damage.
- Floating point, the kernels and their dispatch. The order that `std::sort` and
  the heaps give to equal distances in HNSW: one order is modelled.
- Failing `freopen` in `truncate`, failing `wal_.open` in `open`, and an fsync of
  the emptied log that fails: what follows is undefined or would need another
  level of the log's durability. For the same reason a log that exists and
  cannot be read.
- Two processes on one directory: nothing in the code prevents it, the models
  take one.
- Two databases of one process that build the checksum table at the same time,
  and in general what a C++ data race may do beyond reading an old or a new
  value.
- HNSW under the lock: `SharedDB` scans flat rows. A search of the graph reads more
  state, under the same shared side.
- Name tables, the benchmark, the demonstrations and the tests have no state of
  their own; they were read for what they expect.

Done: every component of section 1 that keeps state, two refinements, and a proof
of every safety property that the passing runs check. What would come next:

1. Which rows of a layer the layer-0 links reach from the entry row, and what
   cutting a list at its cap or deleting rows does to it: `SearchIsReachability`
   says that search finds what can be reached, not how much that is.
2. HNSW behind the lock: `SharedDB` with the graph in place of the flat rows.
3. Equal distances in the beam as a choice of the next state, instead of one
   order, so that the theorems hold for each order of the heaps.
