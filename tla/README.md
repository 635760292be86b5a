# GART in TLA+

GART keeps a graph view of a relational database up to date while analytical
programs read consistent snapshots of it. This directory holds TLA+ models of
the parts of GART that carry its consistency argument, TLC configurations that
check them on small instances, and TLAPS proofs of the properties that should
hold on every instance.

Paths below are relative to the root of the repository unless they name a
module.

- [The system](#the-system): components, state, interactions, what is hard
- [The modules](#the-modules): how state and actions correspond to the code
- [The runs](#the-runs): what is checked, bounds, fairness
- [Further configurations](#further-configurations): where the code falls short
- [The proofs](#the-proofs)
- [What is not modelled](#what-is-not-modelled)
- [Plan](#plan)

Running it, inside this directory:

    tlc -workers 2 -config MCRunner.cfg Runner      # a run of PROJECT.json
    tlapm EpochTableProofs.tla                      # a proof module

## The system

    database --Debezium/Maxwell--> binlog (Kafka)
        --> converter --> unified log (Kafka)
              --> writer of fragment 0 --> graph store in vineyard shared memory
              --> writer of fragment 1 --> ...          + keys in etcd
                                                  |
      readers: analytical apps, GRIN, networkx, interactive engine, pgx

| Component | State | Operations | Made correct by |
|---|---|---|---|
| Converter (`converter/`) | parser threads, three bounded queues per thread, global-id counters, epoch, offset of the last unified log | consume, parse, collect, number, produce, catch up after a restart | the unified log is what one thread would write, each entry once; ids dense; epochs never decrease |
| Writer process (`vegito/src/framework/bench_runner.*`) | position in the log, current epoch, with `USE_MULTI_THREADS` a queue and one flag per thread | consume, apply, barrier, publish, restart | what is published for an epoch is exactly its prefix of the log; nothing is lost; every epoch is published in the end |
| Log operations (`vegito/src/graph/graph_ops/`, `graph_store.*`) | vertex table with two ends, adjacency lists in both directions, delete counters | add/delete vertex and edge, `update_blob` | each published epoch shows the graph of the tables at that time, in every fragment |
| SegGraph (`vegito/src/seggraph/`, `vegito/include/seggraph/`) | segments, chains of edge blocks, epoch tables, vertex futexes, one shared mutex per segment, recycle list | `put_edge`, `merge_segment`, `recycle_segments`, `get_edges` | no edge lost or reordered; a reader of epoch *e* sees exactly the edges of epochs up to *e* without a lock |
| Iterators (`interfaces/fragment/iterator.h`, `vegito/.../edge_iterator.hpp`) | cursor, priority queue of delete offsets | `find_next_valid_cursor` | exactly the undeleted entries are returned |
| Reader fragment (`interfaces/fragment/gart_fragment.h`) | pointers into shared memory, read epoch | locate a segment, get edges, vertex ranges, properties | as for SegGraph, from another process |
| Epoch selection (`apps/analytical_engine/test/run_gart_app.cc`, `scripts/controller.py`) | one etcd key per fragment | read all keys, take the least, read that epoch's blobs | the blobs of the chosen epoch exist in all fragments |
| Property store (`vegito/src/property/`, `memory/buffer_manager.*`) | versioned column pages in one buffer, strings, external ids, vertex maps | insert, update, copy a page, get at an epoch | a published epoch keeps its values; no two columns share a page; its vertex map is not taken away |
| Id numbering (`add_edge.cc`, `id_parser.h`, `gart_fragment.h`) | outer vertices per fragment and label, maps between local and global ids | register an outer vertex, translate ids, vertex ranges | what all fragments hold together is the graph; local ids are unique |
| Message manager (`apps/analytical_engine/core/parallel/`, `core/worker/`) | channels, sending queue, two receive queues, flags, three threads per worker | start and finish a round, send, receive, vote, finalize | a round sees the messages of the round before, all of them and no others; the query ends, at a fixed point |
| Applications (`apps/analytical_engine/apps/gart/`) | an array of results per label | PEval, IncEval of SSSP, WCC, PageRank | the results are those of the graph, however it is cut into fragments |
| Controller (`scripts/controller.py`) | `previous_read_epoch`, one epoch per executor | change the epoch read, list epochs, run a job | all executors show one snapshot; every request is answered (both only as far as curl reaches the executors) |
| Blob schema, RGMapping, GRIN, front ends, loaders, coordinator, the vendored engine | | | see [What is not modelled](#what-is-not-modelled) |

How they interact. Kafka orders the logs between the processes; every writer
reads every log and keeps the part its fragment owns. Writers and readers share
memory: a reader loads pointers the writer is changing. Writers tell readers
about epochs through etcd, one key per epoch and fragment and one key with the
latest epoch per fragment. Inside a process, converter threads meet at bounded
queues, and the optional apply threads of the writer at one queue and a barrier.
The workers of an analytical query meet in MPI messages and one all-reduce per
round. The controller reads the writers' keys and tells executors, over HTTP,
which epoch to read.

What is hard. Four unlocked loads of a reader against the writer's appends,
table replacements, block growth, merges and recycling; the lock hand-over in
`put_edge` between shared and exclusive mode; markers that name entries found by
a search that does not look at older markers; publication against application
of the next epoch's first log; keys read one at a time while writers publish,
die and start again; flags of several threads packed into one word; parallel
parsing that must be undone by the collector, with timeouts that take a turn;
restarts that replay everything; pages that are visible before they are written;
receive queues used in turn by rounds that overlap; a controller that reads keys
one by one and claims an epoch before anybody shows it. `PROJECT.json` lists each hazard at its line
with the properties that cover it.

## The modules

| Module | Models | Uses |
|---|---|---|
| `EpochTable` | one adjacency list: the abstract protocol between the writer and lock-free readers | |
| `SegGraph` | a segment of vertices with blocks, merges, tables, locks, recycling, both readers | implements `EpochTable` (mapping in `SegGraph`, instance in `MCSegGraph`) |
| `Markers` | lists with delete markers, the iterator as a function | |
| `EdgeScan` | the iterator as a step-by-step algorithm | `Markers` |
| `GraphStore` | the stores of all fragments under the log operations | `Markers` |
| `Runner` | the writers as consumers of the log, etcd, readers' choice of an epoch | |
| `Converter` | the converter's threads, queues, numbering and restart | |
| `VertexStore` | vertices of one fragment: ids, maps, strings, property pages, readers of published epochs | |
| `Fragment` | numbering of inner and outer vertices over fragments and labels, and the reader's way back | |
| `PropertyApps` | SSSP, WCC and PageRank in rounds | `Fragment` |
| `MessageManager` | the threads, queues and votes behind the rounds | |
| `Controller` | request handlers and executors | extends `Runner` |
| `Orders` | block sizes: powers of two, capacities of epoch tables | extended by `EpochTable` and `SegGraph` |
| `EpochTableProofs`, `EdgeScanProofs`, `RunnerProofs`, `MessageManagerProofs`, `VertexStoreProofs`, `SegGraphProofs`, `ConverterProofs` | theorems | the modules they are named after |
| `ControllerProofs` | theorems about `Controller` | extends `RunnerProofs` |
| `MC...` | model values and small definitions for TLC | |

Definitions whose comment starts with "Mutant:" are altered forms of the
definition that follows them. `PROJECT.json` pairs each property with the
altered form that breaks it; no specification uses them.

**EpochTable.** `elog` is the list (each entry represented by the epoch that
wrote it), `tabs` every epoch table allocated for it, `cur` the one the segment
points to. `CreateTable`, `ReplaceTable`, `AppendEpoch` and `AppendEdge` are the
last third of `EpochGraphWriter::put_edge`. A reader locates a segment
(`BeginRead`), loads block and table pointer, the number of entries, and only
then the table's content (`InitIterator`), with the writer free to move between
any two. `view` records whether the table a reader holds was still the current
one when it read the number of entries: the code gives no snapshot guarantee
after that (see below). Because blocks and segments are hidden, a load may
return any value the hidden state could have held since the segment was located.
Blocks grow by doubling: `TableCap` (in `Orders`) is the exact arithmetic of the code, 2
entries in the first table, 6 in the second.

**SegGraph.** One action per stretch of `put_edge` between two points another
thread can observe: the call (`PutEdge`), taking the vertex futex (`LockFutex`,
for which other writers may have to wait), `lock_shared` and locating the segment,
the exclusive lock with its recheck and restart, segment creation, reuse or
growth of a block (copied below `COPY_THRESHOLD_ORDER`, linked from there on),
the failed allocation that leads to `merge_segment`, the merge, the epoch table,
the append, and the returns on `NULLPOINTER` that release nothing. The first
segment comes with the edge label block that names it (`update_edge_label_block`),
whose allocation is not checked: if that one is the first to fail, the process
dies. An edge is
its position in the history `hist` of its vertex, so lost, doubled and reordered
edges show in `ChainIsLog`. `Recycle` frees segments that were replaced
`LAG_EPOCH_NUMBER` epochs ago; a reader of a freed segment finds anything.
Readers are of two kinds, because the two implementations load the pointers in
a different order and differ in one early return.

**Markers, EdgeScan.** A list is a sequence of numbers, 0 for an entry and `t`
for a marker of the entry at position `t`. `EdgeScan` follows
`find_next_valid_cursor` with its queue; `Visible` is the same as a function,
used by `GraphStore` for the iterators of readers and of `process_del_vertex`.

**GraphStore.** Every fragment has adjacency lists in both directions and a
vertex table whose two ends are `inner` and `outer`. A log is applied to all
fragments in one step, since they share nothing. `DelEdge` marks the newest
entry for the neighbour without looking at markers, as the code does.
`DropEdgesOf` is one pass of `process_del_vertex`. `NextEpoch` records what
`update_blob` publishes together with the tables at that time, against which
`SnapshotIsGraph` compares what a reader of that epoch would see at any later
moment. The environment is a database whose foreign keys hold: edges join live
vertices, a key is inserted once.

**Runner.** `run[f]` is the consuming thread of fragment `f`. Publication takes
three steps (build the blob, put its key, put the latest-epoch key). With
`NumThreads > 0` logs go through `queue` to `process_log_thread`; reads and
writes of the packed `is_working_` word are separate steps. `Crash` loses
everything but Kafka and etcd; `Start` is a new process, which announces
`UINT64_MAX` and reads the log from its beginning. Applying a log records its
index.

**Converter.** `main` deals messages round-robin, and a timeout uses up a turn.
Parser threads push entries, then their count, to bounded queues. `step2` holds
the locals of `process_binlog_step_2` with `catch_up_mode` and the parser's
counters. `EpochAfter` is the whole epoch calculation, for epochs in logs and in
seconds, with and without transaction ids. `buffer` is what the Kafka producer
has not delivered; a crash loses it and restarts from the last delivered log.
`oid2gid` is the parser's maps; an entry names the vertices it is about, and
`ParseAgain` looks them up or numbers a new one. A key may be inserted, deleted
and inserted again, and `IdsResolve` asks that every log carries the id of the
vertex that had the key at that point of the binlog. `KeysHold` is the
environment: rows refer to rows that exist.

**VertexStore.** A log is applied in the steps other threads and readers can
tell apart: the ids and strings (`Insert`, `Update`), then per column family the
search for the page (`Find`), the two halves of `get_region` (`GetRegion`,
`NewPage` with `StoreSize`), the new page in the header (`NewPage`), its version
(`Stamp`) and the row (`Write`). Inserts of several threads overlap, everything
else waits for the barrier of `Runner` (`Alone`). `SnapshotProps` evaluates, in
every state, what a reader of every published epoch would find with
`VertexPropValueIsValid`, `GetData` and `GetExternalId`, and compares it with
the logs up to that epoch.

The string buffer has room for `StrCapacity` strings (one unit each). In a debug
build `put_cstring` asserts that a string fits; a release build logs an error and
returns -1 (`buffer_manager.cc:83`), after `size_` was advanced, so that no later
string fits either. What follows is modelled as the callers have it:

- an external id: -1 is stored in `external_id_stores_`, and readers get junk;
- a property of an insert: the key goes through text, is larger than an
  `int64_t`, and `std::stoll` throws (`property_col_paged.cc:296`), which nobody
  catches: the writer dies (`Gone`);
- a property of an update: -1 is stored and readers get junk, from before the
  buffer; the next update of that row reads the old string far outside the buffer
  and faults (`UpdateFaults`).

`hist` keeps, of a log, what its readers should find: the row with `Junk` for
exactly the strings of this log that found no room. So `SnapshotProps` allows no
other value, vertex or epoch to be harmed, and no string that was readable to be
lost later.

**Fragment, PropertyApps.** A placement fixes fragment and label of every
vertex; edges are put one by one as `process_add_edge` does on every fragment.
Ids are records, outer offsets count down from the largest one. `Slot` is the
index arithmetic of `GartVertexArray`, with the `inner_size_` its `Init` computes,
so inner and outer vertices of one label share slots. A round is evaluated on
all fragments in one step, since contexts are not shared and messages are
delivered only at the end of a round. Loops over edges and vertices run in the
order of the iterators (newest first). Ranks are bags of named shares instead of
floating-point numbers; that and the maximum as `int` bound are the only
abstractions of data.

**MessageManager.** Per worker a main thread (`StartARound`, sends,
`GetMessages`, `FinishMsgFilling`, `DrainOne`, `FinishARound`, `ToTerminate`,
`WaitSend`, `StopRecvThread`), a send thread per round (`SendBlock`, `SendEnds`)
and a receive thread (`Receive`, `ReceiveStop`). What an evaluation sends is
free. MPI keeps the order between two workers and nothing else.

**Controller.** Extends `Runner`: writers publish, crash and restart while a
handler reads the keys one at a time (`AskLatest`, `AskFails` for a read that
raises), checks, claims `previous_read_epoch` and tells executors one by one
after waiting for each fragment's blob (`CanTell`). `change_read_epoch` only prints what
curl returned (`controller.py:434`), so telling may fail and the handler goes on
(`LaunchFails`): the executor keeps its epoch or stays unstarted, and is in
`missed` until a later curl reaches it. `AwaitPorts` waits until every executor's
port answers, whatever its epoch. `StartList` and `ListBlob`
are the listing of all epochs, `RunGae` and `GaeStep` an analytical job, which
is a reader of `Runner`.

## The runs

| Run | Instance | Shows |
|---|---|---|
| `epoch_table` | 1 list, 4 epochs, 4 edges, 1 reader | a reader that was not overtaken has exactly its snapshot, for ever after; the invariant of the proof holds |
| `seg_graph` | 1 writer, 1 reader, 2 vertices, 4 edges, epochs 0, 1, 4 | block growth, merges and recycling lose and reorder nothing; snapshots; recycling keeps its distance; merges fit; refinement of `EpochTable` |
| `seg_locks` | 2 writers, 2 vertices, 8 edges | no entry of a block the segment reaches is lost by growing or merging; no `put_edge` waits for ever for its futex or for the segment lock |
| `edge_scan` | all well-marked lists up to length 6 | the iterator is exact and ends; the invariant of the proof holds |
| `graph_store` | 3 vertices in 2 fragments, 6 logs, 2 epochs, at most 2 rows | every published epoch is the graph of the tables; markers name each entry at most once |
| `vertex_store` | 2 threads, 2 column families, a string property, room for 3 strings, 2 vertices, 3 epochs, 5 logs | published epochs keep values, NULLs, maps and all strings that found room; published pages are frozen; pages belong to one column |
| `runner` | 2 fragments, 1 reader, 3 logs, 3 epochs, 1 crash | published epochs are prefixes; a reader finds its blobs; every fragment catches up |
| `runner_threads` | 1 fragment, 2 threads, 4 logs | no log lost or applied twice, none left waiting |
| `controller` | 2 fragments, 1 handler thread, 2 logs, 3 epochs, 1 crash, 1 failed read or curl | one snapshot between requests on all executors the last curl reached; listings complete; every request answered but for one that waits for an executor curl did not start |
| `converter` | 2 parser threads, queues of 2, 4 messages, 1 timeout, 1 crash, bulk load | the unified log is the sequential conversion, ids dense and resolved, epochs monotone, transactions cut at most after their first log, all converted |
| `message_manager` | 2 workers, blocks of 1 message, 2 messages, 3 rounds and the last | rounds are isolated; a query ends at a fixed point unless a block overflowed; every worker returns |
| `apps` | 3 vertices in 4 placements over 2 fragments and 2 labels, all graphs of up to 3 edges with weights 1 and 3 | fragments hold the graph; shortest paths; sound components; shares of ranks |

Why the bounds are enough for the interesting cases:

- `MaxEpoch = 3` in `epoch_table` fills the first table (2 entries) and forces a
  replacement while a reader holds it; `MaxEdges = 4` puts an edge in each epoch.
- `SmallSegments` gives the first segment 10 slots where a first block takes 4:
  the third block does not fit, so four edges on two vertices grow, copy and
  merge, and with `COPY_THRESHOLD_ORDER = 2` a vertex's third edge links a block
  to its predecessor once a merge has made room for it. The code's constants are larger (first block order 1, threshold 3);
  the arithmetic between them is the code's. Epochs 0, 1, 4 step over the lag of
  2, so a replaced segment is recycled under a reader. `MemLimit` lets the
  allocator fail.
- 6 logs in `graph_store` are enough for add, delete, add, delete of a pair
  around an epoch boundary and for a vertex that is deleted with its edges;
  vertices `a` and `b` share a fragment, `c` is remote, so there are inner,
  outer and mixed edges.
- 3 logs and 3 epochs in `runner` publish two epochs, skip one, and crash in
  between; 4 logs with 2 threads have two adds in flight when a delete or an
  epoch change reaches the barrier.
- With 2 threads, 4 messages and 1 timeout in `converter` the turn of a thread
  comes round again after a timeout; the message kinds are an insert, an update
  and a delete of a vertex that begin a transaction, one with two entries (as
  many as a queue holds) that continues it, and the last record of the snapshot:
  enough to insert, delete and insert a key again.
- In `vertex_store` 3 epochs give chains of three versions, and two vertices share
  a page, so that one's row is copied with the other's; a second page of a column
  is not reached, and is left to the proofs. `Capacity` lets the page buffer run
  full, which ends the process (`BufferFull`); with `StrCapacity = 3` the fourth of up to five
  strings overflows, in an insert or an update, before and after a publication.
- 8 edges in `seg_locks` on two vertices grow the segment twice while the other
  writer is inside `put_edge`.
- 2 messages and `MaxRounds = 2` in `message_manager` let a worker be a round
  ahead of the other in both parities, send to itself, and overflow a block;
  larger instances (3 workers, 3 messages) were too large for a regular run.
- 3 edges on 3 vertices hold a path that crosses fragments twice, a triangle, a
  vertex with two in-edges and a shorter way that is found a round later.
- 2 logs over 3 epochs in `controller` leave one fragment an epoch behind the
  other in every step of a request. One failed curl can hit an executor that runs
  or one that does not, in the first request or a later one.

Deadlock checking is off (`CHECK_DEADLOCK FALSE`) where a bound on edges, logs
or messages ends the behaviour, and in `controller`, where a handler whose
executor was not started waits for it for ever. It stays on in `runner`, where a
reader can always go on.

**Fairness.** Safety runs assume none. `PutCompletes` assumes that a writer
thread inside `put_edge` keeps running and gets a futex or lock that stays
available. Nothing is assumed of a lock that others keep taking in turn: the run
puts `MaxEdges` edges, so the others stop at some time.
`CatchesUp` and `AllApplied` assume that the writer's threads are scheduled and
a dead writer is started again (its loops have no exit, and the charts deploy it
as a StatefulSet, the converter as a Deployment). `AllConverted` assumes the same of the converter's threads and that
Kafka delivers what is produced. `RequestAnswered` assumes the same of writers
and handlers, and nothing of new requests or logs: an epoch that one fragment
has published was in the log before, so the others get there. It excludes
`Stranded` handlers, whom no fairness helps. `QueryReturns`
assumes that each of a worker's three threads runs, that MPI delivers and that a
wait for sends all of which were received returns; evaluations end, and stop
sending after `MaxRounds` rounds: that an application converges is its own
affair, not the message manager's. `ScanEnds` assumes that the one thread that
iterates goes on. Nothing is assumed of the database, readers, crashes and
arrivals of new epochs. Weak fairness is enough everywhere: no step waits for a
condition that others switch on and off for ever once inputs stop.

## Further configurations

All runs of `PROJECT.json` pass. The configurations below belong to the project
too: each checks, on the same modules, a stronger statement that a reader might
expect, and TLC answers with a trace (a violation unless said otherwise). They
are the limits of the properties above, which exclude exactly these cases.

- `MCSegGraphFragment.cfg` (`FragmentEmpty`): `GartFragment::get_edges_in_seg_`
  takes a newest block without entries for an empty list
  (`interfaces/fragment/gart_fragment.h:1318`, "no edges to read"). From
  `COPY_THRESHOLD_ORDER` on, `put_edge` links an empty block in front of the old
  ones before it appends, and a reader that comes in between gets no edges at
  all.
- `MCSegGraphWriters.cfg` (`ChainIsLog`, two writers): after `InitSegment` or a
  merge the writer releases the exclusive lock, takes the shared one and does
  not locate the segment again. If another writer merges in between, the edge
  goes to the replaced segment and is lost. Only the multi-threaded build, off
  by default, has two writers. `EdgesKept` says what is left then, and is
  proved: the edge is in the replaced segment, in order and with room, and no
  merge crashes.
- `MCSegGraphInternal.cfg` (`InternalSnapshot`): a reader that still holds a
  replaced epoch table sees edges of later epochs. This is the reason for `view`.
- `MCGraphStoreParallel.cfg` (`SnapshotIsGraph`): two rows that join the same
  vertices, both deleted: both markers name the newer entry, the older one stays
  visible.
- `MCGraphStoreCascade.cfg` (`SnapshotIsGraph`): if the deletes of the rows that
  a deleted vertex takes along are logged after it, each marks an entry that is
  already marked, and later inserts and deletes of that pair go wrong.
- `MCVertexStoreThreads.cfg` (`OwnPages`, two labels): `get_region` reads and
  stores `size_` without a lock, and the mutexes around it are one per label:
  two threads get the same region. `MCVertexStoreLabels.cfg`, two labels and one
  thread, passes.
- `MCRunnerEpoch.cfg` (`BlobPresent`): a fragment that has published nothing has
  the largest value in its key and does not count in the minimum; the reader
  then asks it for a blob that it does not have. `ReaderFindsBlobs` shows that
  this is the only case.
- `MCRunnerBarrier.cfg` (`BarrierWaits`): the barrier may see an empty queue and
  an idle thread that has just popped a log; the epoch is then published without
  that log. `LogsAccounted` shows that it is applied later all the same.
- `MCVertexStoreStrings.cfg` (`NoStringLost`): a string that finds no room in the
  buffer is stored as the key -1, and readers of the published epoch read bytes
  nobody wrote.
- `MCControllerCurl.cfg` (`ChangedEverywhere`): `change_read_epoch` says it checks
  "if all gie executors are launched successfully" (`scripts/controller.py:449`),
  but looks at ports only. An executor that runs and was not reached by curl stays
  at its epoch, the handler answers "Read epoch changed", and a repeated request changes nothing.
- `MCControllerTwo.cfg` (`OneSnapshot`, two requests at a time): the executors
  are told by two handlers in turn and end up with different epochs, while
  `previous_read_epoch` names one of them and a repeated request changes nothing.
- `MCControllerVersion.cfg` (`GaeReadsVersion`): `run_gae_task` passes
  `--read_epoch` to `run_gart_app`, whose flag of that name ("read epoch for
  graph reader.", `apps/analytical_engine/test/flags.cc:22`) nothing reads: the
  job always takes the latest epoch.
- `MCConverterTxn.cfg` (`TransactionWhole`): the change of transaction is noticed
  after its first log has been written with the old epoch, so an epoch boundary
  can cut a transaction. `TransactionCut` shows that it cuts nowhere else.
- `MCConverterNull.cfg`: with messages that yield no entry and a second vertex;
  passes.
- `Converter` with `UseLogsPerEpoch = FALSE` and a crash: the replay is faster
  than the first run, epochs counted in seconds fall behind the ones already
  written, and `EpochsMonotone` fails. With `TxIds = FALSE`, bulk load and
  `LogsPerEpoch = 3` the epoch goes from 1 back to 0.
- `MCMessageManagerFlush.cfg` (`EndsAtFixedPoint`): a block that is flushed
  because it is full is not counted in `sent_size_`; if nothing else was sent in
  that round by any worker, the query ends and the block is never processed.
- `MCPropertyAppsAlias.cfg` (`SSSPExact`): `GartVertexArray::Init` tests
  `addrs_[idx].second` for not null where it means null, `inner_size_` is 0, and
  an inner and an outer vertex of one label overwrite each other's distance.
- `MCPropertyAppsWCC.cfg` (`WCCComplete`): ids move only from in-neighbours, and
  after the first `IncEval` another one runs only when messages came; on one
  fragment a component can end with two ids.

## The proofs

**EpochTableProofs**: `TypeCorrect`, `Invariance` and `SnapshotCorrect`, for any
set of readers and any natural bounds on epochs and edges (`BoundsAssumption`).
`SnapshotRead` alone is not inductive: it speaks of finished reads, and a step
that finishes one depends on what the reader loaded earlier. `IInv` adds

- `LogSorted`: epochs grow along the list and do not exceed the write epoch;
- `TablesSound`: every table ever allocated, replaced ones too, splits the list
  correctly at each of its entries;
- `CurrentComplete`: only the current table is known to cover the whole list;
- `ReaderSound`: no entry behind the reader's starting point belongs to its
  epoch; and, once it has read the number of entries with a current table, all
  entries it counts are covered by the last entry of that table.

The last conjunct is the heart: when the reader then meets a newer table entry,
that entry's offset cuts the list where its epoch ends; when it does not, the
counted entries are all of its epoch or older. Each conjunct has a lemma with a
step per action.

**EdgeScanProofs**: `Invariance` and `ScanCorrect`, for lists of any length
(`MaxLenAssumption`). The strengthening `HeapPending` says that the queue holds,
once each, exactly the markers read whose entry is still ahead; together with
`WellMarked` the largest queued position is never above the cursor when an entry
is read, so one comparison with the top decides. `ScanIsVisible`: the function
`Visible`, with which `GraphStore` reads its lists, returns the same
(`VisibleExact`: the entries that no marker names).

**RunnerProofs**, for any log length, fragments, threads, readers and crashes:

- `ReaderSafe`: `ReaderFindsBlobs`. A reader's answers are old when it uses
  them, so `EpochInv` says of each fragment what its keys meant when they were
  written and still mean: every epoch that ended up to the announced one has its
  blob (`BlobsFirst`), which a crash does not undo, since a new process
  publishes the same epochs again from its first log (`RunSound`: the logs
  passed belong to the current epoch or an earlier one). `ReaderSound` carries
  that to the answers a reader has collected.
- `PublicationCorrect`: `PublishedCut`, assuming `NumThreads = 0`, the default
  build. `CutInv`: what is applied is exactly what was consumed, and every blob
  is the cut of the log at its epoch. With threads the statement is false in a
  known way (`MCRunnerBarrier.cfg`).
- `NoLogLost`: `LogsAccounted`, for any number of threads. `PlaceInv`: applied
  logs, queue and thread hands are disjoint, hold what was consumed, and are
  counted together; the queue is empty from the moment the barrier saw it so
  until the epoch is published.
- `TypeCorrect`.

**ControllerProofs**, on `EpochInv` and `CutInv`, which the controller's steps
keep as well (a handler that reads keys is a reader of `Runner`):

- `ListingCorrect`: `ListComplete`, for `NumFrags > 0`: fragments that answered
  have the blobs of all epochs up to the least answer (`ListSound`); needs that
  the converter numbers epochs without gaps (`Dense`).
- `ExecutorsAgree`: `OneSnapshot`, for writers without threads, at least one
  fragment and one handler at a time, and any number of curls and reads that
  fail. `ExecInv`: while a handler tells the executors, those already told and
  reached show the epoch it claimed; when none does, all do but those that the
  last curl to them did not reach (`missed`). An executor is in `missed` from a
  failed curl to the next that succeeds, so one that was missed in an earlier
  request and told in a later one must agree again. Two handlers break it
  (`MCControllerTwo.cfg`); of the executors in `missed` the code promises nothing
  (`MCControllerCurl.cfg`).

**MessageManagerProofs**, for any number of workers, channels, rounds, messages
and any block size:

- `RoundsIsolated`: `RoundIsolation`. No worker is more than one round ahead
  (`Close`), because a vote needs all; so the two queues that are used in turn
  are those of this round and the next (`QueueSound`: what is in them was sent
  for that round, and `producers` counts the workers whose end of round has not
  arrived). The network keeps rounds in order with the end last (`LinkSound`),
  and a message not yet taken is in exactly one of the places it can be in
  (`NoneLost`): channel, sending queue, network, queue. When `producers` is 0 the
  queue therefore holds all of it (`OverSound`).
- `FixedPoint`: `EndsUncounted`. `EndInv`: a worker that votes to end has sent
  nothing in that round but what went out in full blocks.

**VertexStoreProofs**:

- `MapsServe`: `PublishedMapServes`, for any labels, threads and epochs.
  `MapInv`: later epochs name later maps, and only maps that no epoch names are
  aborted.
- `PagesFrozen`: the action property `PublishedPagesFrozen`, and `PagesOwned`:
  `OwnPages`, both under `NoRace`: one thread (the default) or one label, whose
  mutex then orders the threads around the unlocked `size_` of `get_region`.
  Without it they are false (`MCVertexStoreThreads.cfg`). `PageInv` says what a
  thread has in hand in each step of making a page; a page it writes rows to has
  the epoch being applied, which is not published. `OwnInv` keeps a map from
  pages to columns that headers, predecessors and threads agree on.
- `SnapshotKept`: `SnapshotProps`, under `NoRace`: a reader of a published epoch
  finds the external id of every vertex that epoch lists, and for every property
  the value, NULL or string of the last log up to that epoch; junk only for a
  string that found no room in the buffer when that log was applied. `ValueInv` adds to
  `PageInv` and `OwnInv`
  - `Logged`, `ExtIds`: every vertex has a log, none of a later epoch, and its
    external id;
  - `Heads`: the header leads to the newest page, and only that page is written;
  - `Current`, `InWork`: for every vertex and family, the newest page shows the
    last log, or a thread still has that log's row to write. They are claimed
    while no thread has died, of a full page buffer, of a string without room or of
    reading one: that ends the process;
  - `Served`: a published epoch is read right.

  Pages are piled on each other in the order of their versions, so a page put on
  top changes no walk of an older epoch (`VisibleKept`) and rows of published
  epochs do not change (`PagesFrozen`): `Served` is kept by every step but
  `Publish`. There no thread has work left, so `Current` says that the newest
  pages, which the new epoch is read through, show the last logs. Strings are
  only appended, and -1 is never the key of one, so what a cell says it says for
  good (`ShowsStays`), junk included.
- `TypeCorrect`, under `NoRace`.

**SegGraphProofs**, for any number of vertices, segments, readers, and block and
segment sizes:

- `TypeCorrect` and `SegmentsLag` (`RecycleLag`), for any number of writers. A
  segment enters the recycle list with an epoch that is not before the one in
  which a reader that holds it located it (`LagInv`).
- `ChainCorrect`: `ChainIsLog`, assuming `OneWriter`, the default build (two
  writers lose an edge, `MCSegGraphWriters.cfg`). `LogInv`: the entries of every
  block continue where the block behind it ends (`BlocksSound`); blocks belong to
  one vertex (`OwnBlocks`); nothing is linked behind the block a vertex writes to
  (`Heads`), so an append changes one chain; that block ends where the history
  ends (`ListsEnd`); and the writer is in the newest segment with room in its
  block when it appends (`WriterLog`). Growth that copies, growth that links and
  a merge each keep it.

The second half of the module is about the readers: `SnapshotCorrect` proves
`SnapshotRead`, assuming `OneWriter`. A read that was not overtaken returns exactly
the edges up to its epoch, by either reader, from whichever segment. `SnapInv`
adds to `LogInv`

- `ListsSound`: epochs grow along each history; every table ever allocated splits
  it correctly; the current one covers it;
- `RegionsEnd`: in every segment, old ones too, a vertex's block ends within its
  history;
- `ReadsSound`: edges put after the reader located its segment are of later
  epochs, and those before are in that segment; its block is one of that vertex
  and reaches as far; the number it counted is within the history and, with a
  fresh table, covered by that table's last entry.

A reader does nothing while the writer moves, so the bulk of the proof is
`ReaderStays`: segments, lists and blocks only move in ways (`SegmentsMove`,
`ListsMove`, `BlocksMove`) that keep what a reader holds true. `SnapshotEnds` and
`BlockBeforeFound` then say what the iterator's table look-up and its walk down
the chain return.

The last part is about the multi-threaded build, and assumes nothing of the
number of writers: `EdgesCorrect` (`EdgesKept`) and `MergesFit` (`MergeFits`).

- `KeptInv`: a block holds no more than its order allows and counts what is
  behind it (`BlocksCounted`); segments and vertices share no block
  (`NoneShared`), so an append changes one chain of one segment; no segment
  starts at a block that another one is in front of (`FrontBlocks`); chains go up
  (`ChainsOrdered`) and every edge is in one (`EdgesChained`). `WriterKept` is why
  writers do not get in each other's way: a writer has the futex of its vertex,
  and between `reshare` and the append its block is the one of its vertex in the
  segment it located, current or not, with room for one more edge. A merge by
  another writer leaves both as they are: it builds new blocks
  (`OthersKept`, `KeptStoreStep`).
- `FitsInv`: what the vertices of a segment hold (`Held`: the slots of the block
  and the entries behind it), summed, is no more than `alloc` has counted and no
  more than the segment's order gives. A sum over vertices is
  the size of a set of slots (`Slots`, `Total`), so adding a block, replacing one
  and doubling all of them are facts about cardinalities. A merged block is
  less than twice what its vertex held, or the first one of a vertex
  (`MergedBlockSlots`), and the next order has at least
  twice the slots (`SegGraphAssumption`): so the allocations that `merge_segment`
  does not check succeed (`MergeHasRoom`). `SegSlotsAssumption` adds that there is
  an order for every segment memory allows, and more than one slot in the first.

**ConverterProofs**, for any number of threads, fragments and messages, any
capacity of the queues, and timeouts and crashes wherever they fall:

- `LogInOrder`: `InOrderOnce`.
- `GidsUnique`: `GidsDense`, and `ReferencesResolve`: `IdsResolve`.
- `EpochsGrowAlong`: `EpochsMonotone`, and `TransactionsCutOnce`:
  `TransactionCut`, for the default flags: epochs counted in logs
  (`UseLogsPerEpoch`) and a binlog with transaction ids (`TxIds`). Both are
  needed: without either an epoch may decrease (under "Further configurations").

`IInv` is a conjunction of parts that speak of different things and share only
the number of the next message to collect (`nx`), the number of logs before each
message (`start`), and a history:

- `At`: which message is where. `Pipeline` says, for each thread, that what main
  dealt to it and step 2 has not collected (`pipe`, with a mark for a timeout) is
  laid out over its three queues and the hands of its step 1, in order: entries in
  the entry queue, their numbers in the count queue. Threads take turns, so message
  `nx` is the head of the lane step 2 looks at, and a timeout moves both ends. It
  follows that every step of the pipeline is, for the collector, one of a few
  things (`Seen`): nothing, the next entry of message `nx`, or the end of it. No
  later proof looks into the queues.
- `Progress`: the i-th log, delivered or in the producer's buffer, is the part of
  the binlog that `start` places there (`Logs`); `processed_count` is what `start`
  says of message `nx` and the entries of it that are collected (`Reached`); and the
  log ends at that count, or, while a restarted process passes over what it finds
  there, at the last offset it found (`Window`). `InOrderOnce` is then a fact
  about the flattened binlog.
- `Numbering`: `hist[i]` is what the counters and the map of ids are after `i`
  logs, whichever process computed them: they are a function of the entries, so
  a replay goes through the same states and continues with the next. Dense ids
  follow from counting the inserts of each fragment (`PerSound`), resolved ones
  from `MapSound` (the map holds the newest insert of each key) and from
  `Referred`, what the database promises of keys.
- For the epochs, `EpochInv` has `Counting` in the place of the history: `ep[m]`
  is what epoch, transaction and count of logs are before message `m`. They
  are functions of the messages only when epochs are counted in logs. With
  `Transactions` (ids grow, the snapshot is the first of them and ends where it
  says) an epoch ends behind the first message of a transaction, or where the
  snapshot does.

**Recursion.** `Pow2`, `Chain`, `BlockBefore` and `Visible` are recursive
functions. That a function with the recursive equation exists is proved by giving
it (`FurtherPassed`) or from the least number for which there is none
(`PowersExist`, `ChainsExist`, `WalksExist`, on `LeastNumber`); what it computes
follows from the least argument where it would be something else
(`ChainIsIota`, `VisibleExact`). `FlattenSeq` of the community modules, which
`InOrderOnce` is stated with, is treated in the same way (`FlattenExists`,
`FlattenFacts`).

**Only model-checked**:

- liveness (`PutCompletes`, `CatchesUp`, `AllApplied`, `AllConverted`,
  `RequestAnswered`, `QueryReturns`, `ScanEnds`): the provers do not handle
  fairness with `ENABLED`;
- the refinement `ImplementsEpochTable`: the abstract module is instantiated with
  a parameter (one instance for each vertex and reader), which tlapm does not
  expand. `SnapshotCorrect` proves for the detailed module what the refinement
  is for;
- `Fragment` and `PropertyApps`: results are folds over sequences of edges and
  messages, and a sum or shortest path over a fold needs induction over data;
- the invariants of `GraphStore`: not proved yet.

## What is not modelled

- **The analytical engine taken from GraphScope.** `apps/analytical_engine/core`
  holds about 32 thousand of the repository's 55 thousand lines of
  implementation: other kinds of fragments (`dynamic_fragment.h`,
  `arrow_projected_fragment.h`), contexts, tensor and dataframe output, the
  object manager, the gRPC server. The `grape_engine` and `gs_util` targets that would
  compile it are commented out in `apps/analytical_engine/CMakeLists.txt`; GART
  builds `run_gart_app` and `run_gart_reader`, which include a few headers of
  it. Those that take part in a query (workers, message manager, vertex arrays)
  are modelled.
- **The coordinator**: about 11 thousand lines, mostly generated from an OpenAPI
  description, which forward requests to the controller. Together these two are
  three quarters of the code, so a map of a third of all lines would have to
  claim code that is not GART's or does not run.
- Edge property bytes and the bit fields of ids: address arithmetic without
  control of its own. The 16 bits a string's length is packed into are left out
  for the same reason; a longer string is cut.
- External ids that are strings, in `Fragment`: ids are integers there. A label
  with `STRING` ids puts an outer vertex's id into the string buffer
  (`VertexStore`) and enters it in no vertex map
  (`vegito/src/graph/graph_ops/add_edge.cc:101`, `:157`).
- How many rounds PageRank runs: `RankShares` is about each round. On one fragment
  no messages are sent and the query ends after the first `IncEval`.
- Produces and watermark queries that fail: `converter/kafka_helper.h` only logs
  them, and Kafka counts as external. A log that is never delivered is in the
  model only as lost with the process.
- The count of a shared lock: `shared` is a set of writers, so a writer that comes
  back after its allocation failed with the lock held does not count twice.
- The size of the vertex table and of the recycle array: past them the code
  writes outside its arrays, and the source fixes no behaviour.
- Several segments: each has its own lock and pointer. Labels are in
  `VertexStore`, `Fragment` and `PropertyApps`; adjacency lists of different
  labels do not interact.
- Code that nothing calls: `put_vertex` and `merge_segments` of SegGraph; `gc`,
  `getByOffset` and the cursors of `PropertyColPaged`; all of
  `PropertyColArray`; `ENABLE_CHECKPOINT`, off by default.
- Column families that are not updatable (no configuration makes one).
- The destination lists of `initDestFidList` (`gart_fragment.h:1329`): no
  application GART brings uses the strategies that read them.
- The futex's own atomic steps: it is a lock here.
- Weak memory: the writer's stores are seen in the order of the program and a
  reader's loads are made in it, as on x86.
- JSON and RGMapping parsing, the schema and DDL (constant after start), GRIN
  (stateless), the front ends (readers, mostly third-party engines), loaders,
  and the controller's handlers that edit Kubernetes objects.
- Debezium, Kafka, etcd, vineyard and MPI are external: an ordered log, a store
  of keys, shared memory, messages.

## Plan

Done: the list protocol with its proof, the segmented store that implements it,
markers and iteration with proof, the log operations, properties and ids, the
writers, the converter, the controller on top of the writers, the message
manager, the applications; and the proofs about the writers, the controller, the
message manager, the vertex store, the segmented store with its readers, and the
converter. What is left, in this order:

1. `GraphStore`: `MarkersSound` without parallel rows, then `SnapshotIsGraph`, on
   `VisibleExact`.
2. The step simulation `SegGraph` => `EpochTable` for one writer, with the
   refinement mapping as definitions in place of the parametric instance.
