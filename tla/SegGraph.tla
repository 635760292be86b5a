------------------------------ MODULE SegGraph ------------------------------
(***************************************************************************)
(* The segmented adjacency store: one segment of vertices, the edge label  *)
(* pointer that leads to its current version, the chains of edge blocks    *)
(* and the epoch tables inside it, the writers of                          *)
(* EpochGraphWriter::put_edge with their locks, and the lock-free readers  *)
(* (EpochGraphReader inside the writer process, GartFragment outside).     *)
(*                                                                         *)
(* An edge is represented by its position in the history of its vertex.    *)
(* Steps that other threads cannot observe half done are one action: the   *)
(* new segment, block or table is filled before the pointer to it is set.  *)
(***************************************************************************)
EXTENDS Orders, Sequences, FiniteSets, FiniteSetsExt

CONSTANTS
  Writers, Readers, Vertices,
  NoOne,                  \* no writer holds the lock
  DEFAULT_INIT_ORDER,     \* order of a vertex's first edge block
  COPY_THRESHOLD_ORDER,   \* from this order on blocks are linked, not copied
  LAG_EPOCH_NUMBER,       \* epochs a replaced segment survives
  SegSlots,               \* edge slots of a segment of the k-th order
  LogEpochs,              \* bound: the epochs that have logs; 0 is the first
  MaxEdges,               \* bound: edges ever put
  MemLimit                \* capacity of the block manager, in allocations

ASSUME SegGraphAssumption ==
  /\ NoOne \notin Writers \cup Vertices
  /\ IsFiniteSet(Vertices)
  /\ {DEFAULT_INIT_ORDER, COPY_THRESHOLD_ORDER, LAG_EPOCH_NUMBER,
      MaxEdges, MemLimit} \subseteq Nat
  /\ MaxEdges > 0
  /\ LogEpochs \subseteq Nat /\ 0 \in LogEpochs
  /\ \E last \in LogEpochs : \A e \in LogEpochs : e <= last
  /\ \A k \in 1 .. Len(SegSlots) - 1 : SegSlots[k + 1] >= 2 * SegSlots[k]

(* The first segment is many headers large (INIT_SEGMENT_ORDER), and there  *)
(* is an order for every segment that memory lets be allocated.             *)
ASSUME SegSlotsAssumption ==
  /\ SegSlots \in Seq(Nat) /\ MemLimit <= Len(SegSlots)
  /\ \A k \in 1 .. Len(SegSlots) : SegSlots[k] > 1

VARIABLES
  wepoch,    \* write epoch of the logs being applied
  hist,      \* per vertex, the epochs of its put edges, oldest first
  tabs,      \* per vertex, every epoch table ever allocated for it
  segptr,    \* the edge label block's segment pointer; 0: none
  segs,      \* every segment ever allocated
  blks,      \* every edge block ever allocated
  allocs,    \* blocks taken from the block manager
  recycle,   \* segments_to_recycle: <<segment, epoch that replaced it>>
  freed,     \* segments given back to the block manager
  futex, shared, excl,   \* vertex_futexes and the segment's shared_mutex
  wr,        \* state of each writer
  rd         \* state of each reader

locks == <<futex, shared, excl>>
store == <<hist, tabs, segptr, segs, blks, allocs, recycle, freed>>
vars  == <<wepoch, store, locks, wr, rd>>

IdleWriter == [pc |-> "idle", v |-> NoOne, seg |-> 0, blk |-> 0]

NotLoaded == -1

IdleReader ==
  [pc |-> "idle", kind |-> "internal", epoch |-> 0, v |-> NoOne, seg |-> 0,
   at |-> 0, base |-> [v \in Vertices |-> 0], baseTab |-> [v \in Vertices |-> 0],
   blk |-> NotLoaded, low |-> 0, tab |-> NotLoaded, num |-> 0, out |-> << >>,
   view |-> "fresh"]

-----------------------------------------------------------------------------
(* Blocks and segments *)

(* size_to_order: the least order whose block holds n entries. *)
SizeToOrder(n) == CHOOSE o \in 0 .. n : Pow2[o] >= n /\ (o = 0 \/ Pow2[o - 1] < n)

(* Slots an edge block takes in its segment: 24 bytes of header, 8 per entry. *)
BlockSlots(order) == 3 + Pow2[order]

HasSpace(b) == Len(blks[b].ents) < Pow2[blks[b].order]

(* The entries of a block and of the blocks linked behind it, oldest first. *)
Chain(b) ==
  LET chain[c \in 0 .. Len(blks)] ==
        IF c = 0 THEN << >> ELSE chain[blks[c].prev] \o blks[c].ents
  IN  chain[b]

NewSegment(order) ==
  [order |-> order, used |-> 0, region |-> [v \in Vertices |-> 0],
   etab |-> [v \in Vertices |-> 0]]

Region(s, v) == IF s = 0 THEN 0 ELSE segs[s].region[v]

EpochTableOf(s, v) == IF s = 0 THEN 0 ELSE segs[s].etab[v]

LastEpoch(t) == t[Len(t)].epoch

(* The edges ever put: a vertex, and a position in its history. *)
NumEdges == Cardinality(UNION {{v} \X DOMAIN hist[v] : v \in Vertices})

Busy == {w \in Writers : wr[w].pc # "idle"}

-----------------------------------------------------------------------------
Init ==
  /\ wepoch = 0
  /\ hist = [v \in Vertices |-> << >>]
  /\ tabs = [v \in Vertices |-> << >>]
  /\ segptr = 0 /\ segs = << >> /\ blks = << >>
  /\ allocs = 0 /\ recycle = {} /\ freed = {}
  /\ futex = [v \in Vertices |-> NoOne]
  /\ shared = {} /\ excl = NoOne
  /\ wr = [w \in Writers |-> IdleWriter]
  /\ rd = [r \in Readers |-> IdleReader]

(* The first log of a later epoch: the runner has drained the older ones. *)
NextEpoch(e) ==
  /\ Busy = {}
  /\ e > wepoch
  /\ wepoch' = e
  /\ UNCHANGED <<store, locks, wr, rd>>

(* Mutant: recycle_segments ignores the lag. *)
RecycleAtOnce ==
  /\ Busy = {}
  /\ Cardinality(Writers) = 1
  /\ recycle # {}
  /\ recycle' = {}
  /\ freed' = freed \cup {x[1] : x \in recycle}
  /\ UNCHANGED <<wepoch, hist, tabs, segptr, segs, blks, allocs, locks, wr, rd>>

(* create_graph_writer now and then frees the segments whose replacement is *)
(* LAG_EPOCH_NUMBER epochs old; the multi-threaded build never does.        *)
Recycle ==
  /\ Busy = {}
  /\ Cardinality(Writers) = 1
  /\ LET old == {x \in recycle : x[2] + LAG_EPOCH_NUMBER < wepoch} IN
       /\ old # {}
       /\ recycle' = recycle \ old
       /\ freed' = freed \cup {x[1] : x \in old}
  /\ UNCHANGED <<wepoch, hist, tabs, segptr, segs, blks, allocs, locks, wr, rd>>

-----------------------------------------------------------------------------
(* EpochGraphWriter::put_edge *)

(* The call; the writer now waits for the futex of the vertex. *)
PutEdge(w, v) ==
  /\ wr[w].pc = "idle"
  /\ NumEdges + Cardinality(Busy) < MaxEdges
  /\ wr' = [wr EXCEPT ![w] = [IdleWriter EXCEPT !.pc = "futex", !.v = v]]
  /\ UNCHANGED <<wepoch, store, locks, rd>>

LockFutex(w) ==
  /\ wr[w].pc = "futex"
  /\ futex[wr[w].v] = NoOne
  /\ futex' = [futex EXCEPT ![wr[w].v] = w]
  /\ wr' = [wr EXCEPT ![w].pc = "start"]
  /\ UNCHANGED <<wepoch, store, shared, excl, rd>>

(* lock_shared and locate_segment; without a segment the lock is given up. *)
LocateSegment(w) ==
  /\ wr[w].pc = "start"
  /\ excl = NoOne
  /\ shared' = IF segptr = 0 THEN shared ELSE shared \cup {w}
  /\ wr' = [wr EXCEPT ![w].pc = IF segptr = 0 THEN "init" ELSE "block",
                      ![w].seg = segptr, ![w].blk = 0]
  /\ UNCHANGED <<wepoch, store, futex, excl, rd>>

CanLock == excl = NoOne /\ shared = {}

(* Under the exclusive lock, but another writer changed the segment. *)
Restart(w) ==
  /\ wr[w].pc \in {"init", "merge"}
  /\ CanLock
  /\ segptr # wr[w].seg
  /\ wr' = [wr EXCEPT ![w].pc = "start"]
  /\ UNCHANGED <<wepoch, store, locks, rd>>

(* The first segment, and the edge label block that will point to it, whose *)
(* allocation update_edge_label_block does not check.                       *)
InitSegment(w) ==
  /\ wr[w].pc = "init"
  /\ CanLock
  /\ segptr = wr[w].seg
  /\ allocs < MemLimit
  /\ IF allocs + 1 = MemLimit
     THEN /\ allocs' = allocs + 1
          /\ wr' = [wr EXCEPT ![w].pc = "dead"]
          /\ UNCHANGED <<segs, segptr>>
     ELSE /\ allocs' = allocs + 2
          /\ segs' = Append(segs, NewSegment(1))
          /\ segptr' = Len(segs) + 1
          /\ wr' = [wr EXCEPT ![w].pc = "reshare", ![w].seg = Len(segs) + 1]
  /\ UNCHANGED <<wepoch, hist, tabs, blks, recycle, freed, locks, rd>>

(* After unlock, lock_shared again; the segment is not located again. *)
Reshare(w) ==
  /\ wr[w].pc = "reshare"
  /\ excl = NoOne
  /\ shared' = shared \cup {w}
  /\ wr' = [wr EXCEPT ![w].pc = IF wr[w].blk = 0 THEN "block" ELSE "table"]
  /\ UNCHANGED <<wepoch, store, futex, excl, rd>>

(* The vertex's block still has space. *)
UseBlock(w) ==
  LET b == segs[wr[w].seg].region[wr[w].v] IN
  /\ wr[w].pc = "block"
  /\ b # 0 /\ HasSpace(b)
  /\ wr' = [wr EXCEPT ![w].pc = "table", ![w].blk = b]
  /\ UNCHANGED <<wepoch, store, locks, rd>>

(* The order of the block put_edge asks the segment for. *)
NewBlockOrder(b) == IF b = 0 THEN DEFAULT_INIT_ORDER ELSE blks[b].order + 1

(* A small block is copied into its successor, a large one linked to it. *)
NewBlock(b, order) ==
  IF order >= COPY_THRESHOLD_ORDER
  THEN [order |-> order, prev |-> b, ents |-> << >>,
        prevnum |-> IF b = 0 THEN 0 ELSE blks[b].prevnum + Len(blks[b].ents)]
  ELSE [order |-> order, prev |-> 0, prevnum |-> 0,
        ents |-> IF b = 0 THEN << >> ELSE blks[b].ents]

NeedsBlock(w) ==
  /\ wr[w].pc = "block"
  /\ LET b == segs[wr[w].seg].region[wr[w].v] IN b # 0 => ~HasSpace(b)

(* VegitoSegmentHeader::alloc counts the slots also when it fails. *)
SlotsAfter(w) ==
  LET s == segs[wr[w].seg]
  IN  s.used + BlockSlots(NewBlockOrder(s.region[wr[w].v]))

GrowBlock(w) ==
  LET s == wr[w].seg
      v == wr[w].v
      b == segs[s].region[v]
  IN /\ NeedsBlock(w)
     /\ SlotsAfter(w) <= SegSlots[segs[s].order]
     /\ blks' = Append(blks, NewBlock(b, NewBlockOrder(b)))
     /\ segs' = [segs EXCEPT ![s].used = SlotsAfter(w),
                             ![s].region[v] = Len(blks) + 1]
     /\ wr' = [wr EXCEPT ![w].pc = "table", ![w].blk = Len(blks) + 1]
     /\ UNCHANGED <<wepoch, hist, tabs, segptr, allocs, recycle, freed, locks, rd>>

SegmentFull(w) ==
  LET s == wr[w].seg
  IN /\ NeedsBlock(w)
     /\ SlotsAfter(w) > SegSlots[segs[s].order]
     /\ segs' = [segs EXCEPT ![s].used = SlotsAfter(w)]
     /\ shared' = shared \ {w}
     /\ wr' = [wr EXCEPT ![w].pc = "merge"]
     /\ UNCHANGED <<wepoch, hist, tabs, segptr, blks, allocs, recycle, freed,
                    futex, excl, rd>>

(* merge_segment: the vertices that get a block in the new segment, and how *)
(* many entries that block is made for: one more for the writer's vertex.   *)
Merged(s, v) ==
  {u \in Vertices : u = v \/ Chain(segs[s].region[u]) # << >>}

(* Mutant: no room for the edge that is about to be put. *)
MergedOrderTight(s, u, v) == SizeToOrder(Len(Chain(segs[s].region[u])))

MergedOrder(s, u, v) ==
  LET n == Len(Chain(segs[s].region[u])) IN SizeToOrder(IF u = v THEN n + 1 ELSE n)

MergedSlots(s, v) ==
  MapThenSumSet(LAMBDA u : BlockSlots(MergedOrder(s, u, v)), Merged(s, v))

(* Mutant: the tables are not carried over. *)
NoTables(s, M) == [u \in Vertices |-> 0]

MergedTables(s, M) == [u \in Vertices |-> IF u \in M THEN segs[s].etab[u] ELSE 0]

(* Mutant: the new segment is not larger. *)
SameOrder(s) == segs[s].order

MergeOrder(s) == segs[s].order + 1

(* The blocks of the merged vertices, in any order behind the present ones. *)
Places(M) ==
  CHOOSE f \in [M -> Len(blks) + 1 .. Len(blks) + Cardinality(M)] :
    \A x, y \in M : x # y => f[x] # f[y]

MergedBlock(s, u, v) ==
  [order |-> MergedOrder(s, u, v), prev |-> 0, prevnum |-> 0,
   ents |-> Chain(segs[s].region[u])]

(* A full segment is compacted into one of the next order, the old one is   *)
(* queued for recycling.  The tables are shared by both.  merge_segment     *)
(* does not check that the new segment can hold the blocks.                 *)
MergeSegment(w) ==
  LET s == wr[w].seg
      v == wr[w].v
      M == Merged(s, v)
      at == Places(M)
      new == [order |-> MergeOrder(s), used |-> MergedSlots(s, v),
              region |-> [u \in Vertices |-> IF u \in M THEN at[u] ELSE 0],
              etab |-> MergedTables(s, M)]
  IN /\ wr[w].pc = "merge"
     /\ CanLock
     /\ segptr = s
     /\ allocs < MemLimit
     /\ allocs' = allocs + 1
     /\ IF MergedSlots(s, v) > SegSlots[MergeOrder(s)]
        THEN /\ wr' = [wr EXCEPT ![w].pc = "crashed"]
             /\ UNCHANGED <<segs, blks, segptr, recycle>>
        ELSE /\ blks' = blks \o [i \in 1 .. Cardinality(M) |->
                           MergedBlock(s, CHOOSE u \in M : at[u] = Len(blks) + i, v)]
             /\ segs' = Append(segs, new)
             /\ segptr' = Len(segs) + 1
             /\ recycle' = recycle \cup {<<s, wepoch>>}
             /\ wr' = [wr EXCEPT ![w].pc = "reshare", ![w].seg = Len(segs) + 1,
                                 ![w].blk = at[v]]
     /\ UNCHANGED <<wepoch, hist, tabs, freed, locks, rd>>

(* Epoch table of the vertex, while the writer holds the lock shared. *)
Table(w) == segs[wr[w].seg].etab[wr[w].v]

CreateTable(w) ==
  LET v == wr[w].v IN
  /\ wr[w].pc = "table"
  /\ Table(w) = 0
  /\ allocs < MemLimit
  /\ allocs' = allocs + 1
  /\ tabs' = [tabs EXCEPT ![v] = Append(@, <<[offset |-> 0, epoch |-> wepoch]>>)]
  /\ segs' = [segs EXCEPT ![wr[w].seg].etab[v] = Len(tabs[v]) + 1]
  /\ wr' = [wr EXCEPT ![w].pc = "edge"]
  /\ UNCHANGED <<wepoch, hist, segptr, blks, recycle, freed, locks, rd>>

NewEpochDue(w) ==
  /\ wr[w].pc \in {"table", "append"}
  /\ Table(w) # 0
  /\ LastEpoch(tabs[wr[w].v][Table(w)]) < wepoch

TableFull(w) == Len(tabs[wr[w].v][Table(w)]) >= TableCap(Table(w))

ReplaceTable(w) ==
  LET v == wr[w].v IN
  /\ NewEpochDue(w)
  /\ TableFull(w)
  /\ allocs < MemLimit
  /\ allocs' = allocs + 1
  /\ tabs' = [tabs EXCEPT ![v] = Append(@, @[Table(w)])]
  /\ segs' = [segs EXCEPT ![wr[w].seg].etab[v] = Len(tabs[v]) + 1]
  /\ wr' = [wr EXCEPT ![w].pc = "append"]
  /\ UNCHANGED <<wepoch, hist, segptr, blks, recycle, freed, locks, rd>>

AppendEpoch(w) ==
  LET v == wr[w].v
      b == wr[w].blk
  IN /\ NewEpochDue(w)
     /\ ~TableFull(w)
     /\ tabs' = [tabs EXCEPT ![v][Table(w)] = Append(@,
                   [offset |-> blks[b].prevnum + Len(blks[b].ents),
                    epoch  |-> wepoch])]
     /\ wr' = [wr EXCEPT ![w].pc = "edge"]
     /\ UNCHANGED <<wepoch, hist, segptr, segs, blks, allocs, recycle, freed,
                    locks, rd>>

(* Mutant: put_edge returns with the futex still taken. *)
StillTaken(v) == futex

Released(v) == [futex EXCEPT ![v] = NoOne]

(* append does nothing, and put_edge does not notice, when the block is full. *)
AppendEdge(w) ==
  LET v == wr[w].v IN
  /\ wr[w].pc \in {"table", "edge"}
  /\ Table(w) # 0
  /\ LastEpoch(tabs[v][Table(w)]) >= wepoch
  /\ hist' = [hist EXCEPT ![v] = Append(@, wepoch)]
  /\ blks' = [blks EXCEPT ![wr[w].blk].ents =
                IF HasSpace(wr[w].blk) THEN Append(@, Len(hist[v]) + 1) ELSE @]
  /\ shared' = shared \ {w}
  /\ futex' = Released(v)
  /\ wr' = [wr EXCEPT ![w] = IdleWriter]
  /\ UNCHANGED <<wepoch, tabs, segptr, segs, allocs, recycle, freed, excl, rd>>

(* Out of memory: put_edge returns without releasing what it holds. *)
OutOfMemory(w) ==
  /\ allocs >= MemLimit
  /\ \/ /\ wr[w].pc \in {"init", "merge"}
        /\ CanLock
        /\ segptr = wr[w].seg
        /\ excl' = w
     \/ /\ \/ wr[w].pc = "table" /\ Table(w) = 0
           \/ NewEpochDue(w) /\ TableFull(w)
        /\ UNCHANGED excl
  /\ wr' = [wr EXCEPT ![w] = IdleWriter]
  /\ UNCHANGED <<wepoch, store, futex, shared, rd>>

WriterStep(w) ==
  \/ LockFutex(w)
  \/ LocateSegment(w) \/ Restart(w) \/ InitSegment(w) \/ Reshare(w)
  \/ UseBlock(w) \/ GrowBlock(w) \/ SegmentFull(w) \/ MergeSegment(w)
  \/ CreateTable(w) \/ ReplaceTable(w) \/ AppendEpoch(w) \/ AppendEdge(w)
  \/ OutOfMemory(w)

Write(w) == WriterStep(w) \/ \E v \in Vertices : PutEdge(w, v)

-----------------------------------------------------------------------------
(* Readers of a published epoch.  "internal" is EpochGraphReader, which     *)
(* loads the block before the table and keeps the segment it located;       *)
(* "fragment" is GartFragment, which loads the table first.                 *)

OpenReader(r, e, kind) ==
  /\ rd[r].pc = "idle"
  /\ e < wepoch
  /\ rd' = [rd EXCEPT ![r] =
              [IdleReader EXCEPT !.pc = "ready", !.epoch = e, !.kind = kind]]
  /\ UNCHANGED <<wepoch, store, locks, wr>>

(* get_edges up to the point where the segment is known. *)
GetEdges(r, v) ==
  LET cached == rd[r].kind = "internal" /\ rd[r].seg # 0
      seen(u) == Len(Chain(Region(segptr, u)))
  IN /\ rd[r].pc = "ready"
     /\ rd' = [rd EXCEPT ![r] =
          IF cached
          THEN [@ EXCEPT !.pc = "load", !.v = v]
          ELSE [@ EXCEPT !.pc = "load", !.v = v, !.seg = segptr, !.at = wepoch,
                  !.base = [u \in Vertices |-> seen(u)],
                  !.baseTab = [u \in Vertices |-> EpochTableOf(segptr, u)]]]
     /\ UNCHANGED <<wepoch, store, locks, wr>>

LoadBlock(r) ==
  LET b == Region(rd[r].seg, rd[r].v) IN
  /\ rd[r].pc = "load"
  /\ rd[r].blk = NotLoaded
  /\ rd[r].kind = "fragment" => rd[r].tab # NotLoaded
  /\ rd' = [rd EXCEPT ![r].blk = b, ![r].low = Len(Chain(b))]
  /\ UNCHANGED <<wepoch, store, locks, wr>>

LoadTable(r) ==
  /\ rd[r].pc = "load"
  /\ rd[r].tab = NotLoaded
  /\ rd[r].kind = "internal" => rd[r].blk # NotLoaded
  /\ rd' = [rd EXCEPT ![r].tab = EpochTableOf(rd[r].seg, rd[r].v)]
  /\ UNCHANGED <<wepoch, store, locks, wr>>

Loaded(r) ==
  /\ rd[r].pc = "load"
  /\ rd[r].blk # NotLoaded
  /\ rd[r].tab # NotLoaded

ReadNull(r) ==
  /\ Loaded(r)
  /\ rd[r].blk = 0 \/ rd[r].tab = 0
  /\ rd' = [rd EXCEPT ![r].pc = "done", ![r].out = << >>]
  /\ UNCHANGED <<wepoch, store, locks, wr>>

(* num_entries of the block, here as a position in the list.  A writer      *)
(* overtook the reader if it has replaced the loaded table.                 *)
LoadNum(r) ==
  /\ Loaded(r)
  /\ rd[r].blk # 0 /\ rd[r].tab # 0
  /\ LET b == blks[rd[r].blk] IN
       /\ rd[r].kind = "fragment" => b.ents # << >>
       /\ rd' = [rd EXCEPT ![r].pc = "init", ![r].num = b.prevnum + Len(b.ents),
            ![r].view = IF rd[r].tab = EpochTableOf(segptr, rd[r].v)
                        THEN "fresh" ELSE "stale"]
  /\ UNCHANGED <<wepoch, store, locks, wr>>

(* GartFragment returns at once when the newest block holds no entry. *)
ReadEmptyBlock(r) ==
  /\ Loaded(r)
  /\ rd[r].kind = "fragment"
  /\ rd[r].blk # 0 /\ rd[r].tab # 0
  /\ blks[rd[r].blk].ents = << >>
  /\ rd' = [rd EXCEPT ![r].pc = "done", ![r].out = << >>,
                      ![r].view = IF rd[r].low = 0 THEN "fresh" ELSE "stale"]
  /\ UNCHANGED <<wepoch, store, locks, wr>>

(* The block in which the entry before offset end lies. *)
BlockBefore(b, end) ==
  LET walk[c \in 1 .. Len(blks)] ==
        IF blks[c].prevnum >= end THEN walk[blks[c].prev] ELSE c
  IN  walk[b]

(* Mutant: every entry of the block counts as reached. *)
ReachedAll(b, num, t, e) ==
  IF \A k \in 1 .. Len(t) : t[k].epoch > e
  THEN << >>
  ELSE Chain(blks[b].prev) \o SubSeq(blks[b].ents, 1, num - blks[b].prevnum)

(* EdgeIterator::init on the table as it is now, then the walk down the     *)
(* chain: the entries of the epochs up to the k-th entry of the table.      *)
Reached(b, num, t, e) ==
  LET ks == {k \in 1 .. Len(t) : t[k].epoch <= e}
      k  == Max(ks)
      upTo(c, n) == Chain(blks[c].prev) \o SubSeq(blks[c].ents, 1, n)
  IN CASE ks = {}    -> << >>
       [] ks # {} /\ k = Len(t) -> upTo(b, num - blks[b].prevnum)
       [] OTHER      -> LET end == t[k + 1].offset
                            c   == BlockBefore(b, end)
                        IN  upTo(c, end - blks[c].prevnum)

InitIterator(r) ==
  /\ rd[r].pc = "init"
  /\ rd' = [rd EXCEPT ![r].pc = "done",
              ![r].out = Reached(rd[r].blk, rd[r].num,
                                 tabs[rd[r].v][rd[r].tab], rd[r].epoch)]
  /\ UNCHANGED <<wepoch, store, locks, wr>>

(* The segment was recycled and may hold anything (here: n unknown edges). *)
ReadRecycled(r) ==
  /\ rd[r].pc \in {"load", "init"}
  /\ rd[r].seg \in freed
  /\ \E n \in 0 .. 1 :
       rd' = [rd EXCEPT ![r].pc = "done", ![r].out = [i \in 1 .. n |-> 0],
                        ![r].view = "stale"]
  /\ UNCHANGED <<wepoch, store, locks, wr>>

(* The iterator is dropped; the reader may go on to another vertex. *)
EndRead(r) ==
  /\ rd[r].pc = "done"
  /\ rd' = [rd EXCEPT ![r] =
              [IdleReader EXCEPT !.pc = "ready", !.kind = rd[r].kind,
                 !.epoch = rd[r].epoch, !.seg = rd[r].seg, !.at = rd[r].at,
                 !.base = rd[r].base, !.baseTab = rd[r].baseTab]]
  /\ UNCHANGED <<wepoch, store, locks, wr>>

CloseReader(r) ==
  /\ rd[r].pc = "ready"
  /\ rd' = [rd EXCEPT ![r] = IdleReader]
  /\ UNCHANGED <<wepoch, store, locks, wr>>

Read(r) ==
  \/ \E e \in LogEpochs, kind \in {"internal", "fragment"} : OpenReader(r, e, kind)
  \/ \E v \in Vertices : GetEdges(r, v)
  \/ LoadBlock(r) \/ LoadTable(r) \/ ReadNull(r) \/ LoadNum(r)
  \/ ReadEmptyBlock(r) \/ InitIterator(r) \/ ReadRecycled(r)
  \/ EndRead(r) \/ CloseReader(r)

Next ==
  \/ \E e \in LogEpochs : NextEpoch(e)
  \/ Recycle
  \/ \E w \in Writers : Write(w)
  \/ \E r \in Readers : Read(r)

Spec == Init /\ [][Next]_vars

(* A writer thread inside put_edge keeps running, and gets a lock that      *)
(* stays available.  Nothing is asked of a lock that others keep taking:    *)
(* that their puts come to an end is the bound MaxEdges.                    *)
FairSpec == Spec /\ \A w \in Writers : WF_vars(WriterStep(w))

-----------------------------------------------------------------------------
TypeOK ==
  /\ wepoch \in LogEpochs
  /\ \A v \in Vertices : hist[v] \in Seq(LogEpochs)
  /\ segptr \in 0 .. Len(segs)
  /\ \A s \in 1 .. Len(segs), v \in Vertices :
       /\ segs[s].region[v] \in 0 .. Len(blks)
       /\ segs[s].etab[v] \in 0 .. Len(tabs[v])
  /\ \A b \in 1 .. Len(blks) : blks[b].prev \in 0 .. b - 1
  /\ freed \subseteq 1 .. Len(segs)
  /\ futex \in [Vertices -> Writers \cup {NoOne}]
  /\ shared \subseteq Writers /\ excl \in Writers \cup {NoOne}
  /\ \A w \in Writers : wr[w].pc \in {"idle", "futex", "start", "init", "reshare",
                                      "block", "merge", "table", "append", "edge",
                                      "crashed", "dead"}
  /\ \A r \in Readers : rd[r].pc \in {"idle", "ready", "load", "init", "done"}

Iota(n) == [i \in 1 .. n |-> i]

(* Whatever was copied, linked or merged: the chain that the current        *)
(* segment holds for a vertex is every edge put so far, in order, and the   *)
(* offsets of the linked blocks agree with it.                              *)
ChainIsLog ==
  \A v \in Vertices :
    LET b == Region(segptr, v) IN
    /\ Chain(b) = Iota(Len(hist[v]))
    /\ b # 0 => blks[b].prevnum = Len(Chain(blks[b].prev))

UpTo(v, e) == Cardinality({i \in 1 .. Len(hist[v]) : hist[v][i] <= e})

HasSnapshot(r) == rd[r].out = Iota(UpTo(rd[r].v, rd[r].epoch))

(* A finished read that no writer overtook returns exactly the edges of the *)
(* epochs up to its own, through whichever segment, block and table it      *)
(* reached them.                                                            *)
SnapshotRead ==
  \A r \in Readers : rd[r].pc = "done" /\ rd[r].view = "fresh" => HasSnapshot(r)

(* The segment a reader holds is recycled only when the writer is more than *)
(* LAG_EPOCH_NUMBER epochs past the moment the reader located it.           *)
RecycleLag ==
  \A r \in Readers :
    rd[r].pc # "idle" /\ rd[r].seg \in freed =>
      rd[r].at + LAG_EPOCH_NUMBER < wepoch

(* The unchecked allocations of merge_segment never fail: a segment of the  *)
(* next order holds all merged blocks, the grown one of the writer's vertex *)
(* included.                                                                *)
MergeFits == \A w \in Writers : wr[w].pc # "crashed"

InChain(s, v, i) == \E k \in DOMAIN Chain(segs[s].region[v]) : Chain(segs[s].region[v])[k] = i

(* Every edge whose put_edge returned is in its vertex's chain, at least of *)
(* a segment that was replaced: a writer that takes the shared lock again   *)
(* may miss the current segment, but never appends to a block without room, *)
(* and no chain of any segment, merged or not, repeats or reorders edges.   *)
EdgesKept ==
  /\ MergeFits
  /\ \A v \in Vertices : \A i \in DOMAIN hist[v] : \E s \in DOMAIN segs : InChain(s, v, i)
  /\ \A v \in Vertices : \A s \in DOMAIN segs :
       LET c == Chain(segs[s].region[v]) IN \A j, k \in DOMAIN c : j < k => c[j] < c[k]

(* With enough memory no put_edge waits for ever for its vertex's futex or  *)
(* for the segment's lock, nor goes round the restart loop for ever.        *)
PutCompletes == \A w \in Writers : wr[w].pc # "idle" ~> wr[w].pc = "idle"

(* The NOTICE of EpochGraphReader::get_edges_in_seg: because num_entries is *)
(* read before the table, a read of a published epoch returns its snapshot. *)
InternalSnapshot ==
  \A r \in Readers :
    rd[r].pc = "done" /\ rd[r].kind = "internal" /\ rd[r].seg \notin freed =>
      HasSnapshot(r)

(* GartFragment::get_edges_in_seg_ returns no edges only if there are none  *)
(* to read.                                                                 *)
FragmentEmpty ==
  \A r \in Readers :
    rd[r].pc = "done" /\ rd[r].kind = "fragment" /\ rd[r].seg \notin freed
      /\ rd[r].out = << >> => UpTo(rd[r].v, rd[r].epoch) = 0

-----------------------------------------------------------------------------
(* Each vertex's adjacency list is an EpochTable. *)
AbstractReader(v, r) ==
  LET q == rd[r] IN
  [pc      |-> IF q.v = v /\ q.pc # "ready" THEN q.pc ELSE "idle",
   epoch   |-> IF q.v = v THEN q.epoch ELSE 0,
   base    |-> IF q.v = v THEN q.base[v] ELSE 0,
   baseTab |-> IF q.v = v THEN q.baseTab[v] ELSE 0,
   low     |-> IF q.v = v /\ q.blk # NotLoaded THEN q.low ELSE NotLoaded,
   tab     |-> IF q.v = v THEN q.tab ELSE NotLoaded,
   num     |-> IF q.v = v THEN q.num ELSE 0,
   out     |-> IF q.v = v THEN Len(q.out) ELSE 0,
   view    |-> IF q.v = v THEN q.view ELSE "fresh"]

AbstractWriter(v) ==
  IF \E w \in Writers : wr[w].v = v /\ wr[w].pc \in {"append", "edge"}
  THEN "put" ELSE "idle"
=============================================================================
