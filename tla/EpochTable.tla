----------------------------- MODULE EpochTable -----------------------------
(***************************************************************************)
(* The multi-version protocol of one adjacency list of the SegGraph store: *)
(* an append-only list of edge entries, the epoch table that says at which *)
(* offset each write epoch starts, one writer (EpochGraphWriter::put_edge, *)
(* serialised by the vertex futex) and lock-free readers of older epochs   *)
(* (EpochGraphReader and the GartFragment of other processes).             *)
(*                                                                         *)
(* Edge blocks and segments are abstracted away: SegGraph adds them, and   *)
(* is checked to implement this specification.                             *)
(***************************************************************************)
EXTENDS Orders, Sequences

CONSTANTS
  Readers,     \* concurrent readers of the list
  MaxEpoch,    \* bound: highest write epoch
  MaxEdges     \* bound: entries ever put in the list

ASSUME BoundsAssumption == MaxEpoch \in Nat /\ MaxEdges \in Nat

VARIABLES
  wepoch,   \* write epoch of the log being applied (write_epoch_id)
  elog,     \* the edge entries, each represented by the epoch that wrote it
  tabs,     \* every epoch table ever allocated for the list, oldest first
  cur,      \* index in tabs of the table the segment points to; 0: none
  wpc,      \* "put" while a put_edge has touched the table but not yet the list
  rd        \* state of each reader

vars == <<wepoch, elog, tabs, cur, wpc, rd>>

Epochs == 0 .. MaxEpoch

EpochEntry == [offset : Nat, epoch : Epochs]

(* A pointer a reader has not loaded yet. *)
NotLoaded == -1

(* A reader: its control point, its read epoch, the list and the table as   *)
(* they were when it located its segment, the entries of the block it       *)
(* loaded, the table pointer it loaded, num_entries, the number of entries  *)
(* it will visit, and whether a writer overtook it ("stale") meanwhile.     *)
IdleReader ==
  [pc |-> "idle", epoch |-> 0, base |-> 0, baseTab |-> 0, low |-> NotLoaded,
   tab |-> NotLoaded, num |-> 0, out |-> 0, view |-> "fresh"]

LastEpoch(t) == t[Len(t)].epoch

TableFull(k) == Len(tabs[k]) >= TableCap(k)

-----------------------------------------------------------------------------
Init ==
  /\ wepoch = 0
  /\ elog = << >>
  /\ tabs = << >>
  /\ cur = 0
  /\ wpc = "idle"
  /\ rd = [r \in Readers |-> IdleReader]

(* A log of a later epoch arrives; the epochs before it are published. *)
NextEpoch(e) ==
  /\ wpc = "idle"
  /\ e > wepoch
  /\ wepoch' = e
  /\ UNCHANGED <<elog, tabs, cur, wpc, rd>>

(* Mutant: the segment is made to point behind the new table. *)
CreateTableOff ==
  /\ cur = 0
  /\ Len(elog) < MaxEdges
  /\ tabs' = Append(tabs, <<[offset |-> 0, epoch |-> wepoch]>>)
  /\ cur' = Len(tabs) + 2
  /\ wpc' = "put"
  /\ UNCHANGED <<wepoch, elog, rd>>

(* First edge of the list: the table starts with offset 0. *)
CreateTable ==
  /\ cur = 0
  /\ Len(elog) < MaxEdges
  /\ tabs' = Append(tabs, <<[offset |-> 0, epoch |-> wepoch]>>)
  /\ cur' = Len(tabs) + 1
  /\ wpc' = "put"
  /\ UNCHANGED <<wepoch, elog, rd>>

(* Mutant: the copy loop starts one entry late. *)
ReplaceTableShort ==
  /\ cur # 0
  /\ Len(elog) < MaxEdges
  /\ LastEpoch(tabs[cur]) < wepoch
  /\ TableFull(cur)
  /\ tabs' = Append(tabs, Tail(tabs[cur]))
  /\ cur' = Len(tabs) + 1
  /\ wpc' = "put"
  /\ UNCHANGED <<wepoch, elog, rd>>

(* A full table is copied into one of the next order, which replaces it. *)
ReplaceTable ==
  /\ cur # 0
  /\ Len(elog) < MaxEdges
  /\ LastEpoch(tabs[cur]) < wepoch
  /\ TableFull(cur)
  /\ tabs' = Append(tabs, tabs[cur])
  /\ cur' = Len(tabs) + 1
  /\ wpc' = "put"
  /\ UNCHANGED <<wepoch, elog, rd>>

(* Mutant: the epoch is recorded as if its first edge were already there. *)
AppendEpochLate ==
  /\ cur # 0
  /\ Len(elog) < MaxEdges
  /\ LastEpoch(tabs[cur]) < wepoch
  /\ ~TableFull(cur)
  /\ tabs' = [tabs EXCEPT ![cur] =
                Append(@, [offset |-> Len(elog) + 1, epoch |-> wepoch])]
  /\ wpc' = "put"
  /\ UNCHANGED <<wepoch, elog, cur, rd>>

(* The first edge of an epoch records where the epoch starts. *)
AppendEpoch ==
  /\ cur # 0
  /\ Len(elog) < MaxEdges
  /\ LastEpoch(tabs[cur]) < wepoch
  /\ ~TableFull(cur)
  /\ tabs' = [tabs EXCEPT ![cur] =
                Append(@, [offset |-> Len(elog), epoch |-> wepoch])]
  /\ wpc' = "put"
  /\ UNCHANGED <<wepoch, elog, cur, rd>>

AppendEdge ==
  /\ cur # 0
  /\ Len(elog) < MaxEdges
  /\ LastEpoch(tabs[cur]) >= wepoch
  /\ elog' = Append(elog, wepoch)
  /\ wpc' = "idle"
  /\ UNCHANGED <<wepoch, tabs, cur, rd>>

-----------------------------------------------------------------------------
(* A reader of a published epoch e, through a segment it located at some    *)
(* moment since then: the n entries the list had, and the table c.          *)
BeginRead(r, e) ==
  /\ rd[r].pc = "idle"
  /\ e < wepoch
  /\ \E n \in 0 .. Len(elog), c \in 0 .. cur :
       /\ \A i \in (n + 1) .. Len(elog) : elog[i] > e
       /\ c = 0 => n = 0
       /\ rd' = [rd EXCEPT ![r] = [IdleReader EXCEPT !.pc = "load", !.epoch = e,
                                     !.base = n, !.baseTab = c]]
  /\ UNCHANGED <<wepoch, elog, tabs, cur, wpc>>

(* segment->get_region_ptr: the segment may have been replaced since. *)
LoadBlock(r) ==
  /\ rd[r].pc = "load"
  /\ rd[r].low = NotLoaded
  /\ \E n \in rd[r].base .. Len(elog) : rd' = [rd EXCEPT ![r].low = n]
  /\ UNCHANGED <<wepoch, elog, tabs, cur, wpc>>

(* segment->get_epoch_table *)
LoadTable(r) ==
  /\ rd[r].pc = "load"
  /\ rd[r].tab = NotLoaded
  /\ \E c \in rd[r].baseTab .. cur : rd' = [rd EXCEPT ![r].tab = c]
  /\ UNCHANGED <<wepoch, elog, tabs, cur, wpc>>

(* One of the two pointers is null: the list was empty when it was loaded. *)
ReadNull(r) ==
  /\ rd[r].pc = "load"
  /\ \/ rd[r].low = 0
     \/ rd[r].tab = 0
  /\ rd' = [rd EXCEPT ![r].pc = "done", ![r].out = 0]
  /\ UNCHANGED <<wepoch, elog, tabs, cur, wpc>>

(* num_entries of the loaded block, which the writer may have filled and    *)
(* left since: any length between then and now.  The reader is overtaken if *)
(* the table it holds is no longer the one the writer appends epochs to.    *)
LoadNum(r) ==
  /\ rd[r].pc = "load"
  /\ rd[r].low # NotLoaded
  /\ rd[r].tab # NotLoaded
  /\ rd[r].tab # 0
  /\ \E n \in rd[r].low .. Len(elog) :
       rd' = [rd EXCEPT ![r].pc = "init", ![r].num = n,
                        ![r].view = IF rd[r].tab = cur THEN "fresh" ELSE "stale"]
  /\ UNCHANGED <<wepoch, elog, tabs, cur, wpc>>

(* The fragment's early return when the loaded block holds no entry yet. *)
ReadEmptyBlock(r) ==
  /\ rd[r].pc = "load"
  /\ rd[r].low # NotLoaded
  /\ rd[r].tab # NotLoaded
  /\ rd[r].tab # 0
  /\ rd' = [rd EXCEPT ![r].pc = "done", ![r].out = 0,
                      ![r].view = IF rd[r].low = 0 THEN "fresh" ELSE "stale"]
  /\ UNCHANGED <<wepoch, elog, tabs, cur, wpc>>

(* k is the newest entry of table t that read epoch e reaches. *)
NewestReached(t, k, e) ==
  /\ t[k].epoch <= e
  /\ \A j \in (k + 1) .. Len(t) : t[j].epoch > e

(* EdgeIterator::init, which reads the table's entry count only now: the    *)
(* newest reached entry says where the iterator starts, the next one where  *)
(* the first unreached epoch begins.                                        *)
InitIterator(r) ==
  /\ rd[r].pc = "init"
  /\ LET t == tabs[rd[r].tab]
         e == rd[r].epoch
     IN \/ /\ \A k \in 1 .. Len(t) : t[k].epoch > e
           /\ rd' = [rd EXCEPT ![r].pc = "done", ![r].out = 0]
        \/ \E k \in 1 .. Len(t) :
             /\ NewestReached(t, k, e)
             /\ rd' = [rd EXCEPT ![r].pc = "done",
                         ![r].out = IF k = Len(t) THEN rd[r].num
                                                  ELSE t[k + 1].offset]
  /\ UNCHANGED <<wepoch, elog, tabs, cur, wpc>>

(* The segment was recycled under the reader: what it finds is arbitrary. *)
ReadRecycled(r) ==
  /\ rd[r].pc \in {"load", "init"}
  /\ \E n \in 0 .. MaxEdges :
       rd' = [rd EXCEPT ![r].pc = "done", ![r].out = n, ![r].view = "stale"]
  /\ UNCHANGED <<wepoch, elog, tabs, cur, wpc>>

EndRead(r) ==
  /\ rd[r].pc = "done"
  /\ rd' = [rd EXCEPT ![r] = IdleReader]
  /\ UNCHANGED <<wepoch, elog, tabs, cur, wpc>>

-----------------------------------------------------------------------------
Write == CreateTable \/ ReplaceTable \/ AppendEpoch \/ AppendEdge

Read(r) ==
  \/ \E e \in Epochs : BeginRead(r, e)
  \/ LoadBlock(r)
  \/ LoadTable(r)
  \/ ReadNull(r)
  \/ LoadNum(r)
  \/ ReadEmptyBlock(r)
  \/ InitIterator(r)
  \/ ReadRecycled(r)
  \/ EndRead(r)

Next ==
  \/ \E e \in Epochs : NextEpoch(e)
  \/ Write
  \/ \E r \in Readers : Read(r)

Spec == Init /\ [][Next]_vars

-----------------------------------------------------------------------------
ReaderType ==
  [pc : {"idle", "load", "init", "done"}, epoch : Epochs,
   base : Nat, baseTab : Nat, low : Nat \cup {NotLoaded}, tab : Nat \cup {NotLoaded},
   num : Nat, out : Nat, view : {"fresh", "stale"}]

TypeOK ==
  /\ wepoch \in Epochs
  /\ elog \in Seq(Epochs)
  /\ tabs \in Seq(Seq(EpochEntry))
  /\ cur \in 0 .. Len(tabs)
  /\ wpc \in {"idle", "put"}
  /\ rd \in [Readers -> ReaderType]

SnapshotOf(r) ==
  rd[r].pc = "done" /\ rd[r].view = "fresh" =>
    /\ rd[r].out <= Len(elog)
    /\ \A i \in 1 .. Len(elog) : i <= rd[r].out <=> elog[i] <= rd[r].epoch

(* A finished read of epoch e that no writer overtook visits exactly the    *)
(* entries written by epochs up to e, now and ever after: put_edge and the  *)
(* readers give every published epoch a fixed snapshot without a lock.      *)
SnapshotRead == \A r \in Readers : SnapshotOf(r)

-----------------------------------------------------------------------------
(* The inductive invariant behind SnapshotRead. *)

(* Epochs only grow along the list. *)
LogSorted ==
  /\ \A i \in 1 .. Len(elog) : elog[i] <= wepoch
  /\ \A i, j \in 1 .. Len(elog) : i <= j => elog[i] <= elog[j]

(* What every table ever allocated says of the list, also once replaced. *)
TableSound(t) ==
  /\ Len(t) >= 1
  /\ t[1].offset = 0
  /\ \A k \in 1 .. Len(t) :
       /\ t[k].epoch <= wepoch
       /\ t[k].offset <= Len(elog)
       /\ \A i \in 1 .. Len(elog) : i > t[k].offset => elog[i] >= t[k].epoch
       /\ k > 1 => \A i \in 1 .. Len(elog) :
                     i <= t[k].offset => elog[i] <= t[k - 1].epoch

TablesSound == \A k \in 1 .. Len(tabs) : TableSound(tabs[k])

(* Only the current table is known to reach the end of the list. *)
CurrentComplete ==
  /\ cur = 0 => elog = << >>
  /\ cur # 0 => \A i \in 1 .. Len(elog) : elog[i] <= LastEpoch(tabs[cur])

ReaderSound(r) ==
  LET q == rd[r] IN
  /\ q.pc # "idle" =>
       /\ q.epoch < wepoch
       /\ q.base <= Len(elog)
       /\ q.baseTab = 0 => q.base = 0
       /\ \A i \in 1 .. Len(elog) : i > q.base => elog[i] > q.epoch
  /\ q.low # NotLoaded =>
       /\ q.pc # "idle"
       /\ q.base <= q.low
       /\ q.low <= Len(elog)
  /\ q.tab # NotLoaded =>
       /\ q.pc # "idle"
       /\ q.tab <= Len(tabs)
       /\ q.baseTab <= q.tab
  /\ q.pc = "load" => q.view = "fresh"
  /\ q.pc = "init" =>
       /\ q.low # NotLoaded
       /\ q.tab # NotLoaded
       /\ q.tab # 0
       /\ q.low <= q.num
       /\ q.num <= Len(elog)
       /\ q.view = "fresh" => \A i \in 1 .. Len(elog) :
                        i <= q.num => elog[i] <= LastEpoch(tabs[q.tab])

IInv ==
  /\ TypeOK
  /\ LogSorted
  /\ TablesSound
  /\ CurrentComplete
  /\ \A r \in Readers : ReaderSound(r)
  /\ SnapshotRead
=============================================================================
