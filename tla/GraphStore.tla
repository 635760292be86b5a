----------------------------- MODULE GraphStore -----------------------------
(***************************************************************************)
(* The graph of every fragment, as the log operations build it: the        *)
(* adjacency lists of inner and outer vertices with their delete markers,  *)
(* the two-ended vertex table, and what is published at the end of an      *)
(* epoch.  Every fragment is a process of its own that applies every log;  *)
(* fragments share nothing, so one step applies a log to all of them.      *)
(*                                                                         *)
(* One vertex label and one edge label: the code repeats the same steps    *)
(* per label, on lists and tables of their own.  How a list shows a reader *)
(* exactly the entries up to its epoch is EpochTable's and SegGraph's      *)
(* subject; here every entry carries the epoch that wrote it.              *)
(***************************************************************************)
EXTENDS Markers, FiniteSets, FiniteSetsExt, SequencesExt

CONSTANTS
  Frags, Vertices,
  FragOf,       \* GetFid of every vertex's global id
  Loaded,       \* vertices that were loaded first, in epoch 0
  Parallel,     \* may two rows of an edge table join the same vertices?
  Cascade,      \* are the rows a deleted vertex takes along logged after it?
  MaxEpoch,     \* bound: last epoch
  MaxRows,      \* bound: rows of the edge table at any time
  MaxLogs       \* bound: logs applied

ASSUME GraphStoreAssumption ==
  /\ FragOf \in [Vertices -> Frags]
  /\ Loaded \subseteq Vertices
  /\ Parallel \in BOOLEAN /\ Cascade \in BOOLEAN
  /\ {MaxEpoch, MaxRows, MaxLogs} \subseteq Nat

VARIABLES
  epoch,     \* epoch of the logs being applied
  unborn,    \* vertices whose row was not inserted yet
  rows,      \* the edge table: how many rows join a pair of vertices
  orphans,   \* rows of deleted vertices whose delete is still to be logged
  logs,      \* logs applied
  frag,      \* the store of every fragment
  pub        \* what was published, per epoch, with the tables at that time

vars == <<epoch, unborn, rows, orphans, logs, frag, pub>>

Pairs == Vertices \X Vertices

Dirs == {"out", "in"}      \* seggraph::EOUT, seggraph::EIN

Opposite(dir) == IF dir = "out" THEN "in" ELSE "out"

(* An entry of a list or table: the vertex, and 0; or a marker, and the     *)
(* position it deletes.  Vertices stand for their local ids.                *)
Entry(v, e) == [v |-> v, del |-> 0, ep |-> e]
Marker(p, e) == [v |-> "deleted", del |-> p, ep |-> e]

Marks(l) == [i \in DOMAIN l |-> l[i].del]

(* The table of some vertices, none deleted. *)
TableOf(S) ==
  [table |-> SetToSeq({Entry(v, 0) : v \in S}), max |-> Cardinality(S), deleted |-> 0]

LoadedStore(f) ==
  [out |-> [v \in Vertices |-> << >>], in |-> [v \in Vertices |-> << >>],
   inner |-> TableOf({v \in Loaded : FragOf[v] = f}), outer |-> TableOf({})]

Init ==
  /\ epoch = 0
  /\ unborn = Vertices \ Loaded
  /\ rows = [p \in Pairs |-> 0]
  /\ orphans = [p \in Pairs |-> 0]
  /\ logs = 0
  /\ frag = [f \in Frags |-> LoadedStore(f)]
  /\ pub = << >>

-----------------------------------------------------------------------------
(* Vertex tables *)

(* add_inner and add_outer with the new_vertex call before them. *)
AddToTable(t, v) ==
  [t EXCEPT !.table = Append(@, Entry(v, epoch)), !.max = @ + 1]

Known(t, v) == \E i \in DOMAIN t.table : t.table[i].v = v

(* delete_inner and delete_outer with add_deleted_*_num: a marker for the   *)
(* first entry of the vertex; the count goes up whether or not there is one.*)
DeleteFromTable(t, v) ==
  LET at == {i \in DOMAIN t.table : t.table[i].v = v}
      first == CHOOSE i \in at : \A j \in at : i <= j
  IN  [t EXCEPT !.table = IF at = {} THEN @ ELSE Append(@, Marker(first, epoch)),
                !.deleted = @ + 1]

-----------------------------------------------------------------------------
(* Adjacency lists *)

(* Mutant: the search goes from the oldest entry to the newest. *)
OldestMatch(l, v) ==
  LET at == {i \in DOMAIN l : l[i].v = v}
  IN  IF at = {} THEN 0 ELSE CHOOSE i \in at : \A j \in at : j >= i

(* The newest entry for v that is not a marker, deleted or not. *)
NewestMatch(l, v) ==
  LET at == {i \in DOMAIN l : l[i].v = v}
  IN  IF at = {} THEN 0 ELSE CHOOSE i \in at : \A j \in at : j <= i

(* n markers for the newest match; none ("delete edge error") without one. *)
MarkNewest(l, v, n) ==
  LET p == NewestMatch(l, v)
  IN  IF p = 0 THEN l ELSE l \o [i \in 1 .. n |-> Marker(p, epoch)]

PutEdge(s, src, dst) ==
  [s EXCEPT !.out[src] = Append(@, Entry(dst, epoch)),
            !.in[dst] = Append(@, Entry(src, epoch))]

(* The endpoint that is not in the fragment becomes an outer vertex. *)
NeedOuter(f, s, v) ==
  IF FragOf[v] = f \/ Known(s.outer, v) THEN s
  ELSE [s EXCEPT !.outer = AddToTable(@, v)]

DropEdge(s, src, dst) ==
  [s EXCEPT !.out[src] = MarkNewest(@, dst, 1), !.in[dst] = MarkNewest(@, src, 1)]

(* Mutant: the vertex's own list gets its markers, the neighbours' do not. *)
OwnListOnly(s, v, dir) ==
  LET l == s[dir][v]
      live == SetToSortSeq(Visible(Marks(l)), >)
  IN  [s EXCEPT ![dir][v] = l \o [i \in DOMAIN live |-> Marker(live[i], epoch)]]

(* One pass of process_del_vertex: every visible edge of v in one direction *)
(* gets a marker, newest first, and so does, each time, the newest entry    *)
(* for v in the neighbour's list of the other direction.                    *)
DropEdgesOf(s, v, dir) ==
  LET l    == s[dir][v]
      live == SetToSortSeq(Visible(Marks(l)), >)
      To(n) == Cardinality({i \in DOMAIN live : l[live[i]].v = n})
  IN  [s EXCEPT ![dir][v] = l \o [i \in DOMAIN live |-> Marker(live[i], epoch)],
                ![Opposite(dir)] =
                   [n \in Vertices |-> MarkNewest(@[n], v, To(n))]]

-----------------------------------------------------------------------------
(* The log operations *)

Log == logs < MaxLogs /\ logs' = logs + 1

AddVertex(v) ==
  /\ v \in unborn
  /\ unborn' = unborn \ {v}
  /\ frag' = [frag EXCEPT ![FragOf[v]].inner = AddToTable(@, v)]
  /\ Log
  /\ UNCHANGED <<epoch, rows, orphans, pub>>

(* Vertices whose row exists. *)
Alive == {v \in Vertices \ unborn :
            \A i \in DOMAIN frag[FragOf[v]].inner.table :
              LET t == frag[FragOf[v]].inner.table
              IN  t[i].del # 0 => t[t[i].del].v # v}

Owns(f, v, w) == f \in {FragOf[v], FragOf[w]}

AddEdge(src, dst) ==
  /\ {src, dst} \subseteq Alive
  /\ MapThenSumSet(LAMBDA p : rows[p], Pairs) < MaxRows
  /\ Parallel \/ rows[<<src, dst>>] = 0
  /\ rows' = [rows EXCEPT ![<<src, dst>>] = @ + 1]
  /\ frag' = [f \in Frags |->
       IF Owns(f, src, dst)
       THEN PutEdge(NeedOuter(f, NeedOuter(f, frag[f], src), dst), src, dst)
       ELSE frag[f]]
  /\ Log
  /\ UNCHANGED <<epoch, unborn, orphans, pub>>

(* The delete of a row of the table, or of one that went with a vertex.     *)
DelEdge(src, dst) ==
  /\ rows[<<src, dst>>] + orphans[<<src, dst>>] > 0
  /\ IF rows[<<src, dst>>] > 0
     THEN rows' = [rows EXCEPT ![<<src, dst>>] = @ - 1] /\ UNCHANGED orphans
     ELSE orphans' = [orphans EXCEPT ![<<src, dst>>] = @ - 1] /\ UNCHANGED rows
  /\ frag' = [f \in Frags |->
       IF Owns(f, src, dst) THEN DropEdge(frag[f], src, dst) ELSE frag[f]]
  /\ Log
  /\ UNCHANGED <<epoch, unborn, pub>>

DropVertex(f, v) ==
  LET s == frag[f]
      tables == IF FragOf[v] = f
                THEN [s EXCEPT !.inner = DeleteFromTable(@, v)]
                ELSE [s EXCEPT !.outer = DeleteFromTable(@, v)]
  IN  IF FragOf[v] = f \/ Known(s.outer, v)
      THEN DropEdgesOf(DropEdgesOf(tables, v, "out"), v, "in")
      ELSE s

DelVertex(v) ==
  /\ v \in Alive
  /\ LET gone == {p \in Pairs : v \in {p[1], p[2]}} IN
     /\ rows' = [p \in Pairs |-> IF p \in gone THEN 0 ELSE rows[p]]
     /\ orphans' = [p \in Pairs |-> IF p \in gone /\ Cascade
                                    THEN orphans[p] + rows[p] ELSE orphans[p]]
  /\ frag' = [f \in Frags |-> DropVertex(f, v)]
  /\ Log
  /\ UNCHANGED <<epoch, unborn, pub>>

(* update_blob: how much of each table's two ends a reader may look at. *)
Location(t) == t.max + t.deleted

(* Mutant: deleted vertices are not counted. *)
NextEpochBound ==
  /\ epoch < MaxEpoch
  /\ pub' = Append(pub, [rows |-> rows, alive |-> Alive,
       inner |-> [f \in Frags |-> frag[f].inner.max],
       outer |-> [f \in Frags |-> frag[f].outer.max]])
  /\ epoch' = epoch + 1
  /\ UNCHANGED <<unborn, rows, orphans, logs, frag>>

(* A log of the next epoch arrives: the epoch before it is published.      *)
NextEpoch ==
  /\ epoch < MaxEpoch
  /\ pub' = Append(pub, [rows |-> rows, alive |-> Alive,
       inner |-> [f \in Frags |-> Location(frag[f].inner)],
       outer |-> [f \in Frags |-> Location(frag[f].outer)]])
  /\ epoch' = epoch + 1
  /\ UNCHANGED <<unborn, rows, orphans, logs, frag>>

Next ==
  \/ NextEpoch
  \/ \E v \in Vertices : AddVertex(v) \/ DelVertex(v)
  \/ \E v, w \in Vertices : AddEdge(v, w) \/ DelEdge(v, w)

Spec == Init /\ [][Next]_vars

-----------------------------------------------------------------------------
(* What a reader of an epoch sees *)

VisibleVertices(table, loc) ==
  LET t == SubSeq(table, 1, loc)
  IN  {t[i].v : i \in Visible(Marks(t))}

Neighbours(l, e) ==
  LET old == SelectSeq(l, LAMBDA x : x.ep <= e)
      live == Visible(Marks(old))
  IN  [w \in Vertices |-> Cardinality({i \in live : old[i].v = w})]

-----------------------------------------------------------------------------
(* Types: counters are natural, lists hold entries of past epochs and       *)
(* markers that name a position of their own list.                          *)
TypeOK ==
  /\ epoch \in 0 .. MaxEpoch /\ Len(pub) = epoch
  /\ unborn \subseteq Vertices
  /\ rows \in [Pairs -> 0 .. MaxLogs]
  /\ orphans \in [Pairs -> 0 .. MaxLogs]
  /\ logs \in 0 .. MaxLogs
  /\ \A f \in Frags :
       \A l \in UNION {Range(frag[f].out), Range(frag[f].in),
                       {frag[f].inner.table, frag[f].outer.table}} :
         \A i \in DOMAIN l :
           /\ l[i].ep \in 0 .. epoch
           /\ l[i].del \in 0 .. (i - 1)
           /\ (l[i].v \in Vertices) <=> (l[i].del = 0)

(* Every published epoch keeps showing the graph of the tables at the end  *)
(* of that epoch, whatever is added and deleted later: in each fragment the *)
(* inner vertices are the live vertices it owns; each vertex has exactly    *)
(* the edges to and from the other vertices that the fragment holds; the    *)
(* outer vertices are alive and every neighbour outside the fragment is one *)
(* of them (add, delete operations, delete markers, update_blob).           *)
SnapshotIsGraph ==
  \A k \in DOMAIN pub : \A f \in Frags :
    LET p == pub[k]
        inner == VisibleVertices(frag[f].inner.table, p.inner[f])
        outer == VisibleVertices(frag[f].outer.table, p.outer[f])
        Held(v, w) == IF Owns(f, v, w) THEN p.rows[<<v, w>>] ELSE 0
    IN  /\ inner = {v \in p.alive : FragOf[v] = f}
        /\ outer \subseteq {v \in p.alive : FragOf[v] # f}
        /\ \A v \in p.alive : \A w \in Vertices :
             /\ Neighbours(frag[f].out[v], k - 1)[w] = Held(v, w)
             /\ Neighbours(frag[f].in[v], k - 1)[w] = Held(w, v)
             /\ Held(v, w) + Held(w, v) > 0 => w \in inner \cup outer

(* The markers of every adjacency list and vertex table name an older entry,*)
(* each entry at most once: what the iterators need to skip the deleted     *)
(* entries and no other (del_edge, del_vertex search without looking at     *)
(* the markers already there).                                              *)
MarkersSound ==
  \A f \in Frags :
    \A l \in UNION {Range(frag[f].out), Range(frag[f].in),
                    {frag[f].inner.table, frag[f].outer.table}} :
      WellMarked(Marks(l))
=============================================================================
