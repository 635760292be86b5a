------------------------------ MODULE EdgeScan ------------------------------
(***************************************************************************)
(* Iteration over an append-only list with delete markers: the adjacency   *)
(* lists (gart::EdgeIterator, process_del_vertex) and, mirrored, the       *)
(* vertex tables (VertexIterator).  A delete appends a marker that holds   *)
(* the position of the deleted entry; the iterator goes from the newest    *)
(* entry to the oldest and keeps the positions it read from markers in a   *)
(* priority queue whose largest element it compares with its own position. *)
(***************************************************************************)
EXTENDS Markers

CONSTANT MaxLen     \* bound: entries of the list

ASSUME MaxLenAssumption == MaxLen \in Nat

VARIABLES
  list,      \* 0: an edge; t > 0: a marker for the entry at position t
  cursor,    \* positions 1 .. cursor are still to be read
  heap,      \* delete_offsets_: how often each position is queued
  visited    \* positions the iterator has returned

vars == <<list, cursor, heap, visited>>

Positions == 1 .. Len(list)

Init ==
  /\ list \in UNION {[1 .. n -> 0 .. MaxLen] : n \in 0 .. MaxLen}
  /\ WellMarked(list)
  /\ cursor = Len(list)
  /\ heap = [p \in 1 .. Len(list) |-> 0]
  /\ visited = {}

(* The queue is not empty and its largest position is p. *)
Top(p) == heap[p] > 0 /\ \A q \in Positions : q > p => heap[q] = 0

(* Mutant: one pending delete is remembered instead of a queue of them. *)
ReadMarkerLast ==
  /\ cursor > 0
  /\ list[cursor] # 0
  /\ heap' = [p \in Positions |-> IF p = list[cursor] THEN 1 ELSE 0]
  /\ cursor' = cursor - 1
  /\ UNCHANGED <<list, visited>>

ReadMarker ==
  /\ cursor > 0
  /\ list[cursor] # 0
  /\ heap' = [heap EXCEPT ![list[cursor]] = @ + 1]
  /\ cursor' = cursor - 1
  /\ UNCHANGED <<list, visited>>

(* Mutant: the queue is not popped. *)
SkipDeletedKeep ==
  /\ cursor > 0
  /\ list[cursor] = 0
  /\ Top(cursor)
  /\ cursor' = cursor - 1
  /\ UNCHANGED <<list, heap, visited>>

SkipDeleted ==
  /\ cursor > 0
  /\ list[cursor] = 0
  /\ Top(cursor)
  /\ heap' = [heap EXCEPT ![cursor] = @ - 1]
  /\ cursor' = cursor - 1
  /\ UNCHANGED <<list, visited>>

ReturnEdge ==
  /\ cursor > 0
  /\ list[cursor] = 0
  /\ ~Top(cursor)
  /\ visited' = visited \cup {cursor}
  /\ cursor' = cursor - 1
  /\ UNCHANGED <<list, heap>>

Next == ReadMarker \/ SkipDeleted \/ ReturnEdge

Spec == Init /\ [][Next]_vars

(* The iterator runs in one thread: it takes every step it can. *)
FairSpec == Spec /\ WF_vars(Next)

-----------------------------------------------------------------------------
TypeOK ==
  /\ list \in Seq(Nat)
  /\ cursor \in 0 .. Len(list)
  /\ heap \in [Positions -> Nat]
  /\ visited \subseteq Positions

Marked(p) == \E j \in Positions : list[j] = p

(* The iterator returns every edge that no marker names and none that one   *)
(* names, although it meets a marker long before the entry and compares     *)
(* with the largest queued position only.                                   *)
ScanExact ==
  visited = {p \in Positions : p > cursor /\ list[p] = 0 /\ ~Marked(p)}

(* The queue holds, once each, the markers read whose entry is still ahead. *)
HeapPending ==
  \A p \in Positions :
    heap[p] = IF p <= cursor /\ \E j \in Positions : j > cursor /\ list[j] = p
              THEN 1 ELSE 0

IInv == TypeOK /\ WellMarked(list) /\ HeapPending /\ ScanExact

(* The scan ends, with an empty queue. *)
ScanEnds == <>(cursor = 0 /\ \A p \in Positions : heap[p] = 0)
=============================================================================
