------------------------------ MODULE Markers ------------------------------
(***************************************************************************)
(* Append-only lists with delete markers.  A list is a sequence of         *)
(* naturals: 0 is an entry (a neighbour, a vertex), t > 0 a marker that    *)
(* deletes the entry at position t.  Positions are never reused, so a      *)
(* prefix of the list is the list at an earlier epoch.                     *)
(***************************************************************************)
EXTENDS Integers, Sequences

(* What add and delete operations that each delete a live entry leave: a    *)
(* marker names an older entry, and no entry is named twice.                *)
WellMarked(l) ==
  /\ \A i \in 1 .. Len(l) : l[i] # 0 => l[i] \in 1 .. (i - 1) /\ l[l[i]] = 0
  /\ \A i, j \in 1 .. Len(l) : l[i] # 0 /\ l[i] = l[j] => i = j

(* The positions an iterator returns.  It reads from the newest entry to    *)
(* the oldest, queues the positions of the markers, and skips an entry only *)
(* if it is the largest position in the queue, which it then removes.       *)
Visible(l) ==
  LET Read[i \in 1 .. Len(l) + 1] ==
        IF i > Len(l)
        THEN [queue |-> [p \in 1 .. Len(l) |-> 0], live |-> {}]
        ELSE LET r == Read[i + 1] IN
             CASE l[i] # 0 -> [r EXCEPT !.queue = [r.queue EXCEPT ![l[i]] = @ + 1]]
               [] l[i] = 0 /\ r.queue[i] > 0
                    /\ \A q \in 1 .. Len(l) : q > i => r.queue[q] = 0
                    -> [r EXCEPT !.queue = [r.queue EXCEPT ![i] = @ - 1]]
               [] OTHER -> [r EXCEPT !.live = @ \cup {i}]
  IN  Read[1].live
=============================================================================
