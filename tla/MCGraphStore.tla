---------------------------- MODULE MCGraphStore ----------------------------
(* Two fragments: the first owns a and b, the second c. *)
EXTENDS GraphStore

CONSTANTS a, b, c

TwoOne == [v \in Vertices |-> IF v = c THEN 1 ELSE 0]
=============================================================================
