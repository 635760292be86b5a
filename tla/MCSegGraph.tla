----------------------------- MODULE MCSegGraph -----------------------------
(* Model values and segment sizes for the runs of SegGraph. *)
EXTENDS SegGraph

CONSTANTS w1, w2, r1, v1, v2

(* The first segment holds two or three small blocks, so that a handful of  *)
(* edges fills it; each next order is twice as large, less one header.      *)
SmallSegments == [k \in 1 .. MemLimit |-> 11 * Pow2[k - 1] - 1]

List == INSTANCE EpochTable WITH
  MaxEpoch <- Max(LogEpochs),
  elog <- hist[v1], tabs <- tabs[v1], cur <- EpochTableOf(segptr, v1),
  wpc  <- AbstractWriter(v1), rd <- [r \in Readers |-> AbstractReader(v1, r)]

(* Segments, blocks, merges and locks do not show: what writers and readers *)
(* do to vertex v1 (the vertices are interchangeable) is a behaviour of     *)
(* the epoch-table protocol.                                                *)
ImplementsEpochTable == List!Spec
=============================================================================
