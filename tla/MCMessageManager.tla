--------------------------- MODULE MCMessageManager ---------------------------
(* Two or three workers; the workers may be permuted. *)
EXTENDS MessageManager, TLC

CONSTANTS w1, w2, w3, c1

Symmetry == Permutations(Workers)
=============================================================================
