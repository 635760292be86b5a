------------------------------- MODULE Orders -------------------------------
(***************************************************************************)
(* Sizes of the memory blocks of the SegGraph store: powers of two, named  *)
(* by their exponent, the order.                                           *)
(***************************************************************************)
EXTENDS Integers

(* get_block_size: 1ul << order *)
Pow2[order \in Nat] == IF order = 0 THEN 1 ELSE 2 * Pow2[order - 1]

(* Entries of the k-th epoch table of a list: the first is a block of 64    *)
(* bytes, each next one is twice as large; header 32 bytes, entry 16 bytes. *)
TableCap(k) == (Pow2[k + 5] - 32) \div 16
=============================================================================
