---------------------------- MODULE MCConverter -----------------------------
EXTENDS Converter

CONSTANTS a, b

Insert(o)  == [op |-> "insert", ids |-> <<o>>]
Update(o)  == [op |-> "update", ids |-> <<o>>]
Delete(o)  == [op |-> "delete", ids |-> <<o>>]
Edge(o, p) == [op |-> "edge", ids |-> <<o, p>>]

(* Operations on a vertex that begin a transaction, an updated edge (a      *)
(* delete and an insert) that goes on with one, and the last record of the  *)
(* snapshot.                                                                *)
Rows == {[ents |-> <<Insert(a)>>, newtx |-> TRUE, last |-> FALSE],
         [ents |-> <<Update(a)>>, newtx |-> TRUE, last |-> FALSE],
         [ents |-> <<Delete(a)>>, newtx |-> TRUE, last |-> FALSE],
         [ents |-> <<Edge(a, a), Edge(a, a)>>, newtx |-> FALSE, last |-> FALSE],
         [ents |-> <<Insert(a)>>, newtx |-> FALSE, last |-> TRUE]}

(* With a second vertex, edges between the two, and a row of which a column *)
(* is null, and which yields no entry.                                      *)
NullRows == Rows \cup {[ents |-> << >>, newtx |-> FALSE, last |-> FALSE],
                       [ents |-> <<Insert(b)>>, newtx |-> FALSE, last |-> FALSE],
                       [ents |-> <<Edge(a, b)>>, newtx |-> FALSE, last |-> FALSE]}

(* Transactions of one or more single-entry messages. *)
Txns == {[ents |-> <<Insert(a)>>, newtx |-> TRUE, last |-> FALSE],
         [ents |-> <<Edge(a, a)>>, newtx |-> FALSE, last |-> FALSE],
         [ents |-> <<Update(a)>>, newtx |-> TRUE, last |-> FALSE]}
=============================================================================
