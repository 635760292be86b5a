-------------------------- MODULE MCVertexStore --------------------------
(* Two properties in one family, the second a string, one in another.      *)
EXTENDS VertexStore, TLC

Age  == "age"
Name == "name"
City == "city"

MCPropFam == [p \in {Age, Name, City} |-> IF p = City THEN 2 ELSE 1]
MCStringProps == <<Name>>

Row(a, n, c) == [p \in {Age, Name, City} |->
                   CASE p = Age -> a [] p = Name -> n [] OTHER -> c]

(* Rows that differ in one family, in both, and in which value is NULL. *)
MCRows == {Row(1, 1, 1), Row(0, 2, 1), Row(2, 0, 0)}

ThreadSymmetry == Permutations(Threads)
=============================================================================
