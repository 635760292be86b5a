------------------------------- MODULE Fragment -------------------------------
(***************************************************************************)
(* A graph spread over fragments: how the writers number vertices           *)
(* (vegito graph_ops/add_edge.cc, graph_store) and how a reader's          *)
(* GartFragment (interfaces/fragment/gart_fragment.h) turns the numbers     *)
(* back into vertices.                                                     *)
(*                                                                         *)
(* A global id names fragment, label and offset.  A local id names label   *)
(* and offset; a vertex of the fragment keeps its offset, an outer vertex  *)
(* (the far end of an edge whose other end is here) is numbered from the   *)
(* top of the offset range downwards, in the order in which the fragment   *)
(* first meets it.  Properties, epochs, deletions and the layout of the    *)
(* adjacency lists are the subject of other modules; here every edge put   *)
(* is visible.  External ids are integers: an outer vertex with a string   *)
(* for an id has it put into the string buffer instead (VertexStore), and  *)
(* is entered in no vertex map.                                            *)
(***************************************************************************)
EXTENDS Naturals, Sequences, FiniteSets, SequencesExt

CONSTANTS
    Frags,        \* the fragments
    Labels,       \* the vertex labels, numbered from 0
    Placements,   \* sequences of [oid, fid, label]: vertices in loading order
    Weights,      \* edge weights
    MaxOffset,    \* max_outer_id_offset_: the largest offset of an id
    MaxEdges      \* bound: edges put

VARIABLES
    vertices,   \* the placement chosen: what the converter numbered
    inner,      \* by fragment and label, the oids of its vertices by offset
    ovl2g,      \* by fragment and label, the global ids of outer vertices
    outer_oid,  \* and their external ids (outer_external_id_store)
    ovg2l,      \* by fragment, global id -> local id of outer vertices
    vertex_map, \* by fragment, <<label, oid>> -> global id
    out_edges,  \* by fragment, local id -> edges in the order they were put
    in_edges,
    edges       \* history: the edges of the whole graph

graph == <<vertices, inner, ovl2g, outer_oid, ovg2l, vertex_map,
           out_edges, in_edges, edges>>

Gid(f, l, o) == [fid |-> f, label |-> l, offset |-> o]
Lid(l, o) == [label |-> l, offset |-> o]
AllLids == [label : Labels, offset : 0 .. MaxOffset]
NoMap == <<>>       \* the empty function
Put(map, k, x) == [i \in DOMAIN map \cup {k} |-> IF i = k THEN x ELSE map[i]]

\* The converter numbers the vertices of a fragment and label densely.
OffsetIn(p, i) ==
    Cardinality({j \in 1 .. i - 1 : p[j].fid = p[i].fid /\ p[j].label = p[i].label})
GidAt(p, i) == Gid(p[i].fid, p[i].label, OffsetIn(p, i))

\* Loaded: every vertex of the placement has been inserted by its fragment
\* (insert_inner_vertex: vertex table, external id, local vertex map).
InnerOf(p, f, l) ==
    LET Here(v) == v.fid = f /\ v.label = l
        own == SelectSeq(p, Here)
    IN  [i \in DOMAIN own |-> own[i].oid]
MapOf(p, f) ==
    LET own == {i \in DOMAIN p : p[i].fid = f}
    IN  [k \in {<<p[i].label, p[i].oid>> : i \in own} |->
            GidAt(p, CHOOSE i \in own : <<p[i].label, p[i].oid>> = k)]

GraphInit ==
    /\ vertices \in Placements
    /\ inner = [f \in Frags |-> [l \in Labels |-> InnerOf(vertices, f, l)]]
    /\ ovl2g = [f \in Frags |-> [l \in Labels |-> <<>>]]
    /\ outer_oid = [f \in Frags |-> [l \in Labels |-> <<>>]]
    /\ ovg2l = [f \in Frags |-> NoMap]
    /\ vertex_map = [f \in Frags |-> MapOf(vertices, f)]
    /\ out_edges = [f \in Frags |-> [x \in AllLids |-> <<>>]]
    /\ in_edges = [f \in Frags |-> [x \in AllLids |-> <<>>]]
    /\ edges = {}

(***************************************************************************)
(* process_add_edge.                                                       *)
(***************************************************************************)
\* Mutant: the next outer vertex gets the number of the last one.
OuterLidReused(n, l) == Lid(l, MaxOffset - IF n = 0 THEN 0 ELSE n - 1)

\* The local id of the outer vertex registered as number n (from 0).
OuterLid(n, l) == Lid(l, MaxOffset - n)

\* What a fragment knows of outer vertices, after it has made sure that the
\* vertex of global id g is one of them: set_lid, set_ovg2l, add_outer,
\* set_ovl2g, the external id and the local vertex map.
Registered(f, g, oid) ==
    LET n == Len(ovl2g[f][g.label])
    IN  IF g \in DOMAIN ovg2l[f]
        THEN [ovl2g |-> ovl2g[f], oids |-> outer_oid[f], ovg2l |-> ovg2l[f],
              map |-> vertex_map[f]]
        ELSE [ovl2g |-> [ovl2g[f] EXCEPT ![g.label] = Append(@, g)],
              oids |-> [outer_oid[f] EXCEPT ![g.label] = Append(@, oid)],
              ovg2l |-> Put(ovg2l[f], g, OuterLid(n, g.label)),
              map |-> Put(vertex_map[f], <<g.label, oid>>, g)]

\* What fragment f holds after the edge i -> j of weight w: nothing new when
\* neither end is its own, the far end registered when it is not.  At an end
\* that belongs to f the edge is put with the local id of the other end, and
\* an outer vertex gets its half of the edge too.
AfterEdge(f, i, j, w) ==
    LET s == GidAt(vertices, i)
        d == GidAt(vertices, j)
        same == [ovl2g |-> ovl2g[f], oids |-> outer_oid[f],
                 ovg2l |-> ovg2l[f], map |-> vertex_map[f]]
        reg == CASE s.fid = f /\ d.fid # f -> Registered(f, d, vertices[j].oid)
                 [] s.fid # f /\ d.fid = f -> Registered(f, s, vertices[i].oid)
                 [] OTHER -> same
        local(g) == IF g.fid = f THEN Lid(g.label, g.offset) ELSE reg.ovg2l[g]
        put == s.fid = f \/ d.fid = f
    IN  [reg |-> reg,
         out |-> IF put THEN [out_edges[f] EXCEPT ![local(s)] =
                                Append(@, [nbr |-> local(d), data |-> w])]
                 ELSE out_edges[f],
         in |-> IF put THEN [in_edges[f] EXCEPT ![local(d)] =
                                Append(@, [nbr |-> local(s), data |-> w])]
                ELSE in_edges[f]]

\* The log of an edge, applied by every fragment.
AddEdge(i, j, w) ==
    /\ Cardinality(edges) < MaxEdges
    /\ \A e \in edges : <<e[1], e[2]>> # <<i, j>>
    /\ edges' = edges \cup {<<i, j, w>>}
    /\ LET after == [f \in Frags |-> AfterEdge(f, i, j, w)]
       IN  /\ ovl2g' = [f \in Frags |-> after[f].reg.ovl2g]
           /\ outer_oid' = [f \in Frags |-> after[f].reg.oids]
           /\ ovg2l' = [f \in Frags |-> after[f].reg.ovg2l]
           /\ vertex_map' = [f \in Frags |-> after[f].reg.map]
           /\ out_edges' = [f \in Frags |-> after[f].out]
           /\ in_edges' = [f \in Frags |-> after[f].in]
    /\ UNCHANGED <<vertices, inner>>

(***************************************************************************)
(* GartFragment: the reader's side.                                        *)
(***************************************************************************)
InnerNum(f, l) == Len(inner[f][l])     \* GetMaxInnerVerticesNum
OuterNum(f, l) == Len(ovl2g[f][l])     \* GetMaxOuterVerticesNum

\* IsInnerVertex compares the offset with max_inner_offsets_.
IsInnerVertex(f, x) == x.offset < InnerNum(f, x.label)

\* GetOffset: the position of a vertex among the inner, or among the outer
\* vertices of its label.
GetOffset(f, x) == IF IsInnerVertex(f, x) THEN x.offset ELSE MaxOffset - x.offset

\* Vertex2Gid (GetInnerVertexGid, GetOuterVertexGid) and GetId.
Vertex2Gid(f, x) == IF IsInnerVertex(f, x) THEN Gid(f, x.label, x.offset)
                    ELSE ovl2g[f][x.label][GetOffset(f, x) + 1]
GetId(f, x) == IF IsInnerVertex(f, x) THEN inner[f][x.label][x.offset + 1]
               ELSE outer_oid[f][x.label][GetOffset(f, x) + 1]

\* Gid2Vertex; it fails for a vertex the fragment has not registered.
Knows(f, g) == g.fid = f \/ g \in DOMAIN ovg2l[f]
Gid2Vertex(f, g) == IF g.fid = f THEN Lid(g.label, g.offset) ELSE ovg2l[f][g]

\* InnerVertices and OuterVertices: the iterators run from the newest vertex
\* to the oldest.
InnerVertices(f, l) ==
    [i \in 1 .. InnerNum(f, l) |-> Lid(l, InnerNum(f, l) - i)]
OuterVertices(f, l) ==
    [i \in 1 .. OuterNum(f, l) |-> OuterLid(OuterNum(f, l) - i, l)]

\* The adjacency lists are read from the newest edge to the oldest.
GetOutgoingAdjList(f, x) == Reverse(out_edges[f][x])
GetIncomingAdjList(f, x) == Reverse(in_edges[f][x])

(***************************************************************************)
(* What the fragments hold, read back through the local ids, is the graph: *)
(* every edge is in the out-list of its source and in the in-list of its   *)
(* destination, at the fragment of that end, and the far end of a crossing *)
(* edge has its half of it there as well; no two vertices of a fragment    *)
(* share a local id.                                                       *)
(***************************************************************************)
Oids(f, list, x) == [i \in DOMAIN list |-> <<GetId(f, x), GetId(f, list[i].nbr)>>]
VerticesOf(f) ==
    {Lid(l, o) : l \in Labels, o \in 0 .. MaxOffset} \cap
    UNION {Range(InnerVertices(f, l)) \cup Range(OuterVertices(f, l)) : l \in Labels}
At(f) == {e \in edges : vertices[e[1]].fid = f \/ vertices[e[2]].fid = f}
OidPairs(E) == {<<vertices[e[1]].oid, vertices[e[2]].oid>> : e \in E}

FragmentsHoldGraph ==
    \A f \in Frags :
        /\ \A x \in VerticesOf(f) : Gid2Vertex(f, Vertex2Gid(f, x)) = x
        /\ UNION {Range(Oids(f, GetOutgoingAdjList(f, x), x)) : x \in VerticesOf(f)}
             = OidPairs(At(f))
        /\ UNION {{<<p[2], p[1]>> : p \in Range(Oids(f, GetIncomingAdjList(f, x), x))} :
                    x \in VerticesOf(f)}
             = OidPairs(At(f))
        /\ \A l \in Labels : InnerNum(f, l) + OuterNum(f, l)
             = Cardinality({x \in VerticesOf(f) : x.label = l})
=============================================================================
