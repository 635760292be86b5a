----------------------------- MODULE PropertyApps -----------------------------
(***************************************************************************)
(* GART's analytical applications (apps/analytical_engine/apps/gart):      *)
(* PropertySSSP, PropertyWCC and PropertyPageRank, over the fragments of   *)
(* module Fragment, with the per-vertex arrays of GartVertexArray.         *)
(*                                                                         *)
(* The rounds are those of DefaultWorker::Query and grape's                *)
(* DefaultMessageManager (external): what is sent in a round is delivered  *)
(* in the next, and the query ends after a round in which nobody sent and  *)
(* nobody forced another.  A worker touches nothing but its own context in *)
(* a round, so one step evaluates the round on every fragment.             *)
(*                                                                         *)
(* Ranks are kept symbolic: a rank is the bag of the contributions it sums, *)
(* each named by its source vertex and the round of the source's rank.     *)
(***************************************************************************)
EXTENDS Fragment, Bags

CONSTANTS
    Apps,       \* the applications a query may run
    IntMax,     \* std::numeric_limits<int>::max()
    MaxRound    \* max_round of PageRank

VARIABLES
    phase,      \* "load", "run" or "done"
    app,        \* the application and, for SSSP, the source vertex
    ctx,        \* by fragment, the context of the application
    inbox,      \* by fragment, the messages to be got in the next round
    force,      \* somebody called ForceContinue in the last round
    rounds      \* evaluations made so far

vars == <<graph, phase, app, ctx, inbox, force, rounds>>

(***************************************************************************)
(* GartVertexArray.  inner_size_ is meant to be the number of inner        *)
(* vertices; Init sets it to 0 whenever the end address of the inner range *)
(* is not null, that is for every label that has a vertex table.  Inner    *)
(* and outer vertices of a label therefore share the slots of the array.   *)
(***************************************************************************)
inner_size(f, l) == 0
Slots(f) == {<<l, o>> \in Labels \X (0 .. MaxOffset) :
                o < InnerNum(f, l) + OuterNum(f, l)}
Slot(f, x) == <<x.label, GetOffset(f, x) +
                         IF IsInnerVertex(f, x) THEN 0 ELSE inner_size(f, x.label)>>
Filled(f, value) == [s \in Slots(f) |-> value]

\* No two vertices of a fragment share a slot.
Unaliased == \A f \in Frags : \A x, y \in VerticesOf(f) :
                 Slot(f, x) = Slot(f, y) => x = y

(***************************************************************************)
(* Loops over vertices and edges.                                          *)
(***************************************************************************)
OverLabels(Iter(_)) == FlattenSeq([i \in 1 .. Cardinality(Labels) |-> Iter(i - 1)])
AllInner(f) == OverLabels(LAMBDA l : InnerVertices(f, l))
AllOuter(f) == OverLabels(LAMBDA l : OuterVertices(f, l))

Smaller(a, b) == IF a < b THEN a ELSE b
Sync(f, x, val) == [from |-> f, gid |-> Vertex2Gid(f, x), val |-> val]

\* A context together with what the evaluation has sent and forced.
Ran(c, msgs, go) == [c |-> c, msgs |-> msgs, force |-> go]

(***************************************************************************)
(* PropertySSSP.                                                           *)
(***************************************************************************)
SSSPInit(f) == [result |-> Filled(f, IntMax), updated |-> Filled(f, FALSE),
                updated_next |-> Filled(f, FALSE)]

\* An edge of the source in PEval.
FirstEdge(f, r, e) ==
    LET s == Slot(f, e.nbr)
        d == Smaller(r.c.result[s], e.data)
        c == [r.c EXCEPT !.result[s] = d]
    IN  IF IsInnerVertex(f, e.nbr)
        THEN [r EXCEPT !.c = [c EXCEPT !.updated[s] = TRUE]]
        ELSE [r EXCEPT !.c = c, !.msgs = @ \cup {Sync(f, e.nbr, d)}]

SSSPPEval(f, c) ==
    LET key == <<app.source.label, app.source.oid>>
        g == vertex_map[f][key]
        v == Gid2Vertex(f, g)
        start == Ran([c EXCEPT !.result[Slot(f, v)] = 0], {}, TRUE)
    IN  IF key \notin DOMAIN vertex_map[f] THEN Ran(c, {}, FALSE)
        ELSE IF ~Knows(f, g) THEN Ran(c, {}, FALSE)
        ELSE IF ~IsInnerVertex(f, v) THEN Ran(c, {}, TRUE)
        ELSE FoldLeft(LAMBDA r, e : FirstEdge(f, r, e), start,
                      GetOutgoingAdjList(f, v))

\* Mutant: a better distance is taken over but its vertex not marked updated.
SSSPGetUnmarked(f, c, m) ==
    [c EXCEPT !.result[Slot(f, Gid2Vertex(f, m.gid))] = Smaller(@, m.val)]

SSSPGet(f, c, m) ==
    LET s == Slot(f, Gid2Vertex(f, m.gid))
    IN  IF c.result[s] > m.val
        THEN [c EXCEPT !.result[s] = m.val, !.updated[s] = TRUE]
        ELSE c

\* An edge of a vertex that was updated in the round before.
Relax(f, r, e, dist) ==
    LET s == Slot(f, e.nbr)
        c == [r.c EXCEPT !.result[s] = dist + e.data]
    IN  IF dist + e.data >= r.c.result[s] THEN r
        ELSE IF IsInnerVertex(f, e.nbr)
        THEN [r EXCEPT !.c = [c EXCEPT !.updated[s] = TRUE], !.force = TRUE]
        ELSE [r EXCEPT !.c = c, !.msgs = @ \cup {Sync(f, e.nbr, dist + e.data)}]

RelaxVertex(f, r, x) ==
    LET dist == r.c.result[Slot(f, x)]
    IN  IF ~r.c.updated_next[Slot(f, x)] THEN r
        ELSE FoldLeft(LAMBDA q, e : Relax(f, q, e, dist), r,
                      GetOutgoingAdjList(f, x))

SSSPIncEval(f, c0) ==
    LET c1 == FoldLeft(LAMBDA c, m : SSSPGet(f, c, m), c0, SetToSeq(inbox[f]))
        c2 == [c1 EXCEPT !.updated_next = c1.updated,
                         !.updated = Filled(f, FALSE)]
    IN  FoldLeft(LAMBDA r, x : RelaxVertex(f, r, x), Ran(c2, {}, FALSE),
                 AllInner(f))

(***************************************************************************)
(* PropertyWCC.                                                            *)
(***************************************************************************)
WCCInit(f) == [result |-> Filled(f, IntMax)]

\* Mutant: the offset of the addressed vertex is dropped.
WCCGetFirst(f, c, m) == [c EXCEPT !.result[<<m.gid.label, 0>>] = Smaller(@, m.val)]

WCCGet(f, c, m) == [c EXCEPT !.result[Slot(f, Gid2Vertex(f, m.gid))] =
                                 Smaller(@, m.val)]

\* The loop over inner vertices: take the smaller ids of inner in-neighbours.
PullInner(f, c, x) ==
    FoldLeft(LAMBDA q, e : IF IsInnerVertex(f, e.nbr)
                           THEN [q EXCEPT !.result[Slot(f, x)] =
                                     Smaller(@, q.result[Slot(f, e.nbr)])]
                           ELSE q,
             c, GetIncomingAdjList(f, x))

\* The loop over outer vertices: a smaller id among the in-neighbours is sent
\* to the fragment of the vertex.
PullOuter(f, r, x) ==
    LET old == r.c.result[Slot(f, x)]
        new == FoldLeft(LAMBDA n, e : Smaller(n, r.c.result[Slot(f, e.nbr)]),
                        old, GetIncomingAdjList(f, x))
    IN  IF new < old
        THEN [r EXCEPT !.c.result[Slot(f, x)] = new,
                       !.msgs = @ \cup {Sync(f, x, new)}]
        ELSE r

WCCLoops(f, c, go) ==
    LET c1 == FoldLeft(LAMBDA q, x : PullInner(f, q, x), c, AllInner(f))
    IN  FoldLeft(LAMBDA r, x : PullOuter(f, r, x), Ran(c1, {}, go), AllOuter(f))

WCCPEval(f, c) ==
    LET own(q, x) == [q EXCEPT !.result[Slot(f, x)] = GetId(f, x)]
    IN  WCCLoops(f, FoldLeft(own, c,
                             OverLabels(LAMBDA l : InnerVertices(f, l) \o
                                                   OuterVertices(f, l))), TRUE)

WCCIncEval(f, c) ==
    WCCLoops(f, FoldLeft(LAMBDA q, m : WCCGet(f, q, m), c,
                         SetToSeq(inbox[f])), FALSE)

(***************************************************************************)
(* PropertyPageRank, ranks symbolic.                                       *)
(***************************************************************************)
RankInit(f) == [result |-> Filled(f, EmptyBag), next |-> Filled(f, EmptyBag),
                round |-> 0]

\* Give the rank of a vertex to its out-neighbours, one share per edge.
Give(f, next, x, k) ==
    FoldLeft(LAMBDA n, e : [n EXCEPT ![Slot(f, e.nbr)] =
                               @ (+) SetToBag({<<GetId(f, x), k>>})],
             next, GetOutgoingAdjList(f, x))

\* Mutant: the share kept for an outer vertex is sent but not cleared.
ShareKept(f, r, x) ==
    [r EXCEPT !.msgs = @ \cup {Sync(f, x, r.c.next[Slot(f, x)])}]

\* Send what an outer vertex has gathered, and clear it.
Share(f, r, x) ==
    LET s == Slot(f, x)
    IN  [r EXCEPT !.msgs = @ \cup {Sync(f, x, r.c.next[s])},
                  !.c.next[s] = EmptyBag]

Spread(f, c, go) ==
    LET given == FoldLeft(LAMBDA n, x : Give(f, n, x, c.round), c.next, AllInner(f))
    IN  FoldLeft(LAMBDA r, x : Share(f, r, x),
                 Ran([c EXCEPT !.next = given], {}, go), AllOuter(f))

RankPEval(f, c) == Spread(f, c, TRUE)

LastRound(c) == c.round = MaxRound

RankIncEval(f, c0) ==
    LET c1 == [c0 EXCEPT !.round = @ + 1,
                 !.next = FoldLeft(LAMBDA n, m :
                            [n EXCEPT ![Slot(f, Gid2Vertex(f, m.gid))] = @ (+) m.val],
                            @, SetToSeq(inbox[f]))]
        sum(c, x) == [c EXCEPT !.result[Slot(f, x)] = c.next[Slot(f, x)]]
        clear(c, x) == [sum(c, x) EXCEPT !.next[Slot(f, x)] = EmptyBag]
    IN  IF LastRound(c1)
        THEN Ran(FoldLeft(sum, c1, AllInner(f)), {}, FALSE)
        ELSE Spread(f, FoldLeft(clear, c1, AllInner(f)), FALSE)

-----------------------------------------------------------------------------
(***************************************************************************)
(* DefaultWorker::Query.                                                   *)
(***************************************************************************)
NoApp == [name |-> "none"]

Init ==
    /\ GraphInit
    /\ phase = "load" /\ app = NoApp
    /\ ctx = [f \in Frags |-> NoMap]
    /\ inbox = [f \in Frags |-> {}] /\ force = FALSE /\ rounds = 0

Load ==
    /\ phase = "load"
    /\ \E i, j \in DOMAIN vertices, w \in Weights : AddEdge(i, j, w)
    /\ UNCHANGED <<phase, app, ctx, inbox, force, rounds>>

ContextInit(name, f) ==
    CASE name = "sssp" -> SSSPInit(f)
      [] name = "wcc" -> WCCInit(f)
      [] name = "pagerank" -> RankInit(f)

Sources(name) == IF name = "sssp" THEN Range(vertices) ELSE {NoApp}

StartQuery ==
    /\ phase = "load"
    /\ \E name \in Apps : \E source \in Sources(name) :
          /\ app' = [name |-> name, source |-> source]
          /\ ctx' = [f \in Frags |-> ContextInit(name, f)]
    /\ phase' = "run"
    /\ UNCHANGED <<graph, inbox, force, rounds>>

PEval(f) == CASE app.name = "sssp" -> SSSPPEval(f, ctx[f])
              [] app.name = "wcc" -> WCCPEval(f, ctx[f])
              [] app.name = "pagerank" -> RankPEval(f, ctx[f])
IncEval(f) == CASE app.name = "sssp" -> SSSPIncEval(f, ctx[f])
                [] app.name = "wcc" -> WCCIncEval(f, ctx[f])
                [] app.name = "pagerank" -> RankIncEval(f, ctx[f])

\* One round on every fragment: PEval first, IncEval as long as the round
\* before sent a message or forced another.
Round ==
    /\ phase = "run" /\ (rounds = 0 \/ force \/ \E f \in Frags : inbox[f] # {})
    /\ LET ran == [f \in Frags |-> IF rounds = 0 THEN PEval(f) ELSE IncEval(f)]
       IN  /\ ctx' = [f \in Frags |-> ran[f].c]
           /\ inbox' = [f \in Frags |->
                 {m \in UNION {ran[g].msgs : g \in Frags} : m.gid.fid = f}]
           /\ force' = \E f \in Frags : ran[f].force
    /\ rounds' = rounds + 1
    /\ UNCHANGED <<graph, phase, app>>

\* ToTerminate is true: the query is over, Output may be called.
EndQuery ==
    /\ phase = "run" /\ rounds # 0 /\ ~force /\ \A f \in Frags : inbox[f] = {}
    /\ phase' = "done"
    /\ UNCHANGED <<graph, app, ctx, inbox, force, rounds>>

Next == Load \/ StartQuery \/ Round \/ EndQuery
Spec == Init /\ [][Next]_vars

-----------------------------------------------------------------------------
(***************************************************************************)
(* Properties.  V(i) is the result the fragment of vertex i outputs for it. *)
(***************************************************************************)
Vert == DOMAIN vertices
V(i) == LET g == GidAt(vertices, i)
        IN  ctx[g.fid].result[Slot(g.fid, Lid(g.label, g.offset))]

\* The length of a shortest path from vertex s to vertex i of at most n
\* edges: the definition the SSSP results are compared with.
Least(S) == CHOOSE m \in S : \A k \in S : m <= k
Distance(s, i) ==
    LET d[n \in 0 .. Len(vertices), k \in Vert] ==
            IF n = 0 THEN (IF vertices[k] = s THEN 0 ELSE IntMax)
            ELSE Least({d[n - 1, k]} \cup
                       {d[n - 1, e[1]] + e[3] : e \in {x \in edges : x[2] = k}})
    IN  Smaller(d[Len(vertices), i], IntMax)

\* Vertices in the same weakly connected component as i.
Component(i) ==
    LET c[n \in 0 .. Len(vertices)] ==
            IF n = 0 THEN {i}
            ELSE c[n - 1] \cup {k \in Vert : \E e \in edges :
                    {e[1], e[2]} \cap c[n - 1] # {} /\ k \in {e[1], e[2]}}
    IN  c[Len(vertices)]

Finished(name) == phase = "done" /\ app.name = name

\* SSSP outputs the length of a shortest path for every vertex it can reach,
\* whatever the placement of the vertices over fragments and labels, as long
\* as no inner and outer vertex share a slot of the result array.
SSSPDistances ==
    Finished("sssp") /\ Unaliased => \A i \in Vert : V(i) = Distance(app.source, i)

\* "A sssp implementation for labeled graph": the same without the proviso.
SSSPExact == Finished("sssp") => \A i \in Vert : V(i) = Distance(app.source, i)

\* WCC never joins two components: at any time after PEval the id a vertex
\* holds is that of a vertex of its own component.
WCCSound ==
    (phase # "load" /\ app.name = "wcc" /\ rounds > 0 /\ Unaliased) =>
        \A i \in Vert : \E k \in Component(i) : V(i) = vertices[k].oid

\* "A wcc implementation for labeled graph": two vertices end with the same
\* id when they are connected.
WCCComplete ==
    Finished("wcc") => \A i \in Vert : \A k \in Component(i) : V(i) = V(k)

\* After its k-th IncEval a rank sums one share of the round before for every
\* incoming edge, wherever the source of the edge lives: no share is lost,
\* counted twice, or left over from an earlier round.
RankShares ==
    (phase # "load" /\ app.name = "pagerank" /\ rounds > 1 /\ Unaliased) =>
        \A i \in Vert :
            V(i) = SetToBag({<<vertices[e[1]].oid, rounds - 2>> :
                             e \in {x \in edges : x[2] = i}})

\* The fragments hold the graph that was loaded (FragmentsHoldGraph), checked
\* while it is being loaded: no query changes it.
GraphHeld == phase = "load" => FragmentsHoldGraph

\* Types; a message addresses a vertex of the fragment that gets it.
TypeOK ==
    /\ phase \in {"load", "run", "done"} /\ force \in BOOLEAN
    /\ \A f \in Frags : \A m \in inbox[f] :
            m.gid.fid = f /\ m.gid.offset < InnerNum(f, m.gid.label)
=============================================================================
