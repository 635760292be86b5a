------------------------- MODULE VertexStoreProofs -------------------------
(***************************************************************************)
(* Proofs about the vertex property store, for any number of labels,       *)
(* vertices, families, pages and epochs.                                   *)
(***************************************************************************)
EXTENDS VertexStore, FiniteSetTheorems, WellFoundedInduction, TLAPS

(* The builds in which nobody races for size_ in get_region: one thread, or *)
(* one label, whose mutex then orders the threads.                          *)
NoRace == (\A t, u \in Threads : t = u) \/ (\A l, m \in Labels : l = m)

-----------------------------------------------------------------------------
(* What is published about the vertices. *)

LogType == [epoch : Nat, row : [Props -> Int], id : Int]
HistoryType == Seq(Seq(LogType))
MapType == [oids : SUBSET Nat, aborted : BOOLEAN]
PubType == [max : [Labels -> Nat], vmap : [Labels -> Nat]]

IdTypes ==
  /\ epoch \in Nat
  /\ hist \in [Labels -> HistoryType]
  /\ maps \in [Labels -> Seq(MapType)]
  /\ vmap \in [Labels -> Nat]
  /\ pubs \in Seq(PubType)

(* A map serves the first n vertices. *)
Serves(m, n) == ~m.aborted /\ 1 .. n \subseteq m.oids

(* The current map of a label is the last one made, and serves them all. *)
CurrentMap(l) ==
  /\ Len(maps[l]) >= 1
  /\ vmap[l] = Len(maps[l])
  /\ l \notin StringIds => Serves(maps[l][vmap[l]], Len(hist[l]))

(* A published map is an older one or the current one; later epochs name    *)
(* later maps, so only the last epoch can name the current one.             *)
PublishedMap(l) ==
  \A r \in DOMAIN pubs :
    /\ pubs[r].vmap[l] \in 1 .. vmap[l]
    /\ \A q \in DOMAIN pubs : r <= q => pubs[r].vmap[l] <= pubs[q].vmap[l]
    /\ pubs[r].max[l] <= Len(hist[l])
    /\ l \notin StringIds => Serves(maps[l][pubs[r].vmap[l]], pubs[r].max[l])

MapInv ==
  /\ IdTypes
  /\ \A l \in Labels : CurrentMap(l) /\ PublishedMap(l)

-----------------------------------------------------------------------------
(* The pages and the threads that make them. *)

(* A thread inside a log. *)
Busy(q) ==
  q \in [pc : {"find", "region", "page", "stamp", "write"},
         op : {"insert", "update"}, label : Labels, vertex : 0 .. (MaxVertices - 1),
         cells : {q.cells}, todo : (SUBSET Families) \ {{}}, page : Nat]

Dead(q) == "pc" \in DOMAIN q /\ q.pc = "dead"

ThreadsOK ==
  /\ th = [t \in Threads |-> th[t]]
  /\ \A t \in Threads : th[t] = Idle \/ Dead(th[t]) \/ Busy(th[t])
  /\ \A t, u \in Threads : th[t].pc = "dead" => th[u].pc = "dead"
  /\ mutex \in [Labels -> Threads \cup {Free}]

(* Between Find and the release a thread has the mutex of its label. *)
Locked == {"region", "page", "stamp"}

LocksHeld == \A t \in Threads : th[t].pc \in Locked => Holds(t)

PageTypes ==
  /\ epoch \in 0 .. MaxEpoch
  /\ pubs \in Seq(PubType) /\ Len(pubs) = epoch
  /\ size \in 1 .. Capacity
  /\ mem = [s \in DOMAIN mem |-> mem[s]]
  /\ DOMAIN mem \subseteq 1 .. (size - 1)
  /\ \A s \in DOMAIN mem :
       mem[s] \in [ver : {Fresh} \cup 0 .. epoch, prev : 0 .. (s - 1), rows : {mem[s].rows}]
  /\ {header, newest, oldest} \subseteq [Columns -> DOMAIN mem \cup {0}]

(* The page a thread has in hand: not yet there, without a version, or of   *)
(* the epoch whose logs are being applied.                                  *)
InHand(t) ==
  /\ th[t].pc = "page" => th[t].page = size /\ size < Capacity
  /\ th[t].pc = "stamp" => /\ th[t].page \in DOMAIN mem
                           /\ mem[th[t].page].ver = Fresh
  /\ th[t].pc = "write" => /\ th[t].page \in DOMAIN mem
                           /\ mem[th[t].page].ver = epoch

(* A column with a first page has a newest one, unless that first page is   *)
(* just being initialized, or was when the process died.                    *)
HasNewest(c) ==
  oldest[c] # 0 => \/ newest[c] # 0
                   \/ \E t \in Threads : th[t].pc = "stamp" /\ Col(t) = c
                   \/ \E t \in Threads : th[t].pc = "dead"

PageInv ==
  /\ hist \in [Labels -> HistoryType]
  /\ ThreadsOK
  /\ LocksHeld
  /\ PageTypes
  /\ \A t \in Threads : InHand(t)
  /\ \A c \in Columns : HasNewest(c)

(* Every page belongs to one column: the headers, the predecessors and the  *)
(* thread that initializes it agree on it, and versions fall on the way.    *)
Owned(own) ==
  /\ \A c \in Columns : \A s \in {header[c], newest[c], oldest[c]} :
       s # 0 => s \in DOMAIN mem /\ own[s] = c
  /\ \A t \in Threads : th[t].pc = "stamp" => own[th[t].page] = Col(t)
  /\ \A s \in DOMAIN mem :
       mem[s].prev # 0 => /\ mem[s].prev \in DOMAIN mem
                          /\ own[mem[s].prev] = own[s]
                          /\ mem[mem[s].prev].ver < mem[s].ver

(* The newest page of a column for which a page is being made is older than *)
(* the epoch whose logs are applied.                                        *)
IsOld(c) == oldest[c] # 0 => newest[c] \in DOMAIN mem /\ mem[newest[c]].ver < epoch

Making(t) ==
  /\ th[t].pc \in {"region", "page"} => IsOld(Col(t))
  /\ th[t].pc = "stamp" => /\ oldest[Col(t)] # 0
                           /\ \A s \in DOMAIN mem : mem[s].prev # th[t].page

OwnInv ==
  /\ \E own \in [DOMAIN mem -> Columns] : Owned(own)
  /\ \A c \in Columns : oldest[c] = 0 => newest[c] = 0
  /\ \A t \in Threads : Making(t)

-----------------------------------------------------------------------------
(* Facts about the operators. *)

(* What appending one element does to a sequence. *)
LEMMA AppendFacts ==
  ASSUME NEW S, NEW s \in Seq(S), NEW x \in S
  PROVE  /\ Append(s, x) \in Seq(S)
         /\ Len(Append(s, x)) = Len(s) + 1
         /\ \A i \in 1 .. Len(s) : Append(s, x)[i] = s[i]
         /\ Append(s, x)[Len(s) + 1] = x
  OBVIOUS

(* A set of numbers that is not empty has a least one. *)
LEMMA LeastNumber ==
  ASSUME NEW S \in SUBSET Nat, S # {}
  PROVE  \E x \in S : \A y \in S : x <= y
  <1> DEFINE Below(n) == S \cap (0 .. n)
             R == StrictSubsetOrdering(S)
             T == {Below(n) : n \in S}
  <1>1. T \subseteq FiniteSubsetsOf(S)
    <2>1. \A n \in S : IsFiniteSet(0 .. n)
      BY FS_Interval
    <2>2. \A n \in S : IsFiniteSet(Below(n))
      BY <2>1, FS_Intersection
    <2>3. QED
      BY <2>2 DEF FiniteSubsetsOf
  <1>2. T # {}
    OBVIOUS
  <1>3. IsWellFoundedOn(R, FiniteSubsetsOf(S))
    BY FS_StrictSubsetOrderingWellFounded
  <1>4. PICK b \in T : \A c \in T : ~ (<<c, b>> \in R)
    <2> HIDE DEF T, R
    <2>1. QED
      BY <1>1, <1>2, <1>3, WFMin
  <1>5. PICK x \in S : b = Below(x)
    OBVIOUS
  <1>6. ASSUME NEW y \in S, y < x PROVE FALSE
    <2>1. Below(y) \in T /\ Below(y) \subseteq Below(x)
      BY <1>6
    <2>2. Below(y) # Below(x)
      BY <1>6
    <2>3. <<Below(y), Below(x)>> \in R
      BY <2>1, <2>2 DEF StrictSubsetOrdering
    <2>4. QED
      BY <2>1, <2>3, <1>4, <1>5
  <1>7. QED
    BY <1>6

(* The family a thread does next is one of those it has to do. *)
LEMMA MinIsMember ==
  ASSUME NEW S \in SUBSET Nat, S # {}
  PROVE  Min(S) \in S
  BY LeastNumber DEF Min

(* The sizes, without the rest of the assumption. *)
LEMMA Sizes ==
  /\ NumFamilies \in Nat \ {0} /\ PageSize \in Nat \ {0} /\ MaxVertices \in Nat
  /\ Families \subseteq Nat
  <1>1. NumFamilies \in Nat \ {0} /\ PageSize \in Nat \ {0} /\ MaxVertices \in Nat
    BY VertexStoreAssumption
  <1>2. QED
    BY ONLY <1>1 DEF Families

(* The page numbers reach as far as the vertices. *)
LEMMA DivMonotone ==
  ASSUME NEW p \in Nat \ {0}, NEW a \in Nat, NEW b \in Nat, a <= b
  PROVE  a \div p \in 0 .. (b \div p)
  <1>1. a \div p >= 0 /\ a \div p \in Int /\ b \div p \in Int
    OBVIOUS
  <1>2. a \div p <= b \div p
    OBVIOUS
  <1>3. QED
    BY <1>1, <1>2

-----------------------------------------------------------------------------
(* The maps. *)

(* Initially every label has one empty map and nothing is published. *)
LEMMA MapInit == Init => MapInv
  <1> SUFFICES ASSUME Init PROVE MapInv
    OBVIOUS
  <1>1. IdTypes
    BY DEF Init, IdTypes, MapType, PubType, HistoryType
  <1>2. ASSUME NEW l \in Labels PROVE CurrentMap(l) /\ PublishedMap(l)
    BY DEF Init, CurrentMap, PublishedMap, Serves
  <1>3. QED
    BY <1>1, <1>2 DEF MapInv

(* A map that grows goes on serving what it served. *)
LEMMA ServesMore ==
  ASSUME NEW m \in MapType, NEW k \in MapType, NEW n \in Nat,
         m.oids \subseteq k.oids, k.aborted => m.aborted, Serves(m, n)
  PROVE  Serves(k, n)
  BY DEF Serves

(* set_vertex_map leaves a current map that serves the new vertex too, and  *)
(* aborts only a map that no published epoch names.                         *)
LEMMA SetVertexMapStep ==
  ASSUME MapInv, NEW l \in Labels \ StringIds, NEW v \in Nat,
         v = Len(hist[l]) + 1, SetVertexMap(l, v)
  PROVE  /\ maps' \in [Labels -> Seq(MapType)] /\ vmap' \in [Labels -> Nat]
         /\ \A k \in Labels \ {l} : maps'[k] = maps[k] /\ vmap'[k] = vmap[k]
         /\ Len(maps'[l]) >= 1 /\ vmap'[l] = Len(maps'[l]) /\ vmap[l] <= vmap'[l]
         /\ Serves(maps'[l][vmap'[l]], v)
         /\ \A r \in DOMAIN pubs : Serves(maps'[l][pubs[r].vmap[l]], pubs[r].max[l])
  <1> DEFINE c == vmap[l]
             s == maps[l]
  <1>1. s \in Seq(MapType) /\ c = Len(s) /\ c \in 1 .. Len(s) /\ Len(hist[l]) \in Nat
    BY DEF MapInv, IdTypes, CurrentMap, HistoryType
  <1>2. s[c] \in MapType /\ Serves(s[c], Len(hist[l]))
    BY <1>1 DEF MapInv, CurrentMap
  <1>3. ASSUME NEW r \in DOMAIN pubs
        PROVE  /\ pubs[r].vmap[l] \in 1 .. c
               /\ pubs[r].max[l] \in Nat
               /\ Serves(s[pubs[r].vmap[l]], pubs[r].max[l])
               /\ s[pubs[r].vmap[l]] \in MapType
    <2>1. pubs[r] \in PubType
      BY DEF MapInv, IdTypes
    <2>2. QED
      BY <2>1, <1>1 DEF MapInv, PublishedMap, PubType
  <1>4. maps \in [Labels -> Seq(MapType)] /\ vmap \in [Labels -> Nat]
    BY DEF MapInv, IdTypes
  <1> HIDE DEF c, s
  <1>5. CASE /\ maps' = [maps EXCEPT ![l][vmap[l]].oids = @ \cup {v}]
             /\ UNCHANGED vmap
    <2> DEFINE m == [s[c] EXCEPT !.oids = @ \cup {v}]
    <2>1. m \in MapType /\ s[c].oids \subseteq m.oids /\ (m.aborted => s[c].aborted)
      BY <1>2 DEF MapType
    <2>2. Serves(m, v)
      BY <1>1, <1>2 DEF Serves, MapType
    <2>3. maps' = [maps EXCEPT ![l] = [s EXCEPT ![c] = m]]
      BY <1>5 DEF s, c
    <2> HIDE DEF m
    <2>4. maps' \in [Labels -> Seq(MapType)] /\ maps'[l] = [s EXCEPT ![c] = m]
      BY <2>3, <2>1, <1>1, <1>4
    <2>5. Len(maps'[l]) = Len(s) /\ maps'[l][c] = m
      BY <2>4, <1>1
    <2>6. ASSUME NEW r \in DOMAIN pubs
          PROVE  Serves(maps'[l][pubs[r].vmap[l]], pubs[r].max[l])
      <3>1. CASE pubs[r].vmap[l] = c
        BY <3>1, <1>3, <2>1, <2>5, <1>2, ServesMore
      <3>2. CASE pubs[r].vmap[l] # c
        BY <3>2, <1>3, <2>4, <1>1
      <3>3. QED
        BY <3>1, <3>2
    <2>7. \A k \in Labels \ {l} : maps'[k] = maps[k]
      BY <2>3, <1>4
    <2>8. QED
      BY <2>2, <2>4, <2>5, <2>6, <2>7, <1>1, <1>4, <1>5 DEF c
  <1>6. CASE /\ maps' = [maps EXCEPT ![l] =
                  Append([@ EXCEPT ![vmap[l]].aborted = (vmap[l] # HistoryMap(l))],
                         [oids |-> maps[l][vmap[l]].oids \cup {v}, aborted |-> FALSE])]
             /\ vmap' = [vmap EXCEPT ![l] = Len(maps[l]) + 1]
    <2> DEFINE a == (c # HistoryMap(l))
               o == [s[c] EXCEPT !.aborted = a]
               n == [oids |-> s[c].oids \cup {v}, aborted |-> FALSE]
               t == [s EXCEPT ![c] = o]
    <2>1. n \in MapType /\ o \in MapType
      BY <1>2 DEF MapType
    <2>2. Serves(n, v)
      BY <1>1, <1>2 DEF Serves, MapType
    <2>3. maps' = [maps EXCEPT ![l] = Append(t, n)] /\ vmap' = [vmap EXCEPT ![l] = c + 1]
      BY <1>6, <1>1 DEF s, c
    <2>4. a \in BOOLEAN /\ o.aborted = a /\ o.oids = s[c].oids
      BY <1>2 DEF MapType
    <2>5. ASSUME NEW r \in DOMAIN pubs, pubs[r].vmap[l] = c PROVE ~a
      <3>1. r \in 1 .. Len(pubs) /\ Len(pubs) \in DOMAIN pubs /\ pubs # << >>
        BY DEF MapInv, IdTypes
      <3>2. c <= pubs[Len(pubs)].vmap[l] /\ pubs[Len(pubs)].vmap[l] \in 1 .. c
        BY <3>1, <2>5, <1>3 DEF MapInv, PublishedMap
      <3>3. QED
        BY <3>1, <3>2, <1>1 DEF HistoryMap
    <2> HIDE DEF n, o, a
    <2>6. t \in Seq(MapType) /\ Len(t) = c /\ t[c] = o /\ \A i \in 1 .. c : i # c => t[i] = s[i]
      BY <2>1, <1>1
    <2> HIDE DEF t
    <2>7. /\ Append(t, n) \in Seq(MapType) /\ Len(Append(t, n)) = c + 1
          /\ \A i \in 1 .. c : Append(t, n)[i] = t[i]
          /\ Append(t, n)[c + 1] = n
      BY <2>6, <2>1, AppendFacts
    <2>8. /\ maps' \in [Labels -> Seq(MapType)] /\ vmap' \in [Labels -> Nat]
          /\ maps'[l] = Append(t, n) /\ vmap'[l] = c + 1
          /\ \A k \in Labels \ {l} : maps'[k] = maps[k] /\ vmap'[k] = vmap[k]
      BY <2>3, <2>7, <1>1, <1>4
    <2>9. ASSUME NEW r \in DOMAIN pubs
          PROVE  Serves(maps'[l][pubs[r].vmap[l]], pubs[r].max[l])
      <3>1. CASE pubs[r].vmap[l] = c
        <4>1. maps'[l][pubs[r].vmap[l]] = o /\ ~a
          BY <3>1, <2>5, <2>6, <2>7, <2>8, <1>1
        <4>2. QED
          BY <4>1, <3>1, <1>3, <2>4 DEF Serves
      <3>2. CASE pubs[r].vmap[l] # c
        <4>1. maps'[l][pubs[r].vmap[l]] = s[pubs[r].vmap[l]]
          BY <3>2, <1>3, <2>6, <2>7, <2>8
        <4>2. QED
          BY <4>1, <1>3
      <3>3. QED
        BY <3>1, <3>2
    <2>10. vmap'[l] = Len(maps'[l]) /\ Len(maps'[l]) >= 1 /\ vmap[l] <= vmap'[l]
      BY <2>7, <2>8, <1>1 DEF c
    <2>11. maps'[l][vmap'[l]] = n
      BY <2>7, <2>8
    <2>12. QED
      BY <2>2, <2>8, <2>9, <2>10, <2>11
  <1>7. QED
    BY <1>5, <1>6 DEF SetVertexMap

(* insert_inner_vertex: one more vertex, and a map that knows it. *)
LEMMA InsertMaps ==
  ASSUME MapInv, NEW t \in Threads, NEW l \in Labels, NEW row \in Rows, Insert(t, l, row)
  PROVE  MapInv'
  <1> DEFINE v == Len(hist[l]) + 1
             id == IF l \in StringIds THEN Kept(1, v) ELSE v
             log == <<[epoch |-> epoch, row |-> row, id |-> id]>>
  <1>1. /\ hist \in [Labels -> HistoryType] /\ maps \in [Labels -> Seq(MapType)]
        /\ vmap \in [Labels -> Nat] /\ pubs \in Seq(PubType) /\ pubs' = pubs
        /\ epoch \in Nat /\ epoch' = epoch
    BY DEF MapInv, IdTypes, Insert
  <1>2. hist' = [hist EXCEPT ![l] = Append(@, log)]
    BY DEF Insert
  <1>3. log \in Seq(LogType)
    <2>1. id \in Int
      BY <1>1 DEF HistoryType, Kept, Junk
    <2>2. row \in [Props -> Int]
      BY VertexStoreAssumption
    <2> HIDE DEF id
    <2>3. QED
      BY <1>1, <2>1, <2>2 DEF LogType
  <1> HIDE DEF log, id
  <1>4. /\ Append(hist[l], log) \in HistoryType
        /\ Len(Append(hist[l], log)) = v
        /\ Len(hist[l]) \in Nat
    <2> DEFINE S == Seq(LogType)
    <2>1. hist[l] \in Seq(S) /\ log \in S
      BY <1>1, <1>3 DEF HistoryType
    <2> HIDE DEF S
    <2>2. /\ Append(hist[l], log) \in Seq(S)
          /\ Len(Append(hist[l], log)) = Len(hist[l]) + 1 /\ Len(hist[l]) \in Nat
      BY <2>1, AppendFacts
    <2>3. QED
      BY <2>2 DEF S, HistoryType
  <1>5. /\ hist' \in [Labels -> HistoryType] /\ Len(hist'[l]) = v
        /\ \A k \in Labels \ {l} : hist'[k] = hist[k]
    BY <1>1, <1>2, <1>4
  <1>6. /\ maps' \in [Labels -> Seq(MapType)] /\ vmap' \in [Labels -> Nat]
        /\ \A k \in Labels \ {l} : maps'[k] = maps[k] /\ vmap'[k] = vmap[k]
        /\ Len(maps'[l]) >= 1 /\ vmap'[l] = Len(maps'[l]) /\ vmap[l] <= vmap'[l]
        /\ l \notin StringIds => Serves(maps'[l][vmap'[l]], v)
        /\ \A r \in DOMAIN pubs : l \notin StringIds =>
             Serves(maps'[l][pubs[r].vmap[l]], pubs[r].max[l])
    <2>1. CASE l \in StringIds
      <3>1. maps' = maps /\ vmap' = vmap
        BY <2>1 DEF Insert
      <3>2. QED
        BY <3>1, <2>1, <1>1 DEF MapInv, CurrentMap
    <2>2. CASE l \notin StringIds
      <3>1. SetVertexMap(l, v)
        BY <2>2 DEF Insert
      <3>2. v \in Nat /\ l \in Labels \ StringIds
        BY <2>2, <1>4
      <3> HIDE DEF v
      <3>3. v = Len(hist[l]) + 1
        BY DEF v
      <3>4. QED
        BY <3>1, <3>2, <3>3, SetVertexMapStep
    <2>3. QED
      BY <2>1, <2>2
  <1> HIDE DEF v
  <1>7. v \in Nat /\ v = Len(hist[l]) + 1
    BY <1>4 DEF v
  <1>8. ASSUME NEW k \in Labels PROVE CurrentMap(k)' /\ PublishedMap(k)'
    <2>1. CurrentMap(k) /\ PublishedMap(k)
      BY DEF MapInv
    <2>2. CASE k # l
      BY <2>1, <2>2, <1>1, <1>5, <1>6 DEF CurrentMap, PublishedMap
    <2>3. CASE k = l
      <3>1. CurrentMap(l)'
        BY <1>5, <1>6 DEF CurrentMap
      <3>2. ASSUME NEW r \in DOMAIN pubs
            PROVE  /\ pubs[r].vmap[l] \in 1 .. vmap'[l]
                   /\ pubs[r].max[l] <= Len(hist'[l])
        <4>1. pubs[r] \in PubType
          BY <1>1
        <4>2. QED
          BY <4>1, <2>1, <2>3, <1>1, <1>4, <1>5, <1>6, <1>7 DEF PublishedMap, PubType
      <3>3. PublishedMap(l)'
        BY <3>2, <2>1, <2>3, <1>1, <1>6 DEF PublishedMap
      <3>4. QED
        BY <3>1, <3>3, <2>3
    <2>4. QED
      BY <2>2, <2>3
  <1>9. QED
    BY <1>1, <1>5, <1>6, <1>8 DEF MapInv, IdTypes

(* What readers will see of an updated row: the strings that found no room  *)
(* are junk.                                                                *)
NewIn(l, v, row) == {p \in Changed(l, v, row) : row[p] # Empty /\ Index(p) # {}}

RankOf(new, p) == Cardinality({q \in new : Place(q) <= Place(p)})

RowSeen(row, new) ==
  [p \in Props |-> IF p \in new THEN Kept(RankOf(new, p), row[p]) ELSE row[p]]

LEMMA SeenRow ==
  ASSUME NEW t \in Threads, NEW l \in Labels, NEW row \in Rows,
         NEW v \in 0 .. (MaxVertices - 1), Update(t, l, row, v)
  PROVE  /\ RowSeen(row, NewIn(l, v, row)) \in [Props -> Int]
         /\ hist' = [hist EXCEPT ![l][v + 1] =
                       Append(@, [epoch |-> epoch, id |-> Empty,
                                  row |-> RowSeen(row, NewIn(l, v, row))])]
  <1>1. row \in [Props -> Int]
    BY VertexStoreAssumption
  <1>2. RowSeen(row, NewIn(l, v, row)) \in [Props -> Int]
    BY <1>1 DEF RowSeen, Kept, Junk
  <1>3. QED
    BY <1>2 DEF Update, RowSeen, NewIn, RankOf

(* update_inner_vertex: the logs of one vertex grow, the vertices do not. *)
LEMMA UpdateMaps ==
  ASSUME MapInv, NEW t \in Threads, NEW l \in Labels, NEW row \in Rows,
         NEW v \in 0 .. (MaxVertices - 1), Update(t, l, row, v)
  PROVE  MapInv'
  <1>a. PICK x \in [Props -> Int] : x = RowSeen(row, NewIn(l, v, row))
    BY SeenRow
  <1>b. hist' = [hist EXCEPT ![l][v + 1] = Append(@, [epoch |-> epoch, id |-> Empty, row |-> x])]
    BY <1>a, SeenRow
  <1> DEFINE log == [epoch |-> epoch, id |-> Empty, row |-> x]
             new == Append(hist[l][v + 1], log)
  <1>1. /\ IdTypes /\ maps' = maps /\ vmap' = vmap /\ pubs' = pubs /\ epoch' = epoch
        /\ hist' = [hist EXCEPT ![l] = [hist[l] EXCEPT ![v + 1] = new]]
        /\ v < Len(hist[l])
    BY <1>b DEF MapInv, Update, ids
  <1>2. log \in LogType
    BY <1>1 DEF IdTypes, LogType, Empty
  <1>3. hist[l] \in HistoryType /\ Len(hist[l]) \in Nat /\ v + 1 \in 1 .. Len(hist[l])
    <2>1. hist[l] \in HistoryType
      BY <1>1 DEF IdTypes
    <2>2. Len(hist[l]) \in Nat
      BY <2>1 DEF HistoryType
    <2>3. v \in Nat
      BY VertexStoreAssumption
    <2>4. QED
      BY <2>1, <2>2, <2>3, <1>1
  <1>4. hist[l][v + 1] \in Seq(LogType)
    BY <1>3 DEF HistoryType
  <1> HIDE DEF log
  <1>5. new \in Seq(LogType)
    BY <1>2, <1>4, AppendFacts
  <1> HIDE DEF new
  <1>6. [hist[l] EXCEPT ![v + 1] = new] \in HistoryType
        /\ Len([hist[l] EXCEPT ![v + 1] = new]) = Len(hist[l])
    BY <1>3, <1>5 DEF HistoryType
  <1>7. hist' \in [Labels -> HistoryType] /\ \A k \in Labels : Len(hist'[k]) = Len(hist[k])
    BY <1>1, <1>6 DEF IdTypes
  <1>8. IdTypes'
    BY <1>1, <1>7 DEF IdTypes
  <1>9. ASSUME NEW k \in Labels PROVE CurrentMap(k)' /\ PublishedMap(k)'
    BY <1>1, <1>7 DEF MapInv, CurrentMap, PublishedMap
  <1>10. QED
    BY <1>8, <1>9 DEF MapInv

(* update_blob names the current maps, which serve all vertices. *)
LEMMA PublishMaps == MapInv /\ Publish => MapInv'
  <1> SUFFICES ASSUME MapInv, Publish PROVE MapInv'
    OBVIOUS
  <1> DEFINE p == [max |-> [l \in Labels |-> Len(hist[l])], vmap |-> vmap]
  <1>1. /\ IdTypes /\ hist' = hist /\ maps' = maps /\ vmap' = vmap
        /\ pubs' = Append(pubs, p) /\ epoch' = epoch + 1
    BY DEF MapInv, Publish, ids
  <1>2. p \in PubType /\ p.vmap = vmap /\ \A l \in Labels : p.max[l] = Len(hist[l])
    BY <1>1 DEF IdTypes, PubType, HistoryType
  <1> HIDE DEF p
  <1>3. /\ pubs' \in Seq(PubType) /\ Len(pubs') = Len(pubs) + 1 /\ Len(pubs) \in Nat
        /\ \A i \in 1 .. Len(pubs) : pubs'[i] = pubs[i]
        /\ pubs'[Len(pubs) + 1] = p
    BY <1>1, <1>2, AppendFacts DEF IdTypes
  <1>4. DOMAIN pubs = 1 .. Len(pubs) /\ DOMAIN pubs' = 1 .. Len(pubs) + 1
    BY <1>1, <1>3 DEF IdTypes
  <1>5. IdTypes'
    BY <1>1, <1>3 DEF IdTypes
  <1>6. ASSUME NEW l \in Labels PROVE CurrentMap(l)'
    BY <1>1 DEF MapInv, CurrentMap
  <1>7. ASSUME NEW l \in Labels PROVE PublishedMap(l)'
    <2>1. CurrentMap(l) /\ PublishedMap(l)
      BY DEF MapInv
    <2>2. vmap[l] \in Nat /\ vmap[l] >= 1 /\ vmap'[l] = vmap[l] /\ Len(hist[l]) \in Nat
      BY <2>1, <1>1 DEF CurrentMap, IdTypes, HistoryType
    <2>3. ASSUME NEW r \in DOMAIN pubs'
          PROVE  /\ pubs'[r].vmap[l] \in 1 .. vmap[l]
                 /\ pubs'[r].max[l] <= Len(hist[l])
                 /\ l \notin StringIds => Serves(maps[l][pubs'[r].vmap[l]], pubs'[r].max[l])
      <3>1. CASE r = Len(pubs) + 1
        BY <3>1, <2>1, <2>2, <1>2, <1>3 DEF CurrentMap
      <3>2. CASE r \in DOMAIN pubs
        BY <3>2, <2>1, <1>3, <1>4 DEF PublishedMap
      <3>3. QED
        BY <3>1, <3>2, <1>3, <1>4
    <2>4. ASSUME NEW r \in DOMAIN pubs', NEW q \in DOMAIN pubs', r <= q
          PROVE  pubs'[r].vmap[l] <= pubs'[q].vmap[l]
      <3>1. CASE q = Len(pubs) + 1
        BY <3>1, <2>2, <2>3, <1>2, <1>3
      <3>2. CASE q \in DOMAIN pubs
        <4>1. r \in DOMAIN pubs
          BY <3>2, <2>4, <1>3, <1>4
        <4>2. QED
          BY <4>1, <3>2, <2>1, <2>4, <1>3, <1>4 DEF PublishedMap
      <3>3. QED
        BY <3>1, <3>2, <1>3, <1>4
    <2>5. QED
      BY <2>2, <2>3, <2>4, <1>1 DEF PublishedMap
  <1>8. QED
    BY <1>5, <1>6, <1>7 DEF MapInv

(* Pages and threads do not matter to the maps. *)
LEMMA MapStep == MapInv /\ [Next]_vars => MapInv'
  <1> SUFFICES ASSUME MapInv, [Next]_vars PROVE MapInv'
    OBVIOUS
  <1>1. ASSUME UNCHANGED <<epoch, hist, maps, vmap, pubs>> PROVE MapInv'
    BY <1>1 DEF MapInv, IdTypes, CurrentMap, PublishedMap
  <1>2. ASSUME NEW t \in Threads, Step(t) PROVE MapInv'
    <2>1. UNCHANGED <<epoch, hist, maps, vmap, pubs>>
      BY <1>2 DEF Step, Find, GetRegion, BufferFull, NewPage, Stamp, Write, ids
    <2>2. QED
      BY <2>1, <1>1
  <1>3. CASE UNCHANGED vars
    BY <1>3, <1>1 DEF vars
  <1>4. CASE Publish
    BY <1>4, PublishMaps
  <1>5. ASSUME NEW t \in Threads, NEW l \in Labels, NEW row \in Rows,
               \/ Insert(t, l, row)
               \/ \E v \in 0 .. (MaxVertices - 1) : Update(t, l, row, v)
        PROVE  MapInv'
    BY <1>5, InsertMaps, UpdateMaps
  <1>6. ASSUME NEW l \in Labels, NEW row \in Rows, NEW v \in 0 .. (MaxVertices - 1),
               UpdateFaults(l, row, v)
        PROVE  MapInv'
    BY <1>6, <1>1 DEF UpdateFaults, ids
  <1>7. QED
    BY <1>2, <1>3, <1>4, <1>5, <1>6 DEF Next

(* Every published epoch's vertex map is still there and finds every vertex *)
(* of that epoch: set_vertex_map aborts only maps that no epoch names       *)
(* (history_vertex_maps_), whatever the threads do to the pages.            *)
THEOREM MapsServe == Spec => []PublishedMapServes
  <1>1. MapInv => PublishedMapServes
    BY DEF MapInv, PublishedMap, PublishedMapServes, Serves
  <1>2. QED
    BY <1>1, MapInit, MapStep, PTL DEF Spec

-----------------------------------------------------------------------------
(* The pages. *)

(* The column a thread works on is one of the columns. *)
LEMMA ColumnOf ==
  ASSUME NEW t \in Threads, Busy(th[t])
  PROVE  /\ Fam(t) \in th[t].todo /\ Fam(t) \in Families
         /\ Col(t) \in Columns /\ Col(t)[1] = th[t].label
         /\ th[t].label \in Labels
  <1>1. /\ th[t].todo \in SUBSET Families /\ th[t].todo # {}
        /\ th[t].vertex \in 0 .. (MaxVertices - 1) /\ th[t].label \in Labels
    BY DEF Busy
  <1>2. Fam(t) \in th[t].todo
    BY ONLY <1>1, MinIsMember, Sizes DEF Fam
  <1>3. th[t].vertex \div PageSize \in PageNums
    BY ONLY <1>1, DivMonotone, Sizes DEF PageNums
  <1>4. QED
    BY <1>1, <1>2, <1>3 DEF Col, Column, Columns

(* Where nobody races, one thread at most is making a page. *)
LEMMA OneMaker ==
  ASSUME NoRace, ThreadsOK, LocksHeld, NEW t \in Threads, NEW u \in Threads,
         th[t].pc \in Locked, th[u].pc \in Locked
  PROVE  t = u
  <1>1. Busy(th[t]) /\ Busy(th[u])
    BY DEF ThreadsOK, Locked, Idle, Dead
  <1>2. th[t].label \in Labels /\ th[u].label \in Labels
    BY <1>1 DEF Busy
  <1>3. mutex[th[t].label] = t /\ mutex[th[u].label] = u
    BY DEF LocksHeld, Holds
  <1>4. QED
    BY <1>2, <1>3 DEF NoRace

(* A buffer with nothing but headers, and no thread at work. *)
LEMMA PageInit == Init => PageInv
  <1> SUFFICES ASSUME Init PROVE PageInv
    OBVIOUS
  <1>1. hist \in [Labels -> HistoryType]
    BY DEF Init, HistoryType
  <1>2. ThreadsOK /\ LocksHeld
    BY DEF Init, ThreadsOK, LocksHeld, Locked, Idle
  <1>3. PageTypes
    BY VertexStoreAssumption DEF Init, PageTypes
  <1>4. QED
    BY <1>1, <1>2, <1>3 DEF Init, PageInv, InHand, HasNewest, Idle

(* A log that begins changes no page; its thread was idle. *)
LEMMA BeginPages ==
  ASSUME PageInv, NEW t \in Threads, th[t].pc = "idle",
         NEW q, Busy(q), q.pc = "find", th' = [th EXCEPT ![t] = q],
         hist' \in [Labels -> HistoryType],
         UNCHANGED <<epoch, pubs, pages, mutex>>
  PROVE  PageInv'
  <1>1. /\ th = [u \in Threads |-> th[u]]
        /\ th'[t] = q /\ \A u \in Threads : u # t => th'[u] = th[u]
        /\ th' = [u \in Threads |-> th'[u]]
        /\ UNCHANGED <<epoch, pubs, size, mem, header, newest, oldest, mutex>>
    BY DEF PageInv, ThreadsOK, pages
  <1>2. ThreadsOK'
    BY <1>1 DEF PageInv, ThreadsOK, Busy
  <1>3. LocksHeld'
    BY <1>1 DEF PageInv, LocksHeld, Locked, Holds
  <1>4. PageTypes'
    BY <1>1 DEF PageInv, PageTypes
  <1>5. \A u \in Threads : InHand(u)'
    BY <1>1 DEF PageInv, InHand
  <1>6. ASSUME NEW c \in Columns PROVE HasNewest(c)'
    <2>1. ASSUME NEW u \in Threads, th[u].pc = "stamp", Col(u) = c
          PROVE  th'[u].pc = "stamp" /\ Col(u)' = c
      BY <2>1, <1>1 DEF Col, Fam, Column
    <2>2. QED
      BY <2>1, <1>1 DEF PageInv, HasNewest
  <1>7. QED
    BY <1>2, <1>3, <1>4, <1>5, <1>6 DEF PageInv

(* When the process is gone, the pages stay as they are. *)
LEMMA GonePages ==
  ASSUME PageInv, th' = Gone, hist' \in [Labels -> HistoryType],
         UNCHANGED <<epoch, pubs, pages, mutex>>
  PROVE  PageInv' /\ \A u \in Threads : th'[u].pc = "dead"
  <1>1. UNCHANGED <<epoch, pubs, size, mem, header, newest, oldest, mutex>>
    BY DEF pages
  <1>2. ASSUME NEW u \in Threads PROVE Dead(th'[u])
    <2>1. th[u] = Idle \/ Dead(th[u]) \/ Busy(th[u])
      BY DEF PageInv, ThreadsOK
    <2>2. "pc" \in DOMAIN th[u]
      BY <2>1 DEF Idle, Dead, Busy
    <2>3. th'[u] = [th[u] EXCEPT !.pc = "dead"]
      BY DEF Gone
    <2>4. QED
      BY <2>2, <2>3 DEF Dead
  <1>3. \A u \in Threads : th'[u].pc = "dead"
    BY <1>2 DEF Dead
  <1>4. ThreadsOK'
    BY <1>1, <1>2, <1>3 DEF PageInv, ThreadsOK, Gone
  <1>5. LocksHeld' /\ \A u \in Threads : InHand(u)'
    BY <1>3 DEF LocksHeld, Locked, InHand
  <1>6. \A c \in Columns : HasNewest(c)'
    BY <1>3, VertexStoreAssumption DEF HasNewest
  <1>7. PageTypes'
    BY <1>1 DEF PageInv, PageTypes
  <1>8. QED
    BY <1>1, <1>3, <1>4, <1>5, <1>6, <1>7 DEF PageInv

(* insert gives the thread all families to do, if the strings fit. *)
LEMMA InsertWork ==
  ASSUME NEW t \in Threads, NEW l \in Labels, NEW row \in Rows, Insert(t, l, row)
  PROVE  \/ th' = Gone
         \/ \E cells : th' = Work(t, "insert", l, Len(hist[l]) + 1 - 1, cells, Families)
  <1> DEFINE n == IF l \in StringIds THEN 1 ELSE 0
             Stored(p) == IF Index(p) = {} THEN row[p]
                          ELSE KeyOf(n + Place(p))
             c == [p \in Props |-> Cell(row[p], Stored(p))]
  <1>1. th' = Gone \/ th' = Work(t, "insert", l, Len(hist[l]) + 1 - 1, c, Families)
    BY DEF Insert
  <1>2. QED
    BY <1>1

(* insert: the new vertex has a row within the pages. *)
LEMMA InsertPages ==
  ASSUME PageInv, MapInv', NEW t \in Threads, NEW l \in Labels, NEW row \in Rows,
         Insert(t, l, row)
  PROVE  PageInv'
  <1>1. hist' \in [Labels -> HistoryType] /\ hist \in [Labels -> HistoryType]
    BY DEF MapInv, IdTypes, PageInv
  <1>2. Len(hist[l]) \in 0 .. (MaxVertices - 1)
    <2>1. Len(hist[l]) \in Nat
      BY <1>1 DEF HistoryType
    <2>2. QED
      BY <2>1, VertexStoreAssumption DEF Insert
  <1>a. th[t].pc = "idle" /\ UNCHANGED <<epoch, pubs, pages, mutex>>
    BY DEF Insert
  <1>b. CASE th' = Gone
    BY <1>a, <1>b, <1>1, GonePages
  <1>c. SUFFICES ASSUME th' # Gone PROVE PageInv'
    BY <1>b
  <1>3. PICK cells : th' = Work(t, "insert", l, Len(hist[l]) + 1 - 1, cells, Families)
    BY <1>c, InsertWork
  <1> DEFINE q == [pc |-> "find", op |-> "insert", label |-> l,
                   vertex |-> Len(hist[l]) + 1 - 1, cells |-> cells,
                   todo |-> Families, page |-> 0]
  <1>4. th' = [th EXCEPT ![t] = q]
    BY <1>3 DEF Work
  <1>5. Families # {}
    BY VertexStoreAssumption DEF Families
  <1>6. Busy(q) /\ q.pc = "find"
    BY <1>2, <1>5 DEF Busy
  <1> HIDE DEF q
  <1>7. QED
    BY <1>1, <1>4, <1>6, <1>a, BeginPages

(* update: only the families with a difference are to do, if there are any. *)
LEMMA UpdatePages ==
  ASSUME PageInv, MapInv', NEW t \in Threads, NEW l \in Labels, NEW row \in Rows,
         NEW v \in 0 .. (MaxVertices - 1), Update(t, l, row, v)
  PROVE  PageInv'
  <1>1. hist' \in [Labels -> HistoryType]
    BY DEF MapInv, IdTypes
  <1> DEFINE fams == {PropFam[p] : p \in Changed(l, v, row)}
  <1>2. PICK cells : th' = IF fams = {} THEN th ELSE Work(t, "update", l, v, cells, fams)
    BY DEF Update
  <1>3. fams \subseteq Families
    BY VertexStoreAssumption DEF Changed, Props
  <1> HIDE DEF fams
  <1> DEFINE q == [pc |-> "find", op |-> "update", label |-> l, vertex |-> v,
                   cells |-> cells, todo |-> fams, page |-> 0]
  <1>4. th[t].pc = "idle" /\ UNCHANGED <<epoch, pubs, pages, mutex>>
    BY DEF Update, Alone
  <1>5. CASE fams # {}
    <2>1. th' = [th EXCEPT ![t] = q]
      BY <1>2, <1>5 DEF Work
    <2>2. Busy(q) /\ q.pc = "find"
      BY <1>3, <1>5 DEF Busy
    <2> HIDE DEF q
    <2>3. QED
      BY <2>1, <2>2, <1>1, <1>4, BeginPages
  <1>6. CASE fams = {}
    <2>1. UNCHANGED <<epoch, pubs, size, mem, header, newest, oldest, mutex, th>>
      BY <1>2, <1>4, <1>6 DEF pages
    <2>2. \A c : Col(c)' = Col(c)
      BY <2>1 DEF Col, Fam, Column
    <2>3. QED
      BY <2>1, <2>2, <1>1 DEF PageInv, ThreadsOK, LocksHeld, Holds, PageTypes, InHand, HasNewest
  <1>7. QED
    BY <1>5, <1>6

(* Publication waits for the threads, so no page in hand gets old. *)
LEMMA PublishPages == PageInv /\ MapInv' /\ Publish => PageInv'
  <1> SUFFICES ASSUME PageInv, MapInv', Publish PROVE PageInv'
    OBVIOUS
  <1>1. /\ epoch' = epoch + 1 /\ epoch < MaxEpoch
        /\ UNCHANGED <<size, mem, header, newest, oldest, mutex, th>>
        /\ pubs' \in Seq(PubType) /\ Len(pubs') = Len(pubs) + 1
        /\ hist' \in [Labels -> HistoryType]
        /\ \A t \in Threads : th[t].pc = "idle"
    <2>1. PICK p : pubs' = Append(pubs, p)
      BY DEF Publish
    <2>2. pubs' \in Seq(PubType) /\ hist' \in [Labels -> HistoryType] /\ pubs \in Seq(PubType)
      BY DEF MapInv, IdTypes, PageInv, PageTypes
    <2>3. Len(pubs') = Len(pubs) + 1
      BY <2>1, <2>2
    <2>4. QED
      BY <2>2, <2>3 DEF Publish, pages, Alone
  <1>2. ThreadsOK' /\ LocksHeld'
    BY <1>1 DEF PageInv, ThreadsOK, LocksHeld, Holds, Locked
  <1>3. PageTypes'
    <2>1. \A s \in DOMAIN mem :
            mem[s] \in [ver : {Fresh} \cup 0 .. epoch', prev : 0 .. (s - 1), rows : {mem[s].rows}]
      BY <1>1, VertexStoreAssumption DEF PageInv, PageTypes
    <2>2. QED
      BY <2>1, <1>1, VertexStoreAssumption DEF PageInv, PageTypes
  <1>4. \A t \in Threads : InHand(t)'
    BY <1>1 DEF InHand
  <1>5. \A c \in Columns : HasNewest(c)'
    BY <1>1 DEF PageInv, HasNewest
  <1>6. QED
    BY <1>1, <1>2, <1>3, <1>4, <1>5 DEF PageInv

-----------------------------------------------------------------------------
(* The steps of a thread. *)

(* A thread inside a log that goes on with the same vertex. *)
LEMMA GoOn ==
  ASSUME ThreadsOK, NEW t \in Threads, Busy(th[t]), NEW q, Busy(q),
         th' = [th EXCEPT ![t] = q], mutex' \in [Labels -> Threads \cup {Free}]
  PROVE  /\ ThreadsOK' /\ th'[t] = q
         /\ \A u \in Threads : u # t => th'[u] = th[u] /\ Col(u)' = Col(u)
  <1>1. th'[t] = q /\ \A u \in Threads : u # t => th'[u] = th[u]
    BY DEF ThreadsOK
  <1>2. ThreadsOK'
    <2>1. \A u \in Threads : th[u].pc # "dead"
      BY DEF ThreadsOK, Busy
    <2>2. q.pc # "dead"
      BY DEF Busy
    <2>3. \A u \in Threads : th'[u].pc # "dead"
      BY <1>1, <2>1, <2>2
    <2>4. \A u \in Threads : th'[u] = Idle \/ Dead(th'[u]) \/ Busy(th'[u])
      BY <1>1 DEF ThreadsOK
    <2>5. th' = [u \in Threads |-> th'[u]]
      BY DEF ThreadsOK
    <2>6. QED
      BY <2>3, <2>4, <2>5 DEF ThreadsOK
  <1>3. QED
    BY <1>1, <1>2 DEF Col, Fam, Column

(* While its label's mutex is free, a column with a first page has a newest *)
(* one.                                                                     *)
LEMMA FindNewest ==
  ASSUME PageInv, NEW t \in Threads, Busy(th[t]), mutex[th[t].label] = Free,
         oldest[Col(t)] # 0
  PROVE  newest[Col(t)] \in DOMAIN mem
  <1>1. Col(t) \in Columns /\ Col(t)[1] = th[t].label
    BY ColumnOf
  <1>2. newest[Col(t)] # 0
    <2>a. \A u \in Threads : th[u].pc # "dead"
      BY DEF PageInv, ThreadsOK, Busy
    <2>1. SUFFICES ASSUME NEW u \in Threads, th[u].pc = "stamp", Col(u) = Col(t)
                   PROVE  FALSE
      BY <1>1, <2>a DEF PageInv, HasNewest
    <2>2. Busy(th[u])
      BY <2>1 DEF PageInv, ThreadsOK, Idle, Dead
    <2>3. th[u].label = th[t].label
      BY <2>1, <2>2, <1>1, ColumnOf
    <2>4. mutex[th[u].label] = u
      BY <2>1 DEF PageInv, LocksHeld, Holds, Locked
    <2>5. QED
      BY <2>3, <2>4, VertexStoreAssumption DEF Free
  <1>3. QED
    BY <1>1, <1>2 DEF PageInv, PageTypes

(* Find: the page of this epoch, or the mutex. *)
LEMMA FindPages ==
  ASSUME PageInv, NEW t \in Threads, Find(t)
  PROVE  PageInv'
  <1> DEFINE n == newest[Col(t)]
  <1>1. /\ Busy(th[t]) /\ th[t].pc = "find" /\ mutex[th[t].label] = Free
        /\ UNCHANGED <<epoch, hist, pubs, size, mem, header, newest, oldest>>
    BY DEF Find, PageInv, ThreadsOK, Idle, Dead, pages
  <1>2. Col(t) \in Columns /\ Col(t)[1] = th[t].label /\ th[t].label \in Labels
    BY <1>1, ColumnOf
  <1>3. /\ mutex \in [Labels -> Threads \cup {Free}] /\ Free \notin Threads
        /\ ThreadsOK /\ LocksHeld
    BY VertexStoreAssumption DEF PageInv, ThreadsOK, Free
  <1>4. PageTypes'
    BY <1>1 DEF PageInv, PageTypes
  <1>5. CASE oldest[Col(t)] # 0 /\ mem[n].ver = epoch
    <2> DEFINE q == [th[t] EXCEPT !.pc = "write", !.page = n]
    <2>1. th' = [th EXCEPT ![t] = q] /\ mutex' = mutex
      BY <1>5 DEF Find
    <2>2. n \in DOMAIN mem /\ n \in Nat
      BY <1>1, <1>5, FindNewest DEF PageInv, PageTypes
    <2>3. Busy(q) /\ q.pc = "write" /\ q.page = n
      BY <1>1, <2>2 DEF Busy
    <2> HIDE DEF q, n
    <2>4. /\ ThreadsOK' /\ th'[t] = q
          /\ \A u \in Threads : u # t => th'[u] = th[u] /\ Col(u)' = Col(u)
      BY <2>1, <2>3, <1>1, <1>3, GoOn
    <2>5. LocksHeld'
      BY <2>1, <2>3, <2>4, <1>3 DEF LocksHeld, Holds, Locked
    <2>6. \A u \in Threads : InHand(u)'
      BY <2>2, <2>3, <2>4, <1>1, <1>5 DEF PageInv, InHand, n
    <2>7. \A c \in Columns : HasNewest(c)'
      BY <2>4, <1>1 DEF PageInv, HasNewest
    <2>8. QED
      BY <2>4, <2>5, <2>6, <2>7, <1>1, <1>4 DEF PageInv
  <1>6. CASE ~(oldest[Col(t)] # 0 /\ mem[n].ver = epoch)
    <2> DEFINE q == [th[t] EXCEPT !.pc = "region"]
    <2>1. th' = [th EXCEPT ![t] = q] /\ mutex' = [mutex EXCEPT ![th[t].label] = t]
      BY <1>6 DEF Find, Goto
    <2>2. Busy(q) /\ q.pc = "region" /\ q.label = th[t].label
      BY <1>1 DEF Busy
    <2> HIDE DEF q
    <2>3. mutex' \in [Labels -> Threads \cup {Free}]
      BY <2>1, <1>2, <1>3
    <2>4. /\ ThreadsOK' /\ th'[t] = q
          /\ \A u \in Threads : u # t => th'[u] = th[u] /\ Col(u)' = Col(u)
      BY <2>1, <2>2, <2>3, <1>1, <1>3, GoOn
    <2>5. ASSUME NEW u \in Threads, th'[u].pc \in Locked PROVE mutex'[th'[u].label] = u
      <3>1. CASE u = t
        BY <3>1, <2>1, <2>2, <2>4, <1>2, <1>3
      <3>2. CASE u # t
        <4>1. mutex[th[u].label] = u /\ th'[u] = th[u]
          BY <3>2, <2>4, <2>5, <1>3 DEF LocksHeld, Holds
        <4>2. th[u].label # th[t].label
          BY <4>1, <1>1, <1>3
        <4>3. QED
          BY <4>1, <4>2, <2>1, <1>3
      <3>3. QED
        BY <3>1, <3>2
    <2>6. LocksHeld'
      BY <2>5 DEF LocksHeld, Holds
    <2>7. \A u \in Threads : InHand(u)'
      BY <2>2, <2>4, <1>1 DEF PageInv, InHand
    <2>8. \A c \in Columns : HasNewest(c)'
      BY <2>4, <1>1 DEF PageInv, HasNewest
    <2>9. QED
      BY <2>4, <2>6, <2>7, <2>8, <1>1, <1>4 DEF PageInv
  <1>7. QED
    BY <1>5, <1>6

(* GetRegion: the page is the next one, and nobody else asks meanwhile. *)
LEMMA GetRegionPages ==
  ASSUME PageInv, NEW t \in Threads, GetRegion(t)
  PROVE  PageInv'
  <1>1. /\ Busy(th[t]) /\ th[t].pc = "region" /\ size < Capacity
        /\ UNCHANGED <<epoch, hist, pubs, size, mem, header, newest, oldest, mutex>>
    BY DEF GetRegion, PageInv, ThreadsOK, Idle, Dead, pages
  <1> DEFINE q == [th[t] EXCEPT !.pc = "page", !.page = size]
  <1>2. th' = [th EXCEPT ![t] = q]
    BY DEF GetRegion
  <1>3. size \in Nat
    BY VertexStoreAssumption DEF PageInv, PageTypes
  <1>4. Busy(q) /\ q.pc = "page" /\ q.page = size /\ q.label = th[t].label
    BY <1>1, <1>3 DEF Busy
  <1> HIDE DEF q
  <1>5. /\ ThreadsOK' /\ th'[t] = q
        /\ \A u \in Threads : u # t => th'[u] = th[u] /\ Col(u)' = Col(u)
    BY <1>1, <1>2, <1>4, GoOn DEF PageInv, ThreadsOK
  <1>6. LocksHeld'
    BY <1>1, <1>4, <1>5 DEF PageInv, LocksHeld, Holds, Locked
  <1>7. \A u \in Threads : InHand(u)'
    BY <1>1, <1>4, <1>5 DEF PageInv, InHand
  <1>8. \A c \in Columns : HasNewest(c)'
    BY <1>1, <1>5 DEF PageInv, HasNewest
  <1>9. PageTypes'
    BY <1>1 DEF PageInv, PageTypes
  <1>10. QED
    BY <1>1, <1>5, <1>6, <1>7, <1>8, <1>9 DEF PageInv

(* BufferFull: the process is gone. *)
LEMMA BufferFullPages ==
  ASSUME PageInv, NEW t \in Threads, BufferFull(t)
  PROVE  PageInv'
  <1>1. UNCHANGED <<epoch, hist, pubs, pages, mutex>> /\ th' = Gone
    BY DEF BufferFull
  <1>2. QED
    BY <1>1, GonePages DEF PageInv

(* update_inner_vertex reads a key that leads nowhere: the process is gone. *)
LEMMA UpdateFaultsPages ==
  ASSUME PageInv, NEW l \in Labels, NEW row \in Rows, NEW v \in 0 .. (MaxVertices - 1),
         UpdateFaults(l, row, v)
  PROVE  PageInv'
  <1>1. UNCHANGED <<epoch, hist, pubs, pages, mutex>> /\ th' = Gone
    BY DEF UpdateFaults
  <1>2. QED
    BY <1>1, GonePages, VertexStoreAssumption DEF PageInv

(* What a step may not do: write a page of a published epoch. *)
Frozen == \A s \in DOMAIN mem : mem[s].ver \in 0 .. (epoch - 1) => mem'[s] = mem[s]

(* A page that is put where there was none leaves the others alone. *)
LEMMA PutPageFacts ==
  ASSUME NEW s, NEW page, s \notin DOMAIN mem, PutPage(s, page)
  PROVE  /\ mem' = [x \in DOMAIN mem' |-> mem'[x]]
         /\ DOMAIN mem' = DOMAIN mem \cup {s}
         /\ mem'[s] = page
         /\ \A x \in DOMAIN mem : mem'[x] = mem[x]
  BY DEF PutPage

(* NewPage: a page nobody had, of no version or of this epoch. *)
LEMMA NewPagePages ==
  ASSUME PageInv, NoRace, NEW t \in Threads, NewPage(t)
  PROVE  PageInv' /\ Frozen
  <1> DEFINE s == th[t].page
             c == Col(t)
             page == [ver |-> IF oldest[c] = 0 THEN Fresh ELSE epoch,
                      prev |-> newest[c],
                      rows |-> IF oldest[c] = 0 THEN Blank(Fam(t))
                               ELSE mem[newest[c]].rows]
  <1>1. Busy(th[t]) /\ th[t].pc = "page" /\ UNCHANGED <<epoch, hist, pubs>>
    BY DEF NewPage, PageInv, ThreadsOK, Idle, Dead
  <1>2. c \in Columns /\ th[t].label \in Labels
    BY <1>1, ColumnOf
  <1>3. s = size /\ size < Capacity /\ size \in 1 .. Capacity /\ Capacity \in Nat
    BY <1>1, VertexStoreAssumption DEF PageInv, InHand, PageTypes
  <1>4. /\ header' = [header EXCEPT ![c] = s] /\ size' = s + 1 /\ PutPage(s, page)
    BY DEF NewPage, StoreSize
  <1>5. page.ver \in {Fresh} \cup 0 .. epoch /\ page.prev \in 0 .. (s - 1)
    <2>1. newest[c] \in DOMAIN mem \cup {0} /\ DOMAIN mem \subseteq 1 .. (size - 1)
          /\ epoch \in 0 .. MaxEpoch
      BY <1>2 DEF PageInv, PageTypes
    <2>2. QED
      BY <2>1, <1>3, VertexStoreAssumption
  <1>6. page \in [ver : {Fresh} \cup 0 .. epoch, prev : 0 .. (s - 1), rows : {page.rows}]
    BY <1>5
  <1> HIDE DEF page
  <1>7. s \notin DOMAIN mem
    BY <1>3 DEF PageInv, PageTypes
  <1>8. /\ mem' = [x \in DOMAIN mem' |-> mem'[x]]
        /\ DOMAIN mem' = DOMAIN mem \cup {s}
        /\ mem'[s] = page
        /\ \A x \in DOMAIN mem : mem'[x] = mem[x]
    <2> HIDE DEF s
    <2>1. QED
      BY <1>4, <1>7, PutPageFacts
  <1>9. \A u \in Threads : u # t => th[u].pc \notin Locked
    BY <1>1, OneMaker DEF PageInv, Locked
  <1>10. /\ s \in Nat \ {0} /\ DOMAIN mem' \subseteq 1 .. (size' - 1) /\ size' \in 1 .. Capacity
         /\ {header, newest, oldest} \subseteq [Columns -> DOMAIN mem' \cup {0}]
         /\ header' \in [Columns -> DOMAIN mem' \cup {0}]
    BY <1>2, <1>3, <1>4, <1>8 DEF PageInv, PageTypes
  <1>11. \A x \in DOMAIN mem' :
           mem'[x] \in [ver : {Fresh} \cup 0 .. epoch, prev : 0 .. (x - 1), rows : {mem'[x].rows}]
    BY <1>6, <1>8 DEF PageInv, PageTypes
  <1>12. ASSUME newest' \in [Columns -> DOMAIN mem' \cup {0}],
                oldest' \in [Columns -> DOMAIN mem' \cup {0}]
         PROVE  PageTypes'
    BY <1>1, <1>8, <1>10, <1>11, <1>12 DEF PageInv, PageTypes
  <1>13. ThreadsOK /\ LocksHeld /\ mutex \in [Labels -> Threads \cup {Free}]
    BY DEF PageInv, ThreadsOK
  <1>14. ASSUME NEW q, Busy(q), th' = [th EXCEPT ![t] = q],
                mutex' \in [Labels -> Threads \cup {Free}],
                q.pc \in Locked => mutex' = mutex /\ q.label = th[t].label,
                PageTypes',
                \/ q.pc = "stamp" /\ q.page = s /\ page.ver = Fresh
                \/ q.pc = "write" /\ q.page = s /\ page.ver = epoch,
                \A d \in Columns \ {c} : newest'[d] = newest[d] /\ oldest'[d] = oldest[d],
                oldest'[c] # 0 => newest'[c] # 0 \/ (q.pc = "stamp" /\ Col(t)' = c)
         PROVE  PageInv'
    <2>1. /\ ThreadsOK' /\ th'[t] = q
          /\ \A u \in Threads : u # t => th'[u] = th[u] /\ Col(u)' = Col(u)
      BY <1>1, <1>13, <1>14, GoOn
    <2>2. LocksHeld'
      BY <2>1, <1>1, <1>9, <1>13, <1>14 DEF LocksHeld, Holds, Locked
    <2>3. ASSUME NEW u \in Threads PROVE InHand(u)'
      <3>1. CASE u = t
        BY <3>1, <2>1, <1>1, <1>8, <1>14 DEF InHand
      <3>2. CASE u # t
        BY <3>2, <2>1, <1>1, <1>8, <1>9 DEF PageInv, InHand, Locked
      <3>3. QED
        BY <3>1, <3>2
    <2>4. ASSUME NEW d \in Columns PROVE HasNewest(d)'
      <3>1. CASE d = c
        BY <3>1, <2>1, <1>14 DEF HasNewest
      <3>2. CASE d # c
        <4>1. \A u \in Threads : th[u].pc = "stamp" => u # t
          BY <1>1
        <4>2. \A u \in Threads : th[u].pc # "dead"
          BY <1>1 DEF PageInv, ThreadsOK, Busy
        <4>3. QED
          BY <3>2, <4>1, <4>2, <2>1, <1>14 DEF PageInv, HasNewest
      <3>3. QED
        BY <3>1, <3>2
    <2>5. QED
      BY <2>1, <2>2, <2>3, <2>4, <1>1, <1>14 DEF PageInv
  <1>15. CASE oldest[c] = 0
    <2> DEFINE q == [th[t] EXCEPT !.pc = "stamp"]
    <2>1. /\ oldest' = [oldest EXCEPT ![c] = s] /\ newest' = newest /\ mutex' = mutex
          /\ th' = [th EXCEPT ![t] = q]
      BY <1>15 DEF NewPage, Goto
    <2>2. /\ Busy(q) /\ q.pc = "stamp" /\ q.page = s /\ q.label = th[t].label
          /\ q.vertex = th[t].vertex /\ q.todo = th[t].todo
      BY <1>1 DEF Busy
    <2>3. page.ver = Fresh
      BY <1>15 DEF page
    <2> HIDE DEF q
    <2>4. Col(t)' = c
      <3>1. th'[t] = q
        BY <2>1, <1>13 DEF ThreadsOK
      <3>2. QED
        BY <3>1, <2>2 DEF Col, Fam, Column
    <2>5. PageTypes' /\ \A d \in Columns \ {c} : oldest'[d] = oldest[d]
      BY <2>1, <1>2, <1>8, <1>10, <1>12
    <2> HIDE DEF s, c
    <2>6. PageInv'
      BY <2>1, <2>2, <2>3, <2>4, <2>5, <1>13, <1>14
    <2>7. QED
      BY <2>6, <1>8 DEF Frozen
  <1>16. CASE oldest[c] # 0
    <2> DEFINE q == [th[t] EXCEPT !.pc = "write"]
    <2>1. /\ newest' = [newest EXCEPT ![c] = s] /\ oldest' = oldest
          /\ mutex' = [mutex EXCEPT ![th[t].label] = Free]
          /\ th' = [th EXCEPT ![t] = q]
      BY <1>16 DEF NewPage, Goto, Release
    <2>2. Busy(q) /\ q.pc = "write" /\ q.page = s
      BY <1>1 DEF Busy
    <2>3. page.ver = epoch
      BY <1>16 DEF page
    <2> HIDE DEF q
    <2>4. PageTypes' /\ (\A d \in Columns \ {c} : newest'[d] = newest[d]) /\ newest'[c] # 0
      BY <2>1, <1>2, <1>8, <1>10, <1>12
    <2>5. mutex' \in [Labels -> Threads \cup {Free}]
      BY <2>1, <1>2, <1>13
    <2> HIDE DEF s, c
    <2>6. PageInv'
      BY <2>1, <2>2, <2>3, <2>4, <2>5, <1>14 DEF Locked
    <2>7. QED
      BY <2>6, <1>8 DEF Frozen
  <1>17. QED
    BY <1>15, <1>16

(* A step that changes one page in place, under a thread that has it in     *)
(* hand, and leaves its predecessor as it was.                              *)
LEMMA WritePageTypes ==
  ASSUME PageTypes, NEW s \in DOMAIN mem, NEW page,
         page \in [ver : {Fresh} \cup 0 .. epoch, prev : 0 .. (s - 1), rows : {page.rows}],
         mem' = [mem EXCEPT ![s] = page],
         newest' \in [Columns -> DOMAIN mem \cup {0}],
         UNCHANGED <<epoch, pubs, size, header, oldest>>
  PROVE  /\ PageTypes' /\ DOMAIN mem' = DOMAIN mem
         /\ mem'[s] = page /\ \A x \in DOMAIN mem : x # s => mem'[x] = mem[x]
  <1>1. /\ DOMAIN mem' = DOMAIN mem /\ mem' = [x \in DOMAIN mem' |-> mem'[x]]
        /\ mem'[s] = page /\ \A x \in DOMAIN mem : x # s => mem'[x] = mem[x]
    BY DEF PageTypes
  <1>2. \A x \in DOMAIN mem' :
          mem'[x] \in [ver : {Fresh} \cup 0 .. epoch, prev : 0 .. (x - 1), rows : {mem'[x].rows}]
    BY <1>1 DEF PageTypes
  <1>3. QED
    BY <1>1, <1>2 DEF PageTypes

(* Stamp: the page without a version gets one and is the newest. *)
LEMMA StampPages ==
  ASSUME PageInv, NoRace, NEW t \in Threads, Stamp(t)
  PROVE  PageInv' /\ Frozen
  <1> DEFINE s == th[t].page
             c == Col(t)
             page == [mem[s] EXCEPT !.ver = epoch]
             q == [th[t] EXCEPT !.pc = "write"]
  <1>1. Busy(th[t]) /\ th[t].pc = "stamp" /\ UNCHANGED <<epoch, hist, pubs, size, header, oldest>>
    BY DEF Stamp, PageInv, ThreadsOK, Idle, Dead
  <1>2. c \in Columns /\ th[t].label \in Labels
    BY <1>1, ColumnOf
  <1>3. s \in DOMAIN mem /\ mem[s].ver = Fresh /\ epoch \in Nat /\ PageTypes
        /\ 0 \notin DOMAIN mem
    BY <1>1, VertexStoreAssumption, SMTT(30) DEF PageInv, InHand, PageTypes
  <1>4. /\ mem' = [mem EXCEPT ![s] = page] /\ newest' = [newest EXCEPT ![c] = s]
        /\ th' = [th EXCEPT ![t] = q] /\ mutex' = [mutex EXCEPT ![th[t].label] = Free]
    BY DEF Stamp, Goto, Release
  <1>5. page \in [ver : {Fresh} \cup 0 .. epoch, prev : 0 .. (s - 1), rows : {page.rows}]
        /\ page.ver = epoch
    BY <1>3 DEF PageTypes
  <1>6. newest' \in [Columns -> DOMAIN mem \cup {0}] /\ newest'[c] = s
        /\ \A d \in Columns \ {c} : newest'[d] = newest[d]
    BY <1>2, <1>3, <1>4 DEF PageTypes
  <1> HIDE DEF page
  <1>7. /\ PageTypes' /\ DOMAIN mem' = DOMAIN mem
        /\ mem'[s] = page /\ \A x \in DOMAIN mem : x # s => mem'[x] = mem[x]
    <2> HIDE DEF s
    <2>1. QED
      BY <1>1, <1>3, <1>4, <1>5, <1>6, WritePageTypes
  <1>8. \A u \in Threads : u # t => th[u].pc \notin Locked
    BY <1>1, OneMaker DEF PageInv, Locked
  <1>9. Busy(q) /\ q.pc = "write" /\ q.page = s
    BY <1>1 DEF Busy
  <1>10. ThreadsOK /\ LocksHeld /\ mutex \in [Labels -> Threads \cup {Free}]
         /\ mutex' \in [Labels -> Threads \cup {Free}]
    BY <1>2, <1>4 DEF PageInv, ThreadsOK
  <1> HIDE DEF q
  <1>11. /\ ThreadsOK' /\ th'[t] = q
         /\ \A u \in Threads : u # t => th'[u] = th[u] /\ Col(u)' = Col(u)
    BY <1>1, <1>4, <1>9, <1>10, GoOn
  <1>12. LocksHeld'
    BY <1>8, <1>9, <1>11 DEF LocksHeld, Locked
  <1>13. ASSUME NEW u \in Threads PROVE InHand(u)'
    <2>1. CASE u = t
      BY <2>1, <1>1, <1>3, <1>5, <1>7, <1>9, <1>11 DEF InHand
    <2>2. CASE u # t
      <3>1. InHand(u) /\ th'[u] = th[u] /\ th[u].pc \notin Locked
        BY <2>2, <1>8, <1>11 DEF PageInv
      <3>2. th[u].pc = "write" => th[u].page # s
        BY <3>1, <1>3 DEF InHand, Fresh
      <3>3. QED
        BY <3>1, <3>2, <1>1, <1>7 DEF InHand, Locked
    <2>3. QED
      BY <2>1, <2>2
  <1>14. ASSUME NEW d \in Columns PROVE HasNewest(d)'
    <2>1. CASE d = c
      BY <2>1, <1>3, <1>6 DEF HasNewest
    <2>2. CASE d # c
      <3>1. \A u \in Threads : th[u].pc = "stamp" => u = t
        BY <1>8 DEF Locked
      <3>a. \A u \in Threads : th[u].pc # "dead"
        BY <1>1 DEF PageInv, ThreadsOK, Busy
      <3>2. oldest[d] # 0 => newest[d] # 0
        BY <2>2, <3>1, <3>a DEF PageInv, HasNewest
      <3>3. QED
        BY <2>2, <3>2, <1>1, <1>6 DEF HasNewest
    <2>3. QED
      BY <2>1, <2>2
  <1>15. Frozen
    <2>1. Fresh \notin 0 .. (epoch - 1)
      BY <1>3 DEF Fresh
    <2>2. QED
      BY <2>1, <1>3, <1>7 DEF Frozen
  <1>16. QED
    BY <1>1, <1>7, <1>11, <1>12, <1>13, <1>14, <1>15 DEF PageInv

(* Write: the page is of the epoch whose logs are being applied. *)
LEMMA WritePages ==
  ASSUME PageInv, NEW t \in Threads, Write(t)
  PROVE  PageInv' /\ Frozen
  <1> DEFINE s == th[t].page
             row == [p \in PropsOf(Fam(t)) |-> th[t].cells[p]]
             page == [mem[s] EXCEPT !.rows[th[t].vertex % PageSize] = row]
             q == IF th[t].todo = {Fam(t)} THEN Idle
                  ELSE [th[t] EXCEPT !.pc = "find", !.todo = @ \ {Fam(t)}]
  <1>1. /\ Busy(th[t]) /\ th[t].pc = "write"
        /\ UNCHANGED <<epoch, hist, pubs, size, header, newest, oldest, mutex>>
    BY DEF Write, PageInv, ThreadsOK, Idle, Dead
  <1>2. Fam(t) \in th[t].todo
    BY <1>1, ColumnOf
  <1>3. s \in DOMAIN mem /\ mem[s].ver = epoch /\ epoch \in Nat /\ PageTypes
    BY <1>1, VertexStoreAssumption, SMTT(30) DEF PageInv, InHand, PageTypes
  <1>4. mem' = [mem EXCEPT ![s] = page] /\ th' = [th EXCEPT ![t] = q]
    <2> HIDE DEF row
    <2>1. mem' = [mem EXCEPT ![s].rows[th[t].vertex % PageSize] = row]
      BY DEF Write, PageToWrite, row
    <2>2. mem' = [mem EXCEPT ![s] = page]
      BY <2>1
    <2>3. th' = [th EXCEPT ![t] = q]
      BY DEF Write
    <2>4. QED
      BY <2>2, <2>3
  <1>5. page \in [ver : {Fresh} \cup 0 .. epoch, prev : 0 .. (s - 1), rows : {page.rows}]
        /\ page.ver = epoch
    <2> HIDE DEF row
    <2>1. mem[s] \in [ver : {Fresh} \cup 0 .. epoch, prev : 0 .. (s - 1), rows : {mem[s].rows}]
      BY <1>3 DEF PageTypes
    <2> DEFINE rows == [mem[s].rows EXCEPT ![th[t].vertex % PageSize] = row]
    <2>2. page = [mem[s] EXCEPT !.rows = rows]
      OBVIOUS
    <2> HIDE DEF rows, page
    <2>3. QED
      BY <2>1, <2>2, <1>3
  <1>6. q = Idle \/ (Busy(q) /\ q.pc = "find")
    BY <1>1, <1>2 DEF Busy
  <1> HIDE DEF page, q
  <1>7. /\ PageTypes' /\ DOMAIN mem' = DOMAIN mem
        /\ mem'[s] = page /\ \A x \in DOMAIN mem : x # s => mem'[x] = mem[x]
    <2>1. newest' \in [Columns -> DOMAIN mem \cup {0}]
      BY <1>1, <1>3 DEF PageTypes
    <2> HIDE DEF s
    <2>2. QED
      BY <2>1, <1>1, <1>3, <1>4, <1>5, WritePageTypes
  <1>8. /\ th'[t] = q /\ q.pc \in {"idle", "find"} /\ th' = [u \in Threads |-> th'[u]]
        /\ \A u \in Threads : u # t => th'[u] = th[u] /\ Col(u)' = Col(u)
    <2>1. th'[t] = q /\ \A u \in Threads : u # t => th'[u] = th[u]
      BY <1>4 DEF PageInv, ThreadsOK
    <2>2. q.pc \in {"idle", "find"}
      BY <1>6 DEF Idle
    <2>3. QED
      BY <2>1, <2>2, <1>4 DEF PageInv, ThreadsOK, Col, Fam, Column
  <1>9. ThreadsOK' /\ LocksHeld'
    BY <1>1, <1>6, <1>8 DEF PageInv, ThreadsOK, LocksHeld, Holds, Locked
  <1>10. ASSUME NEW u \in Threads PROVE InHand(u)'
    <2>1. CASE u = t
      BY <2>1, <1>8 DEF InHand
    <2>2. CASE u # t
      <3>1. InHand(u) /\ th'[u] = th[u]
        BY <2>2, <1>8 DEF PageInv
      <3>2. th[u].pc = "stamp" => th[u].page # s
        BY <3>1, <1>3 DEF InHand, Fresh
      <3>3. QED
        BY <3>1, <3>2, <1>1, <1>5, <1>7 DEF InHand
    <2>3. QED
      BY <2>1, <2>2
  <1>11. ASSUME NEW d \in Columns PROVE HasNewest(d)'
    BY <1>1, <1>8 DEF PageInv, HasNewest
  <1>12. Frozen
    <2>1. epoch \notin 0 .. (epoch - 1)
      BY <1>3
    <2>2. QED
      BY <2>1, <1>3, <1>7 DEF Frozen
  <1>13. QED
    BY <1>1, <1>7, <1>9, <1>10, <1>11, <1>12 DEF PageInv

(* Where nobody races for size_, every step keeps the pages sound and       *)
(* leaves those of published epochs alone.                                  *)
LEMMA PageStep ==
  ASSUME NoRace, MapInv, PageInv, MapInv', [Next]_vars
  PROVE  PageInv' /\ Frozen
  <1>1. ASSUME mem' = mem PROVE Frozen
    BY <1>1 DEF Frozen
  <1>2. CASE UNCHANGED vars
    <2>1. UNCHANGED <<epoch, hist, pubs, size, mem, header, newest, oldest, mutex, th>>
      BY <1>2 DEF vars
    <2>2. \A t : Col(t)' = Col(t)
      BY <2>1 DEF Col, Fam, Column
    <2>3. PageInv'
      BY <2>1, <2>2 DEF PageInv, ThreadsOK, LocksHeld, Holds, PageTypes, InHand, HasNewest
    <2>4. QED
      BY <2>1, <2>3, <1>1
  <1>3. CASE Publish
    BY <1>3, <1>1, PublishPages DEF Publish, pages
  <1>4. ASSUME NEW t \in Threads, Step(t) PROVE PageInv' /\ Frozen
    <2>1. CASE Find(t)
      BY <2>1, <1>1, FindPages DEF Find, pages
    <2>2. CASE GetRegion(t)
      BY <2>2, <1>1, GetRegionPages DEF GetRegion, pages
    <2>3. CASE BufferFull(t)
      BY <2>3, <1>1, BufferFullPages DEF BufferFull, pages
    <2>4. CASE NewPage(t)
      BY <2>4, NewPagePages
    <2>5. CASE Stamp(t)
      BY <2>5, StampPages
    <2>6. CASE Write(t)
      BY <2>6, WritePages
    <2>7. QED
      BY <1>4, <2>1, <2>2, <2>3, <2>4, <2>5, <2>6 DEF Step
  <1>5. ASSUME NEW t \in Threads, NEW l \in Labels, NEW row \in Rows, Insert(t, l, row)
        PROVE  PageInv' /\ Frozen
    BY <1>5, <1>1, InsertPages DEF Insert, pages
  <1>6. ASSUME NEW t \in Threads, NEW l \in Labels, NEW row \in Rows,
               NEW v \in 0 .. (MaxVertices - 1), Update(t, l, row, v)
        PROVE  PageInv' /\ Frozen
    BY <1>6, <1>1, UpdatePages DEF Update, pages
  <1>7. ASSUME NEW l \in Labels, NEW row \in Rows, NEW v \in 0 .. (MaxVertices - 1),
               UpdateFaults(l, row, v)
        PROVE  PageInv' /\ Frozen
    BY <1>7, <1>1, UpdateFaultsPages DEF UpdateFaults, pages
  <1>8. QED
    BY <1>2, <1>3, <1>4, <1>5, <1>6, <1>7 DEF Next

(* In the builds without a race the store is well typed: pages lie below    *)
(* size_, point to earlier ones, and every header leads to a page.          *)
THEOREM TypeCorrect == ASSUME NoRace PROVE Spec => []TypeOK
  <1>1. MapInv /\ PageInv => TypeOK
    <2> SUFFICES ASSUME MapInv, PageInv PROVE TypeOK
      OBVIOUS
    <2>1. /\ epoch \in 0 .. MaxEpoch /\ Len(pubs) = epoch /\ size \in 1 .. Capacity
          /\ DOMAIN mem \subseteq 1 .. (Capacity - 1)
      BY VertexStoreAssumption DEF PageInv, PageTypes
    <2>2. \A s \in DOMAIN mem : mem[s].ver \in {Fresh} \cup 0 .. epoch /\ mem[s].prev \in 0 .. (s - 1)
      BY DEF PageInv, PageTypes
    <2>3. \A c \in Columns : {header[c], newest[c], oldest[c]} \subseteq DOMAIN mem \cup {0}
      BY DEF PageInv, PageTypes
    <2>4. \A l \in Labels : vmap[l] \in DOMAIN maps[l] /\ mutex[l] \in Threads \cup {Free}
      BY DEF PageInv, ThreadsOK, MapInv, CurrentMap, IdTypes
    <2>5. QED
      BY <2>1, <2>2, <2>3, <2>4 DEF TypeOK
  <1>2. QED
    BY <1>1, MapInit, MapStep, PageInit, PageStep, PTL DEF Spec

(* Readers look at the pages of published epochs without a lock: where      *)
(* nobody races for size_ in get_region, no step ever writes one again.     *)
THEOREM PagesFrozen == ASSUME NoRace PROVE Spec => PublishedPagesFrozen
  <1>1. MapInv /\ PageInv /\ MapInv' /\ [Next]_vars =>
          [\A s \in DOMAIN mem : mem[s].ver \in 0 .. (epoch - 1) => mem'[s] = mem[s]]_vars
    BY PageStep DEF Frozen
  <1>2. QED
    BY <1>1, MapInit, MapStep, PageInit, PageStep, PTL DEF Spec, PublishedPagesFrozen

-----------------------------------------------------------------------------
(* The chains of pages. *)

(* An empty buffer has no chains. *)
LEMMA OwnInit == Init => OwnInv
  <1> SUFFICES ASSUME Init PROVE OwnInv
    OBVIOUS
  <1>1. PICK own : own \in [DOMAIN mem -> Columns]
    <2>1. DOMAIN mem = {}
      BY DEF Init
    <2>2. [s \in {} |-> s] \in [DOMAIN mem -> Columns]
      BY <2>1
    <2>3. QED
      BY <2>2
  <1>2. Owned(own)
    BY DEF Init, Owned, Idle
  <1>3. QED
    BY <1>1, <1>2 DEF Init, OwnInv, Making, Idle

(* A thread that makes a page went on with it, or has just begun. *)
StillMaking(t) ==
  \/ th'[t].pc = "region" /\ IsOld(Col(t))' /\ Col(t)' \in Columns
  \/ /\ th[t].pc \in Locked /\ Col(t)' = Col(t) /\ Col(t) \in Columns
     /\ th'[t].pc = "stamp" <=> th[t].pc = "stamp"
     /\ th'[t].pc = "stamp" => th'[t].page = th[t].page

(* Steps that make no page and stamp none: at most a thread begins to make  *)
(* one for a column whose newest page is older than the epoch.              *)
LEMMA OwnKept ==
  ASSUME OwnInv, PageInv, UNCHANGED <<header, newest, oldest>>,
         DOMAIN mem' = DOMAIN mem, epoch' >= epoch, epoch' \in Nat,
         \A s \in DOMAIN mem : mem'[s].ver = mem[s].ver /\ mem'[s].prev = mem[s].prev,
         \A t \in Threads : th'[t].pc \in Locked => StillMaking(t)
  PROVE  OwnInv'
  <1>1. PICK own \in [DOMAIN mem -> Columns] : Owned(own)
    BY DEF OwnInv
  <1>2. Owned(own)'
    <2>1. \A c \in Columns : \A s \in {header'[c], newest'[c], oldest'[c]} :
            s # 0 => s \in DOMAIN mem' /\ own[s] = c
      BY <1>1 DEF Owned
    <2>2. \A t \in Threads : th'[t].pc = "stamp" => own[th'[t].page] = Col(t)'
      BY <1>1 DEF Owned, Locked, StillMaking
    <2>3. ASSUME NEW s \in DOMAIN mem', mem'[s].prev # 0
          PROVE  /\ mem'[s].prev \in DOMAIN mem'
                 /\ own[mem'[s].prev] = own[s]
                 /\ mem'[mem'[s].prev].ver < mem'[s].ver
      BY <2>3, <1>1 DEF Owned
    <2>4. QED
      BY <2>1, <2>2, <2>3 DEF Owned
  <1>3. \A c \in Columns : IsOld(c) => IsOld(c)'
    <2>1. \A s \in DOMAIN mem : mem[s].ver \in Int /\ epoch \in Int
      BY VertexStoreAssumption DEF PageInv, PageTypes, Fresh
    <2>2. QED
      BY <2>1 DEF IsOld
  <1>4. ASSUME NEW t \in Threads PROVE Making(t)'
    <2>1. ASSUME th'[t].pc \in {"region", "page"} PROVE IsOld(Col(t))'
      <3>1. CASE Col(t)' = Col(t) /\ Col(t) \in Columns /\ IsOld(Col(t))
        BY <3>1, <1>3 DEF IsOld
      <3>2. QED
        BY <3>1, <2>1 DEF OwnInv, Making, Locked, StillMaking
    <2>2. ASSUME th'[t].pc = "stamp"
          PROVE  /\ oldest'[Col(t)'] # 0
                 /\ \A s \in DOMAIN mem' : mem'[s].prev # th'[t].page
      BY <2>2 DEF OwnInv, Making, Locked, StillMaking
    <2>3. QED
      BY <2>1, <2>2 DEF Making
  <1>5. \A c \in Columns : oldest'[c] = 0 => newest'[c] = 0
    BY DEF OwnInv
  <1>6. QED
    BY <1>1, <1>2, <1>4, <1>5 DEF OwnInv

(* The steps of the lemma before: logs that begin, publication, a thread    *)
(* that looks for a page, gets a region, writes a row, or dies.             *)
LEMMA OwnKeptStep ==
  ASSUME OwnInv, PageInv, PageInv',
         \/ Publish
         \/ \E t \in Threads :
              \/ Find(t) \/ GetRegion(t) \/ BufferFull(t) \/ Write(t)
              \/ \E l \in Labels, row \in Rows :
                   \/ Insert(t, l, row)
                   \/ \E v \in 0 .. (MaxVertices - 1) : Update(t, l, row, v)
         \/ \E l \in Labels, row \in Rows, v \in 0 .. (MaxVertices - 1) :
              UpdateFaults(l, row, v)
  PROVE  OwnInv'
  <1>1. epoch \in Nat /\ epoch' \in Nat /\ mem = [s \in DOMAIN mem |-> mem[s]]
    BY VertexStoreAssumption DEF PageInv, PageTypes
  <1>2. th = [t \in Threads |-> th[t]] /\ \A t \in Threads : th[t].pc \in Locked => Busy(th[t])
    BY DEF PageInv, ThreadsOK, Idle, Dead, Locked
  <1>3. ASSUME NEW t \in Threads, \A u \in Threads : u # t => th'[u] = th[u],
               th'[t].pc \notin Locked,
               UNCHANGED <<epoch, header, newest, oldest>>, DOMAIN mem' = DOMAIN mem,
               \A s \in DOMAIN mem : mem'[s].ver = mem[s].ver /\ mem'[s].prev = mem[s].prev
        PROVE  OwnInv'
    <2>1. \A u \in Threads : u # t => Col(u)' = Col(u)
      BY <1>3 DEF Col, Fam, Column
    <2>2. \A u \in Threads : th'[u].pc \in Locked =>
            th[u].pc \in Locked /\ Col(u)' = Col(u) /\ Col(u) \in Columns /\ th'[u] = th[u]
      BY <2>1, <1>2, <1>3, ColumnOf
    <2>3. QED
      BY <2>2, <1>1, <1>3, OwnKept DEF StillMaking
  <1>4. CASE Publish
    <2>1. UNCHANGED <<header, newest, oldest, mem, th>> /\ epoch' = epoch + 1
      BY <1>4 DEF Publish, pages
    <2>2. \A u \in Threads : th'[u].pc \notin Locked
      BY <1>4, <2>1 DEF Publish, Alone, Locked
    <2>3. QED
      BY <2>1, <2>2, <1>1, OwnKept
  <1>5. ASSUME NEW t \in Threads, Find(t) PROVE OwnInv'
    <2>1. UNCHANGED <<epoch, header, newest, oldest, mem>> /\ th[t].pc = "find"
          /\ mutex[th[t].label] = Free
      BY <1>5 DEF Find, pages
    <2>2. Busy(th[t])
      BY <2>1 DEF PageInv, ThreadsOK, Idle, Dead
    <2>3. Col(t) \in Columns
      BY <2>2, ColumnOf
    <2>4. \A u \in Threads : u # t => th'[u] = th[u]
      BY <1>5, <1>2 DEF Find, Goto
    <2>5. CASE oldest[Col(t)] # 0 /\ mem[newest[Col(t)]].ver = epoch
      <3>1. th'[t].pc = "write"
        <4>1. th' = [th EXCEPT ![t].pc = "write", ![t].page = newest[Col(t)]]
          BY <1>5, <2>5 DEF Find
        <4>2. QED
          BY <4>1, <2>2, <1>2 DEF Busy
      <3>2. QED
        BY <3>1, <2>1, <2>4, <1>3 DEF Locked
    <2>6. CASE ~(oldest[Col(t)] # 0 /\ mem[newest[Col(t)]].ver = epoch)
      <3>1. th' = [th EXCEPT ![t].pc = "region"]
        BY <1>5, <2>6 DEF Find, Goto
      <3>2. th'[t].pc = "region" /\ th'[t].label = th[t].label
            /\ th'[t].todo = th[t].todo /\ th'[t].vertex = th[t].vertex
        BY <3>1, <2>2, <1>2 DEF Busy
      <3>3. \A u \in Threads : Col(u)' = Col(u)
        BY <3>2, <2>4 DEF Col, Fam, Column
      <3>4. IsOld(Col(t))
        <4>1. SUFFICES ASSUME oldest[Col(t)] # 0
                       PROVE  newest[Col(t)] \in DOMAIN mem /\ mem[newest[Col(t)]].ver < epoch
          BY DEF IsOld
        <4>2. newest[Col(t)] \in DOMAIN mem
          BY <4>1, <2>1, <2>2, FindNewest
        <4>3. mem[newest[Col(t)]].ver \in {Fresh} \cup 0 .. epoch
          BY <4>2 DEF PageInv, PageTypes
        <4>4. QED
          BY <4>1, <4>2, <4>3, <2>6, <1>1 DEF Fresh
      <3>5. IsOld(Col(t))'
        BY <3>3, <3>4, <2>1 DEF IsOld
      <3>6. \A u \in Threads : th'[u].pc \in Locked => StillMaking(u)
        <4>1. TAKE u \in Threads
        <4>2. CASE u = t
          BY <4>2, <3>2, <3>3, <3>5, <2>3 DEF StillMaking
        <4>3. CASE u # t
          BY <4>3, <2>4, <3>3, <1>2, ColumnOf DEF StillMaking
        <4>4. QED
          BY <4>2, <4>3
      <3>7. /\ DOMAIN mem' = DOMAIN mem /\ epoch' >= epoch
            /\ \A s \in DOMAIN mem : mem'[s].ver = mem[s].ver /\ mem'[s].prev = mem[s].prev
        BY <2>1, <1>1
      <3>8. QED
        BY <3>6, <3>7, <2>1, <1>1, OwnKept
    <2>7. QED
      BY <2>5, <2>6
  <1>6. ASSUME NEW t \in Threads, GetRegion(t) PROVE OwnInv'
    <2>1. UNCHANGED <<epoch, header, newest, oldest, mem>> /\ th[t].pc = "region"
          /\ th' = [th EXCEPT ![t].pc = "page", ![t].page = size]
      BY <1>6 DEF GetRegion, pages
    <2>2. /\ th'[t].pc = "page" /\ th'[t].label = th[t].label
          /\ th'[t].todo = th[t].todo /\ th'[t].vertex = th[t].vertex
          /\ \A u \in Threads : u # t => th'[u] = th[u]
      BY <2>1, <1>2 DEF Busy, Locked
    <2>3. \A u \in Threads : Col(u)' = Col(u)
      BY <2>2 DEF Col, Fam, Column
    <2>4. \A u \in Threads : th'[u].pc \in Locked => StillMaking(u)
      BY <2>1, <2>2, <2>3, <1>2, ColumnOf DEF Locked, StillMaking
    <2>5. /\ DOMAIN mem' = DOMAIN mem /\ epoch' >= epoch
          /\ \A s \in DOMAIN mem : mem'[s].ver = mem[s].ver /\ mem'[s].prev = mem[s].prev
      BY <2>1, <1>1
    <2>6. QED
      BY <2>1, <2>4, <2>5, <1>1, OwnKept
  <1>a. ASSUME th' = Gone, UNCHANGED <<epoch, header, newest, oldest, mem>> PROVE OwnInv'
    <2>1. ASSUME NEW u \in Threads PROVE th'[u].pc \notin Locked
      <3>1. th[u] = Idle \/ Dead(th[u]) \/ Busy(th[u])
        BY DEF PageInv, ThreadsOK
      <3>2. "pc" \in DOMAIN th[u]
        BY <3>1 DEF Idle, Dead, Busy
      <3>3. QED
        BY <3>2, <1>a DEF Locked, Gone
    <2>2. QED
      BY <2>1, <1>1, <1>a, OwnKept
  <1>7. ASSUME NEW t \in Threads, BufferFull(t) PROVE OwnInv'
    BY <1>7, <1>a DEF BufferFull, pages
  <1>8. ASSUME NEW t \in Threads, Write(t) PROVE OwnInv'
    <2>1. /\ UNCHANGED <<epoch, header, newest, oldest>> /\ th[t].pc = "write"
          /\ mem' = [mem EXCEPT ![th[t].page].rows[th[t].vertex % PageSize] =
                       [p \in PropsOf(Fam(t)) |-> th[t].cells[p]]]
          /\ th' = [th EXCEPT ![t] =
              IF th[t].todo = {Fam(t)} THEN Idle
              ELSE [th[t] EXCEPT !.pc = "find", !.todo = th[t].todo \ {Fam(t)}]]
      BY <1>8 DEF Write, PageToWrite
    <2>2. Busy(th[t])
      BY <2>1 DEF PageInv, ThreadsOK, Idle, Dead
    <2>3. th'[t].pc \notin Locked /\ \A u \in Threads : u # t => th'[u] = th[u]
      BY <2>1, <2>2, <1>2 DEF Idle, Busy, Locked
    <2>4. DOMAIN mem' = DOMAIN mem
          /\ \A s \in DOMAIN mem : mem'[s].ver = mem[s].ver /\ mem'[s].prev = mem[s].prev
      <3>1. \A s \in DOMAIN mem :
              mem[s] \in [ver : {Fresh} \cup 0 .. epoch, prev : 0 .. (s - 1), rows : {mem[s].rows}]
        BY DEF PageInv, PageTypes
      <3> DEFINE rows == [mem[th[t].page].rows EXCEPT ![th[t].vertex % PageSize] =
                            [p \in PropsOf(Fam(t)) |-> th[t].cells[p]]]
      <3>2. mem' = [mem EXCEPT ![th[t].page] = [mem[th[t].page] EXCEPT !.rows = rows]]
        BY <2>1
      <3> HIDE DEF rows
      <3>3. QED
        BY <3>1, <3>2, <1>1
    <2>5. QED
      BY <2>1, <2>3, <2>4, <1>3
  <1>9. ASSUME NEW t \in Threads, NEW l \in Labels, NEW row \in Rows, Insert(t, l, row)
        PROVE  OwnInv'
    <2>1. UNCHANGED <<epoch, header, newest, oldest, mem>>
      BY <1>9 DEF Insert, pages
    <2>a. CASE th' = Gone
      BY <2>1, <2>a, <1>a
    <2>b. SUFFICES ASSUME th' # Gone PROVE OwnInv'
      BY <2>a
    <2>2. PICK cells : th' = Work(t, "insert", l, Len(hist[l]) + 1 - 1, cells, Families)
      BY <2>b, <1>9, InsertWork
    <2>3. th'[t].pc = "find" /\ \A u \in Threads : u # t => th'[u] = th[u]
      BY <2>2, <1>2 DEF Work
    <2>4. QED
      BY <2>1, <2>3, <1>3 DEF Locked
  <1>10. ASSUME NEW t \in Threads, NEW l \in Labels, NEW row \in Rows,
                NEW v \in 0 .. (MaxVertices - 1), Update(t, l, row, v)
         PROVE  OwnInv'
    <2>1. UNCHANGED <<epoch, header, newest, oldest, mem>> /\ th[t].pc = "idle"
      BY <1>10 DEF Update, pages, Alone
    <2>2. PICK cells, fams : th' = th \/ th' = Work(t, "update", l, v, cells, fams)
      BY <1>10 DEF Update
    <2>3. th'[t].pc \in {"idle", "find"} /\ \A u \in Threads : u # t => th'[u] = th[u]
      BY <2>1, <2>2, <1>2 DEF Work
    <2>4. QED
      BY <2>1, <2>3, <1>3 DEF Locked
  <1>11. ASSUME NEW l \in Labels, NEW row \in Rows, NEW v \in 0 .. (MaxVertices - 1),
                UpdateFaults(l, row, v)
         PROVE  OwnInv'
    BY <1>11, <1>a DEF UpdateFaults, pages
  <1>12. QED
    BY <1>4, <1>5, <1>6, <1>7, <1>8, <1>9, <1>10, <1>11

(* NewPage: the page is its column's, and newer than the one before it.     *)
LEMMA OwnNewPage ==
  ASSUME OwnInv, PageInv, PageInv', NoRace, NEW t \in Threads, NewPage(t)
  PROVE  OwnInv'
  <1> DEFINE s == th[t].page
             c == Col(t)
             page == [ver |-> IF oldest[c] = 0 THEN Fresh ELSE epoch,
                      prev |-> newest[c],
                      rows |-> IF oldest[c] = 0 THEN Blank(Fam(t))
                               ELSE mem[newest[c]].rows]
  <1>1. Busy(th[t]) /\ th[t].pc = "page" /\ epoch' = epoch
        /\ th = [u \in Threads |-> th[u]]
    BY DEF NewPage, PageInv, ThreadsOK, Idle, Dead
  <1>2. c \in Columns
    BY <1>1, ColumnOf
  <1>3. s = size /\ s \notin DOMAIN mem /\ s # 0 /\ 0 \notin DOMAIN mem
    BY <1>1, VertexStoreAssumption DEF PageInv, InHand, PageTypes
  <1>4. /\ header' = [header EXCEPT ![c] = s] /\ PutPage(s, page)
        /\ {header, newest, oldest} \subseteq [Columns -> DOMAIN mem \cup {0}]
    BY DEF NewPage, PageInv, PageTypes
  <1>5. page.prev = newest[c] /\ page.ver = IF oldest[c] = 0 THEN Fresh ELSE epoch
    OBVIOUS
  <1> HIDE DEF page
  <1>6. /\ DOMAIN mem' = DOMAIN mem \cup {s} /\ mem'[s] = page
        /\ \A x \in DOMAIN mem : mem'[x] = mem[x]
    <2> HIDE DEF s
    <2>1. QED
      BY <1>3, <1>4, PutPageFacts
  <1>7. PICK own \in [DOMAIN mem -> Columns] : Owned(own)
    BY DEF OwnInv
  <1>8. PICK new \in [DOMAIN mem' -> Columns] :
          new[s] = c /\ \A x \in DOMAIN mem : new[x] = own[x]
    <2> DEFINE n == [x \in DOMAIN mem' |-> IF x = s THEN c ELSE own[x]]
    <2>1. n \in [DOMAIN mem' -> Columns] /\ n[s] = c /\ \A x \in DOMAIN mem : n[x] = own[x]
      BY <1>2, <1>3, <1>6, <1>7
    <2>2. QED
      BY <2>1
  <1>9. new[s] = c /\ \A x \in DOMAIN mem : new[x] = own[x]
    BY <1>8
  <1>10. \A u \in Threads : u # t => th[u].pc \notin Locked
    BY <1>1, OneMaker DEF PageInv, Locked
  <1>11. \A u \in Threads : u # t => th'[u] = th[u]
    BY <1>1 DEF NewPage, Goto
  <1>12. IsOld(c)
    BY <1>1 DEF OwnInv, Making
  <1>13. ASSUME NEW x \in DOMAIN mem', mem'[x].prev # 0
         PROVE  /\ mem'[x].prev \in DOMAIN mem
                /\ new[mem'[x].prev] = new[x]
                /\ mem'[mem'[x].prev].ver < mem'[x].ver
    <2>1. CASE x \in DOMAIN mem
      BY <2>1, <1>6, <1>7, <1>9, <1>13 DEF Owned
    <2>2. CASE x = s
      <3>1. newest[c] # 0
        BY <2>2, <1>5, <1>6, <1>13
      <3>2. oldest[c] # 0
        BY <3>1, <1>2 DEF OwnInv
      <3>3. newest[c] \in DOMAIN mem /\ mem[newest[c]].ver < epoch
        BY <3>2, <1>12 DEF IsOld
      <3>4. own[newest[c]] = c
        BY <3>1, <1>2, <1>7 DEF Owned
      <3> HIDE DEF c, s
      <3>5. QED
        BY <3>2, <3>3, <3>4, <2>2, <1>5, <1>6, <1>9
    <2>3. QED
      BY <2>1, <2>2, <1>6
  <1>14. ASSUME \A d \in Columns : newest'[d] # newest[d] => newest'[d] = s /\ d = c,
                \A d \in Columns : oldest'[d] # oldest[d] => oldest'[d] = s /\ d = c,
                th'[t].pc \in {"stamp", "write"},
                th'[t].pc = "stamp" => /\ Col(t)' = c /\ th'[t].page = s
                                       /\ oldest'[c] # 0
         PROVE  Owned(new)' /\ \A u \in Threads : Making(u)'
    <2>1. ASSUME NEW d \in Columns, NEW x \in {header'[d], newest'[d], oldest'[d]}, x # 0
          PROVE  x \in DOMAIN mem' /\ new[x] = d
      <3>1. CASE x \in {header[d], newest[d], oldest[d]}
        <4>1. x \in DOMAIN mem /\ own[x] = d
          BY <3>1, <2>1, <1>7 DEF Owned
        <4>2. QED
          BY <4>1, <1>6, <1>9
      <3>2. CASE x = s /\ d = c
        BY <3>2, <1>6, <1>9
      <3>3. header'[d] = header[d] \/ (header'[d] = s /\ d = c)
        BY <1>2, <1>4
      <3>4. QED
        BY <3>1, <3>2, <3>3, <2>1, <1>14
    <2>2. \A u \in Threads : th'[u].pc = "stamp" => new[th'[u].page] = Col(u)'
      BY <1>9, <1>10, <1>11, <1>14 DEF Locked
    <2>3. Owned(new)'
      BY <2>1, <2>2, <1>6, <1>13 DEF Owned
    <2>4. ASSUME NEW u \in Threads PROVE Making(u)'
      <3>1. CASE u # t
        BY <3>1, <1>10, <1>11 DEF Making, Locked
      <3>2. CASE u = t /\ th'[t].pc = "stamp"
        <4>1. \A x \in DOMAIN mem' : mem'[x].prev # s
          BY <1>3, <1>13
        <4>2. QED
          BY <3>2, <4>1, <1>14 DEF Making
      <3>3. QED
        BY <3>1, <3>2, <1>14 DEF Making
    <2>5. QED
      BY <2>3, <2>4
  <1>15. CASE oldest[c] = 0
    <2>1. /\ oldest' = [oldest EXCEPT ![c] = s] /\ newest' = newest
          /\ th' = [th EXCEPT ![t].pc = "stamp"]
      BY <1>15 DEF NewPage, Goto
    <2>2. /\ th'[t].pc = "stamp" /\ th'[t].page = s /\ th'[t].label = th[t].label
          /\ th'[t].vertex = th[t].vertex /\ th'[t].todo = th[t].todo
      BY <2>1, <1>1 DEF Busy
    <2>3. Col(t)' = c
      BY <2>2 DEF Col, Fam, Column
    <2>4. oldest'[c] = s /\ \A d \in Columns : d # c => oldest'[d] = oldest[d]
      BY <2>1, <1>2, <1>4
    <2> HIDE DEF s, c
    <2>5. Owned(new)' /\ \A u \in Threads : Making(u)'
      BY <2>1, <2>2, <2>3, <2>4, <1>3, <1>14
    <2>6. \A d \in Columns : oldest'[d] = 0 => newest'[d] = 0
      BY <2>1, <2>4, <1>3 DEF OwnInv
    <2>7. QED
      BY <2>5, <2>6, <1>8 DEF OwnInv
  <1>16. CASE oldest[c] # 0
    <2>1. /\ newest' = [newest EXCEPT ![c] = s] /\ oldest' = oldest
          /\ th' = [th EXCEPT ![t].pc = "write"]
      BY <1>16 DEF NewPage, Goto
    <2>2. th'[t].pc = "write"
      BY <2>1, <1>1 DEF Busy
    <2>3. newest'[c] = s /\ \A d \in Columns : d # c => newest'[d] = newest[d]
      BY <2>1, <1>2, <1>4
    <2> HIDE DEF s, c
    <2>4. Owned(new)' /\ \A u \in Threads : Making(u)'
      BY <2>1, <2>2, <2>3, <1>14
    <2>5. \A d \in Columns : oldest'[d] = 0 => newest'[d] = 0
      BY <2>1, <2>3, <1>16 DEF OwnInv
    <2>6. QED
      BY <2>4, <2>5, <1>8 DEF OwnInv
  <1>17. QED
    BY <1>15, <1>16

(* Stamp: no page lies above the one that gets its version. *)
LEMMA OwnStamp ==
  ASSUME OwnInv, PageInv, PageInv', NoRace, NEW t \in Threads, Stamp(t)
  PROVE  OwnInv'
  <1> DEFINE s == th[t].page
             c == Col(t)
  <1>1. /\ Busy(th[t]) /\ th[t].pc = "stamp" /\ th = [u \in Threads |-> th[u]]
        /\ UNCHANGED <<epoch, header, oldest>>
        /\ mem' = [mem EXCEPT ![s].ver = epoch] /\ newest' = [newest EXCEPT ![c] = s]
        /\ th' = [th EXCEPT ![t].pc = "write"]
    BY DEF Stamp, Goto, PageInv, ThreadsOK, Idle, Dead
  <1>2. c \in Columns
    BY <1>1, ColumnOf
  <1>3. /\ s \in DOMAIN mem /\ mem[s].ver = Fresh /\ epoch \in Nat /\ 0 \notin DOMAIN mem
        /\ \A x \in DOMAIN mem : /\ mem[x].ver \in {Fresh} \cup Nat /\ mem[x].prev # x
                                 /\ "ver" \in DOMAIN mem[x] /\ "prev" \in DOMAIN mem[x]
        /\ mem = [x \in DOMAIN mem |-> mem[x]]
        /\ newest \in [Columns -> DOMAIN mem \cup {0}]
    <2>1. PageTypes /\ InHand(t)
      BY DEF PageInv
    <2>2. s \in DOMAIN mem /\ mem[s].ver = Fresh /\ epoch \in Nat /\ 0 \notin DOMAIN mem
      BY <2>1, <1>1, VertexStoreAssumption DEF InHand, PageTypes
    <2>3. ASSUME NEW x \in DOMAIN mem
          PROVE  /\ mem[x].ver \in {Fresh} \cup Nat /\ mem[x].prev # x
                 /\ "ver" \in DOMAIN mem[x] /\ "prev" \in DOMAIN mem[x]
      <3>1. mem[x] \in [ver : {Fresh} \cup 0 .. epoch, prev : 0 .. (x - 1), rows : {mem[x].rows}]
        BY <2>1 DEF PageTypes
      <3>2. x \in Nat
        BY <2>1 DEF PageTypes
      <3>3. QED
        BY <3>1, <3>2
    <2>4. QED
      BY <2>1, <2>2, <2>3 DEF PageTypes
  <1>4. PICK own \in [DOMAIN mem -> Columns] : Owned(own)
    BY DEF OwnInv
  <1>5. own[s] = c /\ oldest[c] # 0 /\ \A x \in DOMAIN mem : mem[x].prev # s
    BY <1>1, <1>4 DEF OwnInv, Owned, Making
  <1>6. \A u \in Threads : u # t => th[u].pc \notin Locked
    BY <1>1, OneMaker DEF PageInv, Locked
  <1>7. th'[t].pc = "write" /\ \A u \in Threads : u # t => th'[u] = th[u]
    BY <1>1 DEF Busy
  <1>8. /\ DOMAIN mem' = DOMAIN mem /\ mem'[s].ver = epoch
        /\ \A x \in DOMAIN mem : mem'[x].prev = mem[x].prev
        /\ \A x \in DOMAIN mem : x # s => mem'[x].ver = mem[x].ver
    BY <1>1, <1>3
  <1>9. newest'[c] = s /\ \A d \in Columns : d # c => newest'[d] = newest[d]
    BY <1>1, <1>2, <1>3
  <1> HIDE DEF s, c
  <1>10. ASSUME NEW x \in DOMAIN mem', mem'[x].prev # 0
         PROVE  /\ mem'[x].prev \in DOMAIN mem'
                /\ own[mem'[x].prev] = own[x]
                /\ mem'[mem'[x].prev].ver < mem'[x].ver
    <2>1. /\ mem[x].prev \in DOMAIN mem /\ own[mem[x].prev] = own[x]
          /\ mem[mem[x].prev].ver < mem[x].ver
      BY <1>4, <1>8, <1>10 DEF Owned
    <2>2. mem[x].prev # s
      BY <1>5, <1>8
    <2>3. x # s
      BY <2>1, <1>3 DEF Fresh
    <2>4. QED
      BY <2>1, <2>2, <2>3, <1>8
  <1>11. ASSUME NEW d \in Columns, NEW x \in {header'[d], newest'[d], oldest'[d]}, x # 0
         PROVE  x \in DOMAIN mem' /\ own[x] = d
    <2>1. CASE x \in {header[d], newest[d], oldest[d]}
      BY <2>1, <1>4, <1>8, <1>11 DEF Owned
    <2>2. CASE x = s /\ d = c
      BY <2>2, <1>3, <1>5, <1>8
    <2>3. QED
      BY <2>1, <2>2, <1>1, <1>9, <1>11
  <1>12. \A u \in Threads : th'[u].pc \notin Locked
    BY <1>6, <1>7 DEF Locked
  <1>13. Owned(own)'
    BY <1>10, <1>11, <1>12 DEF Owned, Locked
  <1>14. \A u \in Threads : Making(u)'
    BY <1>12 DEF Making, Locked
  <1>15. \A d \in Columns : oldest'[d] = 0 => newest'[d] = 0
    BY <1>1, <1>5, <1>9 DEF OwnInv
  <1>16. QED
    BY <1>4, <1>8, <1>13, <1>14, <1>15 DEF OwnInv

LEMMA OwnStep ==
  ASSUME NoRace, MapInv, PageInv, OwnInv, PageInv', [Next]_vars
  PROVE  OwnInv'
  <1>1. CASE UNCHANGED vars
    <2>1. UNCHANGED <<epoch, size, mem, header, newest, oldest, th>>
      BY <1>1 DEF vars
    <2>2. \A t : Col(t)' = Col(t)
      BY <2>1 DEF Col, Fam, Column
    <2>3. \A c \in Columns : IsOld(c)' = IsOld(c)
      BY <2>1 DEF IsOld
    <2>4. \A t \in Threads : Making(t)' = Making(t)
      BY <2>1, <2>2 DEF Making, IsOld
    <2>5. \A own : Owned(own) => Owned(own)'
      BY <2>1, <2>2 DEF Owned
    <2>6. QED
      BY <2>1, <2>4, <2>5 DEF OwnInv
  <1>2. ASSUME NEW t \in Threads, NewPage(t) \/ Stamp(t) PROVE OwnInv'
    BY <1>2, OwnNewPage, OwnStamp
  <1>3. CASE \/ Publish
             \/ \E t \in Threads :
                  \/ Find(t) \/ GetRegion(t) \/ BufferFull(t) \/ Write(t)
                  \/ \E l \in Labels, row \in Rows :
                       \/ Insert(t, l, row)
                       \/ \E v \in 0 .. (MaxVertices - 1) : Update(t, l, row, v)
             \/ \E l \in Labels, row \in Rows, v \in 0 .. (MaxVertices - 1) :
                  UpdateFaults(l, row, v)
    BY <1>3, OwnKeptStep
  <1>4. QED
    BY <1>1, <1>2, <1>3 DEF Next, Step

(* The walk along the pages is a function: predecessors lie before.         *)
LEMMA WalkExists ==
  ASSUME PageTypes, \A s \in DOMAIN mem : mem[s].prev \in DOMAIN mem \cup {0}
  PROVE  \E w : w = [s \in DOMAIN mem \cup {0} |->
                       IF s = 0 THEN {} ELSE {s} \cup w[mem[s].prev]]
  <1> DEFINE Upto(n) == (DOMAIN mem \cup {0}) \cap (0 .. n)
             Good(n) == \E w : w = [s \in Upto(n) |->
                                      IF s = 0 THEN {} ELSE {s} \cup w[mem[s].prev]]
             Bad == {n \in Nat : ~Good(n)}
  <1>1. \A s \in DOMAIN mem : s \in Nat \ {0} /\ mem[s].prev \in 0 .. (s - 1)
    BY DEF PageTypes
  <1>2. Good(0)
    <2> DEFINE w == [s \in Upto(0) |-> {}]
    <2>1. w = [s \in Upto(0) |-> IF s = 0 THEN {} ELSE {s} \cup w[mem[s].prev]]
      OBVIOUS
    <2>2. QED
      BY <2>1
  <1>3. ASSUME NEW n \in Nat, Good(n) PROVE Good(n + 1)
    <2>1. PICK w : w = [s \in Upto(n) |-> IF s = 0 THEN {} ELSE {s} \cup w[mem[s].prev]]
      BY <1>3
    <2> DEFINE v == [s \in Upto(n + 1) |->
                       IF s = n + 1 THEN {s} \cup w[mem[s].prev] ELSE w[s]]
    <2>2. ASSUME NEW s \in Upto(n + 1)
          PROVE  v[s] = IF s = 0 THEN {} ELSE {s} \cup v[mem[s].prev]
      <3>1. CASE s = 0
        BY <3>1, <2>1
      <3>2. CASE s # 0
        <4>1. mem[s].prev \in Upto(n) /\ mem[s].prev \in Upto(n + 1) /\ mem[s].prev # n + 1
          BY <3>2, <1>1
        <4>2. v[mem[s].prev] = w[mem[s].prev]
          BY <4>1
        <4>3. s # n + 1 => s \in Upto(n)
          BY <3>2, <1>1
        <4>4. s # n + 1 => w[s] = {s} \cup w[mem[s].prev]
          BY <4>3, <3>2, <2>1
        <4>5. QED
          BY <4>2, <4>4, <3>2
      <3>3. QED
        BY <3>1, <3>2
    <2>3. v = [s \in Upto(n + 1) |-> IF s = 0 THEN {} ELSE {s} \cup v[mem[s].prev]]
      <3>1. v = [s \in Upto(n + 1) |-> v[s]]
        OBVIOUS
      <3> HIDE DEF v, Upto
      <3>2. QED
        BY <2>2, <3>1
    <2>4. QED
      BY <2>3
  <1> HIDE DEF Good
  <1>4. Bad = {}
    <2>1. SUFFICES ASSUME Bad # {} PROVE FALSE
      OBVIOUS
    <2>2. PICK n \in Bad : \A m \in Bad : n <= m
      BY <2>1, LeastNumber
    <2>3. n - 1 \in Nat /\ Good(n - 1)
      BY <2>2, <1>2
    <2>4. Good(n - 1 + 1)
      BY <2>3, <1>3
    <2>5. QED
      BY <2>2, <2>4
  <1>5. Good(size)
    BY <1>4, VertexStoreAssumption DEF PageTypes
  <1>6. Upto(size) = DOMAIN mem \cup {0}
    BY <1>1 DEF PageTypes
  <1>7. QED
    BY <1>5, <1>6 DEF Good

(* The chain of a column is made of its own pages. *)
LEMMA ChainOwned ==
  ASSUME PageTypes, NEW own \in [DOMAIN mem -> Columns], Owned(own), NEW c \in Columns
  PROVE  \A s \in Chain(c) : s \in DOMAIN mem /\ own[s] = c
  <1> DEFINE w == CHOOSE w : w = [s \in DOMAIN mem \cup {0} |->
                                    IF s = 0 THEN {} ELSE {s} \cup w[mem[s].prev]]
             Mine(s) == s = 0 \/ \A x \in w[s] : x \in DOMAIN mem /\ own[x] = own[s]
             Bad == {s \in DOMAIN mem : ~Mine(s)}
  <1>1. w = [s \in DOMAIN mem \cup {0} |-> IF s = 0 THEN {} ELSE {s} \cup w[mem[s].prev]]
    BY WalkExists DEF Owned
  <1>2. Chain(c) = w[header[c]]
    BY DEF Chain
  <1>3. w[0] = {} /\ \A s \in DOMAIN mem : s # 0 /\ w[s] = {s} \cup w[mem[s].prev]
    <2> HIDE DEF w
    <2>1. \A s \in DOMAIN mem : s # 0
      BY DEF PageTypes
    <2>2. QED
      BY <1>1, <2>1
  <1> HIDE DEF w
  <1>4. Bad = {}
    <2>1. SUFFICES ASSUME Bad # {} PROVE FALSE
      OBVIOUS
    <2>2. Bad \subseteq Nat
      BY DEF PageTypes
    <2>3. PICK s \in Bad : \A x \in Bad : s <= x
      BY <2>1, <2>2, LeastNumber
    <2>4. s \in Nat /\ mem[s].prev \in Nat /\ mem[s].prev < s
      BY <2>3 DEF PageTypes
    <2>5. CASE mem[s].prev = 0
      BY <2>3, <2>5, <1>3
    <2>6. CASE mem[s].prev # 0
      <3>1. mem[s].prev \in DOMAIN mem /\ own[mem[s].prev] = own[s]
        BY <2>3, <2>6 DEF Owned
      <3>2. Mine(mem[s].prev)
        BY <3>1, <2>3, <2>4
      <3>3. QED
        BY <3>1, <3>2, <2>3, <2>6, <1>3
    <2>7. QED
      BY <2>5, <2>6
  <1>5. header[c] \in DOMAIN mem \cup {0} /\ (header[c] # 0 => own[header[c]] = c)
    BY DEF Owned, PageTypes
  <1>6. QED
    BY <1>2, <1>3, <1>4, <1>5

(* No two columns share a page, and along a column's pages versions fall:   *)
(* where nobody races for size_ in get_region, for any number of columns.   *)
THEOREM PagesOwned == ASSUME NoRace PROVE Spec => []OwnPages
  <1>1. PageInv /\ OwnInv => OwnPages
    <2> SUFFICES ASSUME PageInv, OwnInv PROVE OwnPages
      OBVIOUS
    <2>1. PICK own \in [DOMAIN mem -> Columns] : Owned(own)
      BY DEF OwnInv
    <2>2. \A c \in Columns : \A s \in Chain(c) : s \in DOMAIN mem /\ own[s] = c
      BY <2>1, ChainOwned DEF PageInv
    <2>3. \A c, d \in Columns : c # d => Chain(c) \cap Chain(d) = {}
      BY <2>2
    <2>4. \A c \in Columns : \A s \in Chain(c) :
            mem[s].prev # 0 => mem[mem[s].prev].ver < mem[s].ver
      BY <2>1, <2>2 DEF Owned
    <2>5. QED
      BY <2>3, <2>4 DEF OwnPages
  <1>2. QED
    BY <1>1, MapInit, MapStep, PageInit, PageStep, OwnInit, OwnStep, PTL DEF Spec


-----------------------------------------------------------------------------
(* What readers see.  Cells and rows stand for values, in a string buffer   *)
(* that only grows; a string that found no room is junk for ever.           *)

Names(st, key, x) ==
  \/ key \in DOMAIN st /\ st[key] = x
  \/ key = NoKey /\ x = Junk

Tells(st, c, p, x) ==
  IF c.null THEN x = Empty
  ELSE IF Index(p) = {} THEN c.val = x
  ELSE Names(st, c.val, x)

Shows(st, cells, f, row) == \A p \in PropsOf(f) : Tells(st, cells[p], p, row[p])

(* The last log about a vertex that epoch r has. *)
LastSeen(logs, r, k) ==
  /\ k \in DOMAIN logs /\ logs[k].epoch <= r
  /\ \A j \in DOMAIN logs : j > k => logs[j].epoch > r

(* The reader's walk over pages m: where it ends, by the page it begins at. *)
Walk(m, r) ==
  CHOOSE walk : walk = [s \in DOMAIN m \cup {0} |->
                          IF s = 0 \/ m[s].ver <= r THEN s ELSE walk[m[s].prev]]

CellsAt(s, v) == mem[s].rows[v % PageSize]

LastRow(l, v) == hist[l][v + 1][Len(hist[l][v + 1])].row

(* Every vertex has a log, and none is of a later epoch. *)
Logged ==
  \A l \in Labels :
    /\ Len(hist[l]) <= MaxVertices
    /\ \A v \in DOMAIN hist[l] :
         /\ Len(hist[l][v]) > 0
         /\ \A i \in DOMAIN hist[l][v] : hist[l][v][i].epoch <= epoch

ExtIds ==
  /\ strs \in Seq(Int)
  /\ ext \in [Labels -> Seq(Int)]
  /\ \A l \in Labels :
       /\ Len(ext[l]) = Len(hist[l])
       /\ \A v \in DOMAIN ext[l] :
            IF l \in StringIds THEN Names(strs, ext[l][v], hist[l][v][1].id)
            ELSE ext[l][v] = hist[l][v][1].id

RowsShaped ==
  \A s \in DOMAIN mem : mem[s].rows = [i \in 0 .. PageSize - 1 |-> mem[s].rows[i]]

(* The header leads to the newest page, which has a version.  A first page  *)
(* that is being initialized is not the newest yet; a page that a thread    *)
(* writes a row to is.                                                      *)
Heads ==
  /\ \A c \in Columns :
       newest[c] # 0 => header[c] = newest[c] /\ mem[newest[c]].ver \in Nat
  /\ \A t \in Threads :
       /\ th[t].pc = "stamp" => newest[Col(t)] = 0 /\ header[Col(t)] = th[t].page
       /\ th[t].pc = "write" => th[t].page = newest[Col(t)]

(* A thread has yet to write this family of the vertex. *)
Pending(l, v, f) ==
  \E t \in Threads :
    th[t].pc # "idle" /\ th[t].label = l /\ th[t].vertex = v /\ f \in th[t].todo

(* Family f of a vertex is in the newest page, as of the last log about it. *)
Written(l, v, f) ==
  /\ newest[Column(l, f, v)] # 0
  /\ Shows(strs, CellsAt(newest[Column(l, f, v)], v), f, LastRow(l, v))

Current ==
  \A l \in Labels, f \in Families : \A v \in 0 .. (Len(hist[l]) - 1) :
    Pending(l, v, f) \/ Written(l, v, f)

(* What a thread has yet to write is the last log about its vertex. *)
InWork ==
  \A t \in Threads : th[t].pc # "idle" =>
    /\ th[t].vertex < Len(hist[th[t].label])
    /\ \A f \in th[t].todo :
         Shows(strs, th[t].cells, f, LastRow(th[t].label, th[t].vertex))

(* The process is gone when the buffer is full. *)
Alive == \A t \in Threads : th[t].pc # "dead"

(* A reader of epoch r finds a page with the vertex as that epoch knows it. *)
FoundBy(r, l, v, f) ==
  LET c == Column(l, f, v)
      s == VisiblePage(c, r)
  IN  /\ newest[c] # 0
      /\ s \in DOMAIN mem /\ mem[s].ver \in 0 .. r
      /\ \E k \in DOMAIN hist[l][v + 1] :
           /\ LastSeen(hist[l][v + 1], r, k)
           /\ Shows(strs, CellsAt(s, v), f, hist[l][v + 1][k].row)

Served ==
  \A r \in 0 .. (epoch - 1) : \A l \in Labels, f \in Families :
    \A v \in 0 .. (pubs[r + 1].max[l] - 1) : FoundBy(r, l, v, f)

ValueInv ==
  /\ Logged /\ ExtIds /\ RowsShaped /\ Heads
  /\ Alive => Current /\ InWork
  /\ Served


-----------------------------------------------------------------------------
(* Facts about strings, logs and walks, whatever the state. *)

(* Strings that are put later change nothing. *)
LEMMA ShowsStays ==
  ASSUME NEW st \in Seq(Int), NEW a \in Seq(Int), NEW cells, NEW f, NEW row,
         Shows(st, cells, f, row)
  PROVE  Shows(st \o a, cells, f, row)
  <1>1. \A k \in DOMAIN st : k \in DOMAIN (st \o a) /\ (st \o a)[k] = st[k]
    OBVIOUS
  <1> DEFINE b == st \o a
  <1> HIDE DEF b
  <1>2. ASSUME NEW p \in PropsOf(f) PROVE Tells(b, cells[p], p, row[p])
    <2>1. Tells(st, cells[p], p, row[p])
      BY DEF Shows
    <2>2. QED
      BY <1>1, <2>1 DEF Tells, Names, b
  <1>3. QED
    BY <1>2 DEF Shows, b

(* What a key names. *)
LEMMA NamesIs ==
  ASSUME NEW key, NEW x, strs \in Seq(Int), Names(strs, key, x)
  PROVE  StringAt(key) = x
  <1>1. NoKey \notin DOMAIN strs
    BY DEF NoKey
  <1>2. QED
    BY <1>1 DEF Names, StringAt

(* A log of a later epoch is not seen. *)
LEMMA LastSeenStays ==
  ASSUME NEW S, NEW logs \in Seq(S), NEW x \in S, NEW r \in Int, x.epoch > r,
         NEW k \in DOMAIN logs, LastSeen(logs, r, k)
  PROVE  /\ k \in DOMAIN Append(logs, x) /\ Append(logs, x)[k] = logs[k]
         /\ LastSeen(Append(logs, x), r, k)
  <1> DEFINE logs2 == Append(logs, x)
  <1>1. /\ Len(logs2) = Len(logs) + 1 /\ logs2 \in Seq(S)
        /\ \A i \in 1 .. Len(logs) : logs2[i] = logs[i]
        /\ logs2[Len(logs) + 1] = x
    BY AppendFacts
  <1>2. DOMAIN logs = 1 .. Len(logs) /\ Len(logs) \in Nat
    OBVIOUS
  <1> HIDE DEF logs2
  <1>3. DOMAIN logs2 = 1 .. Len(logs) + 1
    BY <1>1, <1>2
  <1>4. ASSUME NEW j \in DOMAIN logs2, j > k PROVE logs2[j].epoch > r
    <2>1. CASE j \in 1 .. Len(logs)
      BY <2>1, <1>1, <1>2, <1>4 DEF LastSeen
    <2>2. CASE j = Len(logs) + 1
      BY <2>2, <1>1
    <2>3. QED
      BY <2>1, <2>2, <1>2, <1>3
  <1>5. k \in DOMAIN logs2 /\ logs2[k] = logs[k]
    BY <1>1, <1>2, <1>3
  <1>6. LastSeen(logs2, r, k)
    BY <1>4, <1>5 DEF LastSeen
  <1>7. QED
    BY <1>5, <1>6 DEF logs2

(* The last log that is seen is what the reader expects. *)
SeenBy(logs, r) == {i \in DOMAIN logs : logs[i].epoch <= r}

LEMMA ExpectedIs ==
  ASSUME NEW logs, NEW r, r \in Int, DOMAIN logs \subseteq Int,
         \A i \in DOMAIN logs : logs[i].epoch \in Int, NEW k, LastSeen(logs, r, k)
  PROVE  Max(SeenBy(logs, r)) = k
  <1> DEFINE seen == SeenBy(logs, r)
  <1>1. k \in seen /\ \A i \in seen : k >= i
    BY DEF LastSeen, SeenBy
  <1>2. seen \subseteq Int
    BY DEF SeenBy
  <1> HIDE DEF seen
  <1>3. Max(seen) \in seen /\ \A i \in seen : Max(seen) >= i
    BY <1>1 DEF Max
  <1>4. PICK x \in Int : x = Max(seen)
    BY <1>2, <1>3
  <1>5. x >= k /\ k >= x /\ k \in Int
    BY <1>1, <1>2, <1>3, <1>4
  <1>6. QED
    BY <1>4, <1>5 DEF seen

(* Pages of which each lies behind the one it names. *)
Backwards(m) ==
  /\ DOMAIN m \subseteq Nat \ {0}
  /\ \A s \in DOMAIN m : m[s].prev \in 0 .. (s - 1) /\ m[s].prev \in DOMAIN m \cup {0}

LEMMA WalkFacts ==
  ASSUME NEW m, NEW r, Backwards(m), NEW top \in Nat, DOMAIN m \subseteq 0 .. top
  PROVE  /\ Walk(m, r)[0] = 0
         /\ \A s \in DOMAIN m :
              Walk(m, r)[s] = IF m[s].ver <= r THEN s ELSE Walk(m, r)[m[s].prev]
  <1> DEFINE Upto(n) == (DOMAIN m \cup {0}) \cap (0 .. n)
             Good(n) == \E w : w = [s \in Upto(n) |->
                                      IF s = 0 \/ m[s].ver <= r THEN s ELSE w[m[s].prev]]
             Bad == {n \in Nat : ~Good(n)}
  <1>1. \A s \in DOMAIN m : s \in Nat \ {0} /\ m[s].prev \in 0 .. (s - 1)
                            /\ m[s].prev \in DOMAIN m \cup {0}
    BY DEF Backwards
  <1>2. Good(0)
    <2> DEFINE w == [s \in Upto(0) |-> 0]
    <2>1. w = [s \in Upto(0) |-> IF s = 0 \/ m[s].ver <= r THEN s ELSE w[m[s].prev]]
      OBVIOUS
    <2>2. QED
      BY <2>1
  <1>3. ASSUME NEW n \in Nat, Good(n) PROVE Good(n + 1)
    <2>1. PICK w : w = [s \in Upto(n) |->
                          IF s = 0 \/ m[s].ver <= r THEN s ELSE w[m[s].prev]]
      BY <1>3
    <2> DEFINE v == [s \in Upto(n + 1) |->
                       IF s = n + 1 THEN (IF m[s].ver <= r THEN s ELSE w[m[s].prev]) ELSE w[s]]
    <2>2. ASSUME NEW s \in Upto(n + 1)
          PROVE  v[s] = IF s = 0 \/ m[s].ver <= r THEN s ELSE v[m[s].prev]
      <3>1. CASE s = 0
        BY <3>1, <2>1
      <3>2. CASE s # 0
        <4>1. m[s].prev \in Upto(n) /\ m[s].prev \in Upto(n + 1) /\ m[s].prev # n + 1
          BY <3>2, <1>1
        <4>2. v[m[s].prev] = w[m[s].prev]
          BY <4>1
        <4>3. s # n + 1 => s \in Upto(n)
          BY <3>2, <1>1
        <4>4. s # n + 1 => w[s] = IF s = 0 \/ m[s].ver <= r THEN s ELSE w[m[s].prev]
          BY <4>3, <3>2, <2>1
        <4>5. QED
          BY <4>2, <4>4, <3>2
      <3>3. QED
        BY <3>1, <3>2
    <2>3. v = [s \in Upto(n + 1) |-> IF s = 0 \/ m[s].ver <= r THEN s ELSE v[m[s].prev]]
      <3>1. v = [s \in Upto(n + 1) |-> v[s]]
        OBVIOUS
      <3> HIDE DEF v, Upto
      <3>2. QED
        BY <2>2, <3>1
    <2>4. QED
      BY <2>3
  <1> HIDE DEF Good
  <1>4. Bad = {}
    <2>1. SUFFICES ASSUME Bad # {} PROVE FALSE
      OBVIOUS
    <2>2. PICK n \in Bad : \A k \in Bad : n <= k
      BY <2>1, LeastNumber
    <2>3. n - 1 \in Nat /\ Good(n - 1)
      BY <2>2, <1>2
    <2>4. Good(n - 1 + 1)
      BY <2>3, <1>3
    <2>5. QED
      BY <2>2, <2>4
  <1>5. Good(top) /\ Upto(top) = DOMAIN m \cup {0}
    BY <1>4
  <1>6. Walk(m, r) = [s \in DOMAIN m \cup {0} |->
                        IF s = 0 \/ m[s].ver <= r THEN s ELSE Walk(m, r)[m[s].prev]]
    BY <1>5 DEF Good, Walk
  <1> DEFINE w == Walk(m, r)
  <1> HIDE DEF w
  <1>7. QED
    BY <1>1, <1>6 DEF w

(* The walk does not leave pages that keep what they name: what happens to  *)
(* other pages does not matter.                                             *)
LEMMA WalkStays ==
  ASSUME NEW m, NEW m2, NEW r, Backwards(m), Backwards(m2),
         NEW top \in Nat, DOMAIN m \subseteq 0 .. top, DOMAIN m2 \subseteq 0 .. top,
         NEW D \in SUBSET DOMAIN m, D \subseteq DOMAIN m2,
         \A s \in D : /\ m[s].prev \in D \cup {0}
                      /\ m2[s].ver = m[s].ver /\ m2[s].prev = m[s].prev
  PROVE  \A s \in D : Walk(m2, r)[s] = Walk(m, r)[s]
  <1> DEFINE Bad == {s \in D : Walk(m2, r)[s] # Walk(m, r)[s]}
  <1>1. SUFFICES ASSUME Bad # {} PROVE FALSE
    OBVIOUS
  <1>2. Bad \subseteq Nat
    BY DEF Backwards
  <1>3. PICK s \in Bad : \A x \in Bad : s <= x
    BY <1>1, <1>2, LeastNumber
  <1>4. s \in Nat /\ m[s].prev \in Nat /\ m[s].prev < s
    BY <1>3 DEF Backwards
  <1>5. /\ Walk(m, r)[s] = IF m[s].ver <= r THEN s ELSE Walk(m, r)[m[s].prev]
        /\ Walk(m2, r)[s] = IF m2[s].ver <= r THEN s ELSE Walk(m2, r)[m2[s].prev]
        /\ Walk(m, r)[0] = 0 /\ Walk(m2, r)[0] = 0
    BY <1>3, WalkFacts
  <1>6. Walk(m2, r)[m[s].prev] = Walk(m, r)[m[s].prev]
    <2>1. CASE m[s].prev = 0
      BY <2>1, <1>5
    <2>2. CASE m[s].prev \in D
      BY <2>2, <1>3, <1>4
    <2>3. QED
      BY <2>1, <2>2, <1>3
  <1>7. QED
    BY <1>3, <1>5, <1>6

-----------------------------------------------------------------------------
(* What a reader of a published epoch sees stays.                           *)

Piled == Backwards(mem) /\ size \in Nat /\ DOMAIN mem \subseteq 0 .. size

LEMMA PagesPiled == PageInv /\ OwnInv => Piled
  <1> SUFFICES ASSUME PageInv, OwnInv PROVE Piled
    OBVIOUS
  <1>1. PICK own \in [DOMAIN mem -> Columns] : Owned(own)
    BY DEF OwnInv
  <1>2. size \in Nat /\ DOMAIN mem \subseteq 1 .. (size - 1)
    BY VertexStoreAssumption DEF PageInv, PageTypes
  <1>3. \A s \in DOMAIN mem : mem[s].prev \in 0 .. (s - 1)
    BY DEF PageInv, PageTypes
  <1>4. \A s \in DOMAIN mem : mem[s].prev \in DOMAIN mem \cup {0}
    BY <1>1 DEF Owned
  <1>5. QED
    BY <1>2, <1>3, <1>4 DEF Piled, Backwards

(* A column that keeps its header and its pages' versions and predecessors  *)
(* shows every epoch the same page.                                         *)
LEMMA WalksStay ==
  ASSUME Piled, Piled', NEW own, Owned(own), NEW c \in Columns, NEW r, NEW x \in DOMAIN mem,
         own[x] = c,
         \A s \in DOMAIN mem : own[s] = c =>
           /\ s \in DOMAIN mem'
           /\ mem'[s].ver = mem[s].ver /\ mem'[s].prev = mem[s].prev
  PROVE  Walk(mem', r)[x] = Walk(mem, r)[x]
  <1>1. PICK m, m2 : m = mem /\ m2 = mem'
    OBVIOUS
  <1>2. PICK n \in Nat, n2 \in Nat : n = size /\ n2 = size'
    BY DEF Piled
  <1>3. Backwards(m) /\ Backwards(m2)
    BY <1>1 DEF Piled, Backwards
  <1>4. DOMAIN m \subseteq 0 .. n /\ DOMAIN m2 \subseteq 0 .. n2
    <2>1. DOMAIN mem \subseteq 0 .. size
      BY DEF Piled
    <2>2. DOMAIN mem' \subseteq 0 .. size'
      BY DEF Piled
    <2>3. QED
      BY ONLY <1>1, <1>2, <2>1, <2>2
  <1>5. PICK top \in Nat : DOMAIN m \subseteq 0 .. top /\ DOMAIN m2 \subseteq 0 .. top
    <2>1. CASE n <= n2
      <3>1. \A i \in 0 .. n : i \in 0 .. n2
        BY <2>1
      <3>2. QED
        BY ONLY <1>4, <3>1, n2 \in Nat
    <2>2. CASE n2 <= n
      <3>1. \A i \in 0 .. n2 : i \in 0 .. n
        BY <2>2
      <3>2. QED
        BY ONLY <1>4, <3>1, n \in Nat
    <2>3. n <= n2 \/ n2 <= n
      BY n \in Nat, n2 \in Nat
    <2>4. QED
      BY <2>1, <2>2, <2>3
  <1> DEFINE D == {s \in DOMAIN m : own[s] = c}
  <1>6. \A s \in D : /\ m[s].prev \in D \cup {0}
                     /\ m2[s].ver = m[s].ver /\ m2[s].prev = m[s].prev
    BY <1>1 DEF Owned
  <1>7. D \in SUBSET DOMAIN m /\ D \subseteq DOMAIN m2 /\ x \in D
    BY <1>1
  <1> HIDE DEF D
  <1>8. \A s \in D : Walk(m2, r)[s] = Walk(m, r)[s]
    BY ONLY <1>3, <1>5, <1>6, <1>7, WalkStays
  <1>9. QED
    BY <1>1, <1>7, <1>8

LEMMA VisibleIsWalk ==
  ASSUME NEW c \in Columns, NEW r
  PROVE  /\ VisiblePage(c, r) = Walk(mem, r)[header[c]]
         /\ VisiblePage(c, r)' = Walk(mem', r)[header'[c]]
  BY DEF VisiblePage, Walk

(* Columns with a newest page keep one, and what readers find in them. *)
VisibleKept ==
  \A c \in Columns : newest[c] # 0 =>
    /\ newest'[c] # 0
    /\ \A r \in 0 .. (epoch - 1) : VisiblePage(c, r)' = VisiblePage(c, r)

LEMMA VisibleKeptHere ==
  ASSUME Piled, Piled', NEW own, Owned(own), Heads, NEW c \in Columns, newest[c] # 0,
         newest'[c] # 0, header'[c] = header[c],
         \A s \in DOMAIN mem : own[s] = c =>
           /\ s \in DOMAIN mem'
           /\ mem'[s].ver = mem[s].ver /\ mem'[s].prev = mem[s].prev
  PROVE  \A r \in 0 .. (epoch - 1) : VisiblePage(c, r)' = VisiblePage(c, r)
  <1> SUFFICES ASSUME NEW r \in 0 .. (epoch - 1)
               PROVE  VisiblePage(c, r)' = VisiblePage(c, r)
    OBVIOUS
  <1>1. PICK x : x = header[c] /\ x = header'[c]
    OBVIOUS
  <1>2. x \in DOMAIN mem /\ own[x] = c
    BY <1>1 DEF Heads, Owned
  <1>3. Walk(mem', r)[x] = Walk(mem, r)[x]
    BY <1>2, WalksStay
  <1>4. QED
    BY <1>1, <1>3, VisibleIsWalk

(* Steps that leave headers, versions and predecessors alone. *)
LEMMA VisibleKeptStill ==
  ASSUME Piled, Piled', OwnInv, Heads, UNCHANGED <<header, newest>>,
         DOMAIN mem' = DOMAIN mem,
         \A s \in DOMAIN mem : mem'[s].ver = mem[s].ver /\ mem'[s].prev = mem[s].prev
  PROVE  VisibleKept
  <1>1. PICK own \in [DOMAIN mem -> Columns] : Owned(own)
    BY DEF OwnInv
  <1>2. ASSUME NEW c \in Columns, newest[c] # 0
        PROVE  /\ newest'[c] # 0
               /\ \A r \in 0 .. (epoch - 1) : VisiblePage(c, r)' = VisiblePage(c, r)
    BY <1>1, <1>2, VisibleKeptHere
  <1>3. QED
    BY <1>2 DEF VisibleKept

(* NewPage: the page of a later epoch is put in front. *)
LEMMA VisibleKeptNewPage ==
  ASSUME Piled, Piled', PageInv, PageInv', OwnInv, Heads, NEW t \in Threads, NewPage(t)
  PROVE  VisibleKept
  <1> DEFINE d == Col(t)
             n == th[t].page
             page == [ver |-> IF oldest[d] = 0 THEN Fresh ELSE epoch,
                      prev |-> newest[d],
                      rows |-> IF oldest[d] = 0 THEN Blank(Fam(t))
                               ELSE mem[newest[d]].rows]
  <1>1. PICK own \in [DOMAIN mem -> Columns] : Owned(own)
    BY DEF OwnInv
  <1>2. Busy(th[t]) /\ th[t].pc = "page"
    BY DEF NewPage, PageInv, ThreadsOK, Idle, Dead
  <1>3. d \in Columns
    BY <1>2, ColumnOf
  <1>4. n = size /\ n \in Nat \ {0} /\ n \notin DOMAIN mem /\ epoch \in Nat
    BY <1>2, VertexStoreAssumption, SMTT(30) DEF PageInv, InHand, PageTypes
  <1>5. /\ header' = [header EXCEPT ![d] = n] /\ PutPage(n, page)
        /\ oldest[d] # 0 => newest' = [newest EXCEPT ![d] = n]
        /\ oldest[d] = 0 => newest' = newest
    BY DEF NewPage
  <1> HIDE DEF page
  <1>6. /\ DOMAIN mem' = DOMAIN mem \cup {n} /\ mem'[n] = page
        /\ \A x \in DOMAIN mem : mem'[x] = mem[x]
    BY <1>4, <1>5, PutPageFacts
  <1>7. /\ header \in [Columns -> DOMAIN mem \cup {0}] /\ newest \in [Columns -> DOMAIN mem \cup {0}]
        /\ header'[d] = n
        /\ \A c \in Columns : c # d => header'[c] = header[c] /\ newest'[c] = newest[c]
        /\ oldest[d] # 0 => newest'[d] = n
    BY <1>3, <1>5 DEF PageInv, PageTypes
  <1>8. ASSUME NEW c \in Columns, newest[c] # 0, c # d
        PROVE  /\ newest'[c] # 0
               /\ \A r \in 0 .. (epoch - 1) : VisiblePage(c, r)' = VisiblePage(c, r)
    <2>1. newest'[c] # 0 /\ header'[c] = header[c]
      BY <1>7, <1>8
    <2>2. QED
      BY <2>1, <1>1, <1>6, <1>8, VisibleKeptHere
  <1>9. ASSUME newest[d] # 0
        PROVE  /\ newest'[d] # 0
               /\ \A r \in 0 .. (epoch - 1) : \A c : c = d => VisiblePage(c, r)' = VisiblePage(c, r)
    <2>1. oldest[d] # 0
      BY <1>3, <1>9 DEF OwnInv
    <2>2. newest'[d] # 0
      BY <2>1, <1>4, <1>7
    <2>3. ASSUME NEW r \in 0 .. (epoch - 1), NEW c, c = d
          PROVE  VisiblePage(c, r)' = VisiblePage(c, r)
      <3>1. PICK x : x = newest[c]
        OBVIOUS
      <3>2. x \in DOMAIN mem /\ own[x] = c /\ header[c] = x
        BY <2>3, <3>1, <1>1, <1>3, <1>7, <1>9 DEF Heads, Owned
      <3>3. Walk(mem', r)[x] = Walk(mem, r)[x]
        BY <2>3, <3>2, <1>1, <1>3, <1>6, WalksStay
      <3>4. page.ver = epoch /\ page.prev = x
        BY <2>1, <2>3, <3>1 DEF page
      <3>5. Walk(mem', r)[n] = IF mem'[n].ver <= r THEN n ELSE Walk(mem', r)[mem'[n].prev]
        <4>1. /\ Backwards(mem') /\ size' \in Nat
              /\ DOMAIN mem' \subseteq 0 .. size' /\ n \in DOMAIN mem'
          BY <1>6 DEF Piled
        <4>2. QED
          BY ONLY <4>1, WalkFacts
      <3>6. Walk(mem', r)[n] = Walk(mem', r)[x]
        BY <3>4, <3>5, <1>4, <1>6
      <3>7. header'[c] = n /\ c \in Columns
        BY <2>3, <1>3, <1>7
      <3>8. QED
        BY <3>2, <3>3, <3>6, <3>7, VisibleIsWalk
    <2>4. QED
      BY <2>2, <2>3
  <1>10. ASSUME NEW c \in Columns, newest[c] # 0, c = d
         PROVE  /\ newest'[c] # 0
                /\ \A r \in 0 .. (epoch - 1) : VisiblePage(c, r)' = VisiblePage(c, r)
    BY <1>9, <1>10
  <1>11. QED
    BY <1>8, <1>10 DEF VisibleKept

(* Vertices get logs, of the epoch being applied. *)
HistGrows ==
  \A l \in Labels : \A v \in DOMAIN hist[l] :
    /\ v \in DOMAIN hist'[l]
    /\ \/ hist'[l][v] = hist[l][v]
       \/ \E x \in LogType : x.epoch = epoch /\ hist'[l][v] = Append(hist[l][v], x)

StrsGrow == \E a \in Seq(Int) : strs' = strs \o a

LEMMA ColumnIs ==
  ASSUME NEW l \in Labels, NEW f \in Families, NEW v \in 0 .. (MaxVertices - 1)
  PROVE  Column(l, f, v) \in Columns
  <1>1. v \in 0 .. (MaxVertices - 1)
    OBVIOUS
  <1>2. v \div PageSize \in PageNums
    BY ONLY <1>1, DivMonotone, Sizes DEF PageNums
  <1>3. QED
    BY <1>2 DEF Column, Columns

(* A vertex of a published epoch has a history and a column. *)
LEMMA PublishedVertex ==
  ASSUME MapInv, PageInv, Logged, NEW r \in 0 .. (epoch - 1), NEW l \in Labels,
         NEW f \in Families, NEW v \in 0 .. (pubs[r + 1].max[l] - 1)
  PROVE  /\ r \in Nat /\ v \in Nat /\ v + 1 \in DOMAIN hist[l] /\ v \in 0 .. (Len(hist[l]) - 1)
         /\ hist[l][v + 1] \in Seq(LogType)
         /\ Column(l, f, v) \in Columns
  <1>1. epoch \in Nat /\ pubs \in Seq(PubType) /\ Len(pubs) = epoch
    BY VertexStoreAssumption DEF PageInv, PageTypes
  <1>2. r + 1 \in DOMAIN pubs /\ r \in Nat
    BY <1>1
  <1>3. pubs[r + 1].max[l] \in Nat /\ pubs[r + 1].max[l] <= Len(hist[l])
    <2>1. pubs[r + 1] \in PubType
      BY <1>1, <1>2
    <2>2. pubs[r + 1].max[l] \in Nat
      BY <2>1 DEF PubType
    <2>3. QED
      BY <2>2, <1>2 DEF MapInv, PublishedMap
  <1>4. hist[l] \in Seq(Seq(LogType)) /\ Len(hist[l]) \in Nat /\ Len(hist[l]) <= MaxVertices
    <2>1. hist[l] \in Seq(Seq(LogType))
      BY DEF PageInv, HistoryType, LogType
    <2>2. QED
      BY <2>1 DEF Logged
  <1>5. v \in Nat /\ v + 1 \in 1 .. Len(hist[l]) /\ v \in 0 .. (MaxVertices - 1)
        /\ v \in 0 .. (Len(hist[l]) - 1)
    <2>1. PICK m \in Nat, n \in Nat : m = pubs[r + 1].max[l] /\ n = Len(hist[l])
      BY <1>3, <1>4
    <2>2. m <= n /\ n <= MaxVertices /\ v \in 0 .. (m - 1) /\ MaxVertices \in Nat
      BY <1>3, <1>4, <2>1, VertexStoreAssumption
    <2>3. v \in Nat /\ v + 1 \in 1 .. n /\ v \in 0 .. (MaxVertices - 1) /\ v \in 0 .. (n - 1)
      BY ONLY <2>2, m \in Nat, n \in Nat
    <2>4. QED
      BY <2>1, <2>3
  <1>6. hist[l][v + 1] \in Seq(LogType)
    BY <1>4, <1>5
  <1>7. QED
    BY <1>2, <1>4, <1>5, <1>6, ColumnIs

(* Steps within an epoch keep what its readers find. *)
LEMMA ServedKept ==
  ASSUME MapInv, PageInv, Logged, ExtIds, Served, VisibleKept, Frozen, HistGrows, StrsGrow,
         UNCHANGED <<epoch, pubs>>, DOMAIN mem \subseteq DOMAIN mem'
  PROVE  Served'
  <1> SUFFICES ASSUME NEW r \in 0 .. (epoch - 1), NEW l \in Labels, NEW f \in Families,
                      NEW v \in 0 .. (pubs[r + 1].max[l] - 1)
               PROVE  FoundBy(r, l, v, f)'
    BY DEF Served
  <1>1. /\ r \in Nat /\ v \in Nat /\ v + 1 \in DOMAIN hist[l]
        /\ hist[l][v + 1] \in Seq(LogType) /\ Column(l, f, v) \in Columns
    BY PublishedVertex
  <1>2. epoch \in Nat
    BY VertexStoreAssumption DEF PageInv, PageTypes
  <1>3. PICK c \in Columns : c = Column(l, f, v)
    BY <1>1
  <1>4. FoundBy(r, l, v, f)
    BY DEF Served
  <1>5. PICK s \in DOMAIN mem : s = VisiblePage(c, r)
    BY <1>3, <1>4 DEF FoundBy
  <1>6. mem[s].ver \in 0 .. r /\ newest[c] # 0
    BY <1>3, <1>4, <1>5 DEF FoundBy
  <1>7. PICK k \in DOMAIN hist[l][v + 1] :
          /\ LastSeen(hist[l][v + 1], r, k)
          /\ Shows(strs, CellsAt(s, v), f, hist[l][v + 1][k].row)
    BY <1>3, <1>4, <1>5 DEF FoundBy
  <1>8. newest'[c] # 0 /\ VisiblePage(c, r)' = s
    BY <1>3, <1>5, <1>6 DEF VisibleKept
  <1>9. mem'[s] = mem[s] /\ s \in DOMAIN mem'
    BY <1>1, <1>2, <1>6 DEF Frozen
  <1>10. PICK cells : cells = CellsAt(s, v) /\ cells = CellsAt(s, v)'
    BY <1>9 DEF CellsAt
  <1>11. /\ k \in DOMAIN hist'[l][v + 1] /\ hist'[l][v + 1][k] = hist[l][v + 1][k]
         /\ LastSeen(hist'[l][v + 1], r, k)
    <2>1. PICK logs \in Seq(LogType) : logs = hist[l][v + 1]
      BY <1>1
    <2>2. CASE hist'[l][v + 1] = hist[l][v + 1]
      BY <2>2, <1>7
    <2>3. ASSUME NEW x \in LogType, x.epoch = epoch, hist'[l][v + 1] = Append(hist[l][v + 1], x)
          PROVE  /\ k \in DOMAIN hist'[l][v + 1] /\ hist'[l][v + 1][k] = hist[l][v + 1][k]
                 /\ LastSeen(hist'[l][v + 1], r, k)
      <3>1. x.epoch > r
        BY <2>3, <1>2
      <3>2. k \in DOMAIN logs /\ LastSeen(logs, r, k) /\ r \in Int
        BY <1>1, <1>7, <2>1
      <3>3. /\ k \in DOMAIN Append(logs, x) /\ Append(logs, x)[k] = logs[k]
            /\ LastSeen(Append(logs, x), r, k)
        BY ONLY <3>1, <3>2, LastSeenStays, logs \in Seq(LogType), x \in LogType
      <3>4. QED
        BY <3>3, <2>1, <2>3
    <2>4. QED
      BY <2>2, <2>3, <1>1 DEF HistGrows
  <1>12. Shows(strs', cells, f, hist'[l][v + 1][k].row)
    <2>1. PICK a \in Seq(Int) : strs' = strs \o a
      BY DEF StrsGrow
    <2>2. PICK st, row : st \in Seq(Int) /\ st = strs /\ row = hist[l][v + 1][k].row
      BY DEF ExtIds
    <2>3. Shows(st, cells, f, row)
      BY <2>2, <1>7, <1>10
    <2>4. Shows(st \o a, cells, f, row)
      BY <2>2, <2>3, ShowsStays
    <2>5. QED
      BY <2>1, <2>2, <2>4, <1>11
  <1>13. /\ c = Column(l, f, v) /\ newest'[c] # 0 /\ VisiblePage(c, r)' = s
         /\ s \in DOMAIN mem' /\ mem'[s].ver \in 0 .. r
    BY <1>3, <1>6, <1>8, <1>9
  <1>14. \E j \in DOMAIN hist'[l][v + 1] :
           /\ LastSeen(hist'[l][v + 1], r, j)
           /\ Shows(strs', CellsAt(s, v)', f, hist'[l][v + 1][j].row)
    BY <1>10, <1>11, <1>12
  <1>15. VisiblePage(Column(l, f, v), r)' = s
    BY <1>13
  <1>16. QED
    BY <1>13, <1>14, <1>15 DEF FoundBy

-----------------------------------------------------------------------------
(* What the steps of a thread do to the pages and to its work.              *)

(* Every thread has the same work left. *)
SameWork ==
  \A u \in Threads :
    /\ th'[u].pc = "idle" <=> th[u].pc = "idle"
    /\ th'[u].label = th[u].label /\ th'[u].vertex = th[u].vertex
    /\ th'[u].todo = th[u].todo /\ th'[u].cells = th[u].cells

(* The newest page of a column has the rows it had, in place or copied. *)
SameRows ==
  \A c \in Columns : newest[c] # 0 =>
    newest'[c] # 0 /\ mem'[newest'[c]].rows = mem[newest[c]].rows

LEMMA SameColumn ==
  ASSUME SameWork, NEW u \in Threads
  PROVE  Col(u)' = Col(u)
  BY DEF SameWork, Col, Fam, Column

LEMMA WorksKept ==
  ASSUME PageInv, Logged, Current, InWork, SameWork, SameRows, UNCHANGED <<hist, strs>>
  PROVE  Current' /\ InWork'
  <1>1. ASSUME NEW l \in Labels, NEW f \in Families, NEW v \in 0 .. (Len(hist[l]) - 1)
        PROVE  (Pending(l, v, f) \/ Written(l, v, f))'
    <2>1. CASE Pending(l, v, f)
      <3>1. PICK t \in Threads : th[t].pc # "idle" /\ th[t].label = l /\ th[t].vertex = v
                                 /\ f \in th[t].todo
        BY <2>1 DEF Pending
      <3>2. /\ th'[t].pc # "idle" /\ th'[t].label = l /\ th'[t].vertex = v
            /\ f \in th'[t].todo
        BY <3>1 DEF SameWork
      <3>3. Pending(l, v, f)'
        BY <3>2 DEF Pending
      <3>4. QED
        BY <3>3
    <2>2. CASE Written(l, v, f)
      <3>1. v \in 0 .. (MaxVertices - 1)
        <4>1. PICK n \in Nat : n = Len(hist[l])
          BY DEF PageInv, HistoryType
        <4>2. n <= MaxVertices
          BY <4>1 DEF Logged
        <4>3. QED
          BY <4>1, <4>2, VertexStoreAssumption
      <3>2. PICK c \in Columns : c = Column(l, f, v)
        BY <3>1, ColumnIs
      <3>3. newest'[c] # 0 /\ mem'[newest'[c]].rows = mem[newest[c]].rows
        BY <2>2, <3>2 DEF Written, SameRows
      <3>4. CellsAt(newest[c], v)' = CellsAt(newest[c], v)
        BY <3>3 DEF CellsAt
      <3>5. LastRow(l, v)' = LastRow(l, v)
        BY DEF LastRow
      <3>6. newest[c] # 0 /\ Shows(strs, CellsAt(newest[c], v), f, LastRow(l, v))
        BY <2>2, <3>2 DEF Written
      <3>7. newest'[c] # 0 /\ Shows(strs', CellsAt(newest[c], v)', f, LastRow(l, v)')
        BY <3>3, <3>4, <3>5, <3>6
      <3>8. Written(l, v, f)'
        BY <3>2, <3>7 DEF Written
      <3>9. QED
        BY <3>8
    <2>3. QED
      BY <2>1, <2>2 DEF Current
  <1>2. Current'
    BY <1>1 DEF Current
  <1>3. ASSUME NEW t \in Threads, th'[t].pc # "idle"
        PROVE  /\ th'[t].vertex < Len(hist'[th'[t].label])
               /\ \A f \in th'[t].todo :
                    Shows(strs', th'[t].cells, f, LastRow(th[t].label, th[t].vertex)')
    <2>1. PICK l, v : l = th[t].label /\ v = th[t].vertex
      OBVIOUS
    <2>2. LastRow(l, v)' = LastRow(l, v)
      BY DEF LastRow
    <2>3. LastRow(th[t].label, th[t].vertex)' = LastRow(th[t].label, th[t].vertex)
      BY <2>1, <2>2, <1>3 DEF SameWork, LastRow
    <2>4. QED
      BY <2>3, <1>3 DEF InWork, SameWork
  <1>4. InWork'
    BY <1>3 DEF InWork
  <1>5. QED
    BY <1>2, <1>4

(* NewPage, of a column with a page or without. *)
LEMMA NewPageDoes ==
  ASSUME PageInv, OwnInv, NEW t \in Threads, NewPage(t)
  PROVE  /\ Busy(th[t]) /\ th[t].pc = "page" /\ Col(t) \in Columns
         /\ th[t].page \in Nat \ {0} /\ th[t].page \notin DOMAIN mem
         /\ DOMAIN mem' = DOMAIN mem \cup {th[t].page}
         /\ \A x \in DOMAIN mem : mem'[x] = mem[x]
         /\ mem'[th[t].page].rows = IF oldest[Col(t)] = 0 THEN Blank(Fam(t))
                                    ELSE mem[newest[Col(t)]].rows
         /\ header'[Col(t)] = th[t].page
         /\ \A c \in Columns : c # Col(t) => header'[c] = header[c] /\ newest'[c] = newest[c]
         /\ oldest[Col(t)] = 0 =>
              /\ newest[Col(t)] = 0 /\ newest' = newest
              /\ th' = [th EXCEPT ![t].pc = "stamp"]
         /\ oldest[Col(t)] # 0 =>
              /\ newest'[Col(t)] = th[t].page /\ mem'[th[t].page].ver = epoch
              /\ newest[Col(t)] \in DOMAIN mem /\ mem[newest[Col(t)]].ver < epoch
              /\ th' = [th EXCEPT ![t].pc = "write"]
         /\ UNCHANGED <<epoch, hist, ext, strs, pubs>>
  <1> DEFINE d == Col(t)
             n == th[t].page
             page == [ver |-> IF oldest[d] = 0 THEN Fresh ELSE epoch,
                      prev |-> newest[d],
                      rows |-> IF oldest[d] = 0 THEN Blank(Fam(t))
                               ELSE mem[newest[d]].rows]
  <1>1. Busy(th[t]) /\ th[t].pc = "page"
    BY DEF NewPage, PageInv, ThreadsOK, Idle, Dead
  <1>2. d \in Columns
    BY <1>1, ColumnOf
  <1>3. n \in Nat \ {0} /\ n \notin DOMAIN mem
    BY <1>1, VertexStoreAssumption DEF PageInv, InHand, PageTypes
  <1>4. /\ header' = [header EXCEPT ![d] = n] /\ PutPage(n, page)
        /\ oldest[d] # 0 => newest' = [newest EXCEPT ![d] = n]
        /\ oldest[d] = 0 => newest' = newest
        /\ oldest[d] # 0 => th' = [th EXCEPT ![t].pc = "write"]
        /\ oldest[d] = 0 => th' = [th EXCEPT ![t].pc = "stamp"]
        /\ UNCHANGED <<epoch, hist, ext, strs, pubs>>
    BY DEF NewPage, Goto, ids
  <1>5. /\ page.rows = IF oldest[d] = 0 THEN Blank(Fam(t)) ELSE mem[newest[d]].rows
        /\ oldest[d] # 0 => page.ver = epoch
    OBVIOUS
  <1> HIDE DEF page
  <1>6. /\ DOMAIN mem' = DOMAIN mem \cup {n} /\ mem'[n] = page
        /\ \A x \in DOMAIN mem : mem'[x] = mem[x]
    BY <1>3, <1>4, PutPageFacts
  <1>7. /\ header'[d] = n
        /\ \A c \in Columns : c # d => header'[c] = header[c] /\ newest'[c] = newest[c]
        /\ oldest[d] # 0 => newest'[d] = n
    BY <1>2, <1>4 DEF PageInv, PageTypes
  <1>8. oldest[d] = 0 => newest[d] = 0
    BY <1>2 DEF OwnInv
  <1>9. oldest[d] # 0 => newest[d] \in DOMAIN mem /\ mem[newest[d]].ver < epoch
    BY <1>1 DEF OwnInv, Making, IsOld
  <1>10. QED
    BY <1>1, <1>2, <1>3, <1>4, <1>5, <1>6, <1>7, <1>8, <1>9

(* Steps of a thread that leave the logs and the strings alone. *)
LEMMA ValuesWithin ==
  ASSUME MapInv, PageInv, OwnInv, ValueInv, Frozen, VisibleKept, RowsShaped', Heads',
         Alive' => Alive /\ SameWork /\ SameRows,
         DOMAIN mem \subseteq DOMAIN mem', UNCHANGED <<epoch, hist, ext, strs, pubs>>
  PROVE  ValueInv'
  <1>1. Logged' /\ ExtIds'
    BY DEF ValueInv, Logged, ExtIds
  <1>2. Alive' => Current' /\ InWork'
    BY WorksKept DEF ValueInv
  <1>3. Served'
    <2>1. HistGrows
      BY DEF HistGrows
    <2>2. StrsGrow
      <3>1. strs \in Seq(Int)
        BY DEF ValueInv, ExtIds
      <3>2. << >> \in Seq(Int) /\ strs \o << >> = strs
        BY <3>1
      <3>3. QED
        BY <3>2 DEF StrsGrow
    <2>3. QED
      BY <2>1, <2>2, ServedKept DEF ValueInv
  <1>4. QED
    BY <1>1, <1>2, <1>3 DEF ValueInv

(* Steps that leave the pages alone, too. *)
LEMMA ValuesStill ==
  ASSUME MapInv, PageInv, OwnInv, ValueInv, Piled, Piled', Heads',
         Alive' => Alive /\ SameWork,
         UNCHANGED <<epoch, hist, ext, strs, pubs, mem, header, newest>>
  PROVE  ValueInv'
  <1>1. Frozen /\ SameRows /\ RowsShaped'
    BY DEF Frozen, SameRows, RowsShaped, ValueInv
  <1>2. VisibleKept
    BY VisibleKeptStill DEF ValueInv
  <1>3. QED
    BY <1>1, <1>2, ValuesWithin

LEMMA FindValues ==
  ASSUME MapInv, PageInv, OwnInv, ValueInv, Piled, Piled', NEW t \in Threads, Find(t)
  PROVE  ValueInv'
  <1>1. /\ Busy(th[t]) /\ th[t].pc = "find"
        /\ UNCHANGED <<epoch, hist, ext, strs, pubs, mem, header, newest>>
    BY DEF Find, PageInv, ThreadsOK, Idle, Dead, pages, ids
  <1> DEFINE n == newest[Col(t)]
             write == [th[t] EXCEPT !.pc = "write", !.page = n]
             region == [th[t] EXCEPT !.pc = "region"]
  <1>2. PICK q : th' = [th EXCEPT ![t] = q] /\ (q = write \/ q = region)
    BY DEF Find, Goto
  <1>3. /\ \A u \in Threads : u # t => th'[u] = th[u]
        /\ th'[t].pc = "region" \/ (th'[t].pc = "write" /\ th'[t].page = n)
        /\ th'[t].label = th[t].label /\ th'[t].vertex = th[t].vertex
        /\ th'[t].todo = th[t].todo /\ th'[t].cells = th[t].cells
    <2>1. /\ write.pc = "write" /\ write.page = n
          /\ write.label = th[t].label /\ write.vertex = th[t].vertex
          /\ write.todo = th[t].todo /\ write.cells = th[t].cells
      BY <1>1 DEF Busy
    <2>2. /\ region.pc = "region"
          /\ region.label = th[t].label /\ region.vertex = th[t].vertex
          /\ region.todo = th[t].todo /\ region.cells = th[t].cells
      BY <1>1 DEF Busy
    <2> HIDE DEF write, region
    <2>3. th'[t] = q /\ \A u \in Threads : u # t => th'[u] = th[u]
      BY <1>2 DEF PageInv, ThreadsOK
    <2>4. QED
      BY <1>2, <2>1, <2>2, <2>3
  <1> HIDE DEF n
  <1>4. SameWork
    BY <1>1, <1>3 DEF SameWork
  <1>5. \A u \in Threads : Col(u)' = Col(u)
    BY <1>4, SameColumn
  <1>6. Heads'
    BY <1>1, <1>3, <1>5 DEF ValueInv, Heads, n
  <1>7. Alive' => Alive
    BY <1>1, <1>3 DEF Alive
  <1>8. QED
    BY <1>1, <1>4, <1>6, <1>7, ValuesStill

LEMMA GetRegionValues ==
  ASSUME MapInv, PageInv, OwnInv, ValueInv, Piled, Piled', NEW t \in Threads, GetRegion(t)
  PROVE  ValueInv'
  <1>1. /\ Busy(th[t]) /\ th[t].pc = "region"
        /\ UNCHANGED <<epoch, hist, ext, strs, pubs, mem, header, newest>>
    BY DEF GetRegion, PageInv, ThreadsOK, Idle, Dead, pages, ids
  <1>2. th' = [th EXCEPT ![t].pc = "page", ![t].page = size]
    BY DEF GetRegion
  <1>3. /\ \A u \in Threads : u # t => th'[u] = th[u]
        /\ th'[t].pc = "page"
        /\ th'[t].label = th[t].label /\ th'[t].vertex = th[t].vertex
        /\ th'[t].todo = th[t].todo /\ th'[t].cells = th[t].cells
    BY <1>1, <1>2 DEF PageInv, ThreadsOK, Busy
  <1>4. SameWork
    BY <1>1, <1>3 DEF SameWork
  <1>5. \A u \in Threads : Col(u)' = Col(u)
    BY <1>4, SameColumn
  <1>6. Heads'
    BY <1>1, <1>3, <1>5 DEF ValueInv, Heads
  <1>7. Alive' => Alive
    BY <1>1, <1>3 DEF Alive
  <1>8. QED
    BY <1>1, <1>4, <1>6, <1>7, ValuesStill

LEMMA AllGone ==
  ASSUME PageInv, th' = Gone
  PROVE  ~Alive' /\ \A u \in Threads : th'[u].pc = "dead"
  <1>1. \A u \in Threads : "pc" \in DOMAIN th[u]
    BY DEF PageInv, ThreadsOK, Idle, Dead, Busy
  <1>2. \A u \in Threads : th'[u].pc = "dead"
    BY <1>1 DEF Gone
  <1>3. QED
    BY <1>2, VertexStoreAssumption DEF Alive

(* The process goes, its pages and strings stay. *)
LEMMA GoneValues ==
  ASSUME MapInv, PageInv, OwnInv, ValueInv, Piled, Piled', th' = Gone,
         UNCHANGED <<epoch, hist, ext, strs, pubs, mem, header, newest>>
  PROVE  ValueInv'
  <1>1. ~Alive' /\ \A u \in Threads : th'[u].pc = "dead"
    BY AllGone
  <1>2. Heads'
    BY <1>1 DEF ValueInv, Heads
  <1>3. QED
    BY <1>1, <1>2, ValuesStill

LEMMA BufferFullValues ==
  ASSUME MapInv, PageInv, OwnInv, ValueInv, Piled, Piled', NEW t \in Threads, BufferFull(t)
  PROVE  ValueInv'
  BY GoneValues DEF BufferFull, pages, ids

LEMMA NewPageValues ==
  ASSUME MapInv, PageInv, OwnInv, ValueInv, Piled, Piled', PageInv', Frozen, NoRace,
         NEW t \in Threads, NewPage(t)
  PROVE  ValueInv'
  <1>1. PICK d \in Columns, n \in Nat \ {0} : d = Col(t) /\ n = th[t].page
    BY NewPageDoes
  <1>2. /\ Busy(th[t]) /\ th[t].pc = "page"
        /\ n \notin DOMAIN mem /\ DOMAIN mem' = DOMAIN mem \cup {n}
        /\ \A x \in DOMAIN mem : mem'[x] = mem[x]
        /\ mem'[n].rows = IF oldest[d] = 0 THEN Blank(Fam(t)) ELSE mem[newest[d]].rows
        /\ header'[d] = n
        /\ \A c \in Columns : c # d => header'[c] = header[c] /\ newest'[c] = newest[c]
        /\ oldest[d] = 0 =>
             /\ newest[d] = 0 /\ newest' = newest /\ th' = [th EXCEPT ![t].pc = "stamp"]
        /\ oldest[d] # 0 =>
             /\ newest'[d] = n /\ mem'[n].ver = epoch
             /\ newest[d] \in DOMAIN mem /\ mem[newest[d]].ver < epoch
             /\ th' = [th EXCEPT ![t].pc = "write"]
        /\ UNCHANGED <<epoch, hist, ext, strs, pubs>>
    BY <1>1, NewPageDoes
  <1>3. /\ \A u \in Threads : u # t => th'[u] = th[u]
        /\ th'[t].pc = IF oldest[d] = 0 THEN "stamp" ELSE "write"
        /\ th'[t].page = n
        /\ th'[t].label = th[t].label /\ th'[t].vertex = th[t].vertex
        /\ th'[t].todo = th[t].todo /\ th'[t].cells = th[t].cells
    BY <1>1, <1>2 DEF PageInv, ThreadsOK, Busy
  <1>4. SameWork
    BY <1>2, <1>3 DEF SameWork
  <1>5. \A u \in Threads : Col(u)' = Col(u)
    BY <1>4, SameColumn
  <1>6. newest \in [Columns -> DOMAIN mem \cup {0}] /\ 0 \notin DOMAIN mem /\ epoch \in Nat
    BY VertexStoreAssumption DEF PageInv, PageTypes
  <1>7. SameRows
    <2>1. ASSUME NEW c \in Columns, newest[c] # 0
          PROVE  newest'[c] # 0 /\ mem'[newest'[c]].rows = mem[newest[c]].rows
      <3>1. newest[c] \in DOMAIN mem
        BY <2>1, <1>6
      <3>2. CASE c = d
        BY <2>1, <3>2, <1>2
      <3>3. CASE c # d
        BY <2>1, <3>1, <3>3, <1>2
      <3>4. QED
        BY <3>2, <3>3
    <2>2. QED
      BY <2>1 DEF SameRows
  <1>8. RowsShaped'
    <2>1. \A x \in DOMAIN mem : mem'[x].rows = [i \in 0 .. PageSize - 1 |-> mem'[x].rows[i]]
      BY <1>2 DEF ValueInv, RowsShaped
    <2>2. mem'[n].rows = [i \in 0 .. PageSize - 1 |-> mem'[n].rows[i]]
      <3>1. CASE oldest[d] = 0
        <4>1. mem'[n].rows = Blank(Fam(t))
          BY <1>2, <3>1
        <4>2. Blank(Fam(t)) = [i \in 0 .. PageSize - 1 |-> Blank(Fam(t))[i]]
          BY DEF Blank
        <4>3. QED
          BY <4>1, <4>2
      <3>2. CASE oldest[d] # 0
        BY <1>2, <3>2 DEF ValueInv, RowsShaped
      <3>3. QED
        BY <3>1, <3>2
    <2>3. QED
      BY <2>1, <2>2, <1>2 DEF RowsShaped
  <1>9. \A u \in Threads : u # t => th[u].pc # "stamp"
    BY <1>2, OneMaker DEF PageInv, Locked
  <1>10. ASSUME NEW u \in Threads, u # t, th[u].pc = "write"
         PROVE  th[u].page = newest'[Col(u)]
    <2>1. th[u].page = newest[Col(u)] /\ th[u].page \in DOMAIN mem /\ mem[th[u].page].ver = epoch
      BY <1>10 DEF ValueInv, Heads, PageInv, InHand
    <2>2. Col(u) \in Columns
      <3>1. Busy(th[u])
        BY <1>10 DEF PageInv, ThreadsOK, Idle, Dead
      <3>2. QED
        BY <3>1, ColumnOf
    <2>3. Col(u) # d
      BY <2>1, <1>2, <1>6
    <2>4. QED
      BY <2>1, <2>2, <2>3, <1>2
  <1>11. Heads'
    <2>1. ASSUME NEW c \in Columns, newest'[c] # 0
          PROVE  header'[c] = newest'[c] /\ mem'[newest'[c]].ver \in Nat
      <3>1. CASE c = d
        BY <2>1, <3>1, <1>2, <1>6
      <3>2. CASE c # d
        BY <2>1, <3>2, <1>2, <1>6 DEF ValueInv, Heads
      <3>3. QED
        BY <3>1, <3>2
    <2>2. ASSUME NEW u \in Threads, th'[u].pc = "stamp"
          PROVE  newest'[Col(u)'] = 0 /\ header'[Col(u)'] = th'[u].page
      <3>1. u = t /\ oldest[d] = 0
        BY <2>2, <1>3, <1>9
      <3>2. Col(u)' = d
        BY <3>1, <1>1, <1>5
      <3>3. QED
        BY <3>1, <3>2, <1>2, <1>3
    <2>3. ASSUME NEW u \in Threads, th'[u].pc = "write"
          PROVE  th'[u].page = newest'[Col(u)']
      <3>1. CASE u = t
        <4>1. Col(u)' = d /\ oldest[d] # 0
          BY <2>3, <3>1, <1>1, <1>3, <1>5
        <4>2. QED
          BY <3>1, <4>1, <1>2, <1>3
      <3>2. CASE u # t
        <4>1. Col(u)' = Col(u) /\ th'[u] = th[u]
          BY <3>2, <1>3, <1>5
        <4>2. QED
          BY <2>3, <3>2, <4>1, <1>10
      <3>3. QED
        BY <3>1, <3>2
    <2>4. QED
      BY <2>1, <2>2, <2>3 DEF Heads
  <1>12. VisibleKept
    BY VisibleKeptNewPage DEF ValueInv
  <1>13. Alive' => Alive
    BY <1>2, <1>3 DEF Alive
  <1>14. QED
    BY <1>2, <1>4, <1>7, <1>8, <1>11, <1>12, <1>13, ValuesWithin

LEMMA StampValues ==
  ASSUME MapInv, PageInv, OwnInv, ValueInv, Piled, Piled', PageInv', Frozen, NoRace,
         NEW t \in Threads, Stamp(t)
  PROVE  ValueInv'
  <1>1. Busy(th[t]) /\ th[t].pc = "stamp" /\ UNCHANGED <<epoch, hist, ext, strs, pubs, header>>
    BY DEF Stamp, PageInv, ThreadsOK, Idle, Dead, ids
  <1>2. PICK d \in Columns, s \in DOMAIN mem : d = Col(t) /\ s = th[t].page
    BY <1>1, ColumnOf DEF PageInv, InHand
  <1>3. newest[d] = 0 /\ header[d] = s
    BY <1>1, <1>2 DEF ValueInv, Heads
  <1>4. /\ mem' = [mem EXCEPT ![s].ver = epoch] /\ newest' = [newest EXCEPT ![d] = s]
        /\ th' = [th EXCEPT ![t].pc = "write"]
    BY <1>2 DEF Stamp, Goto
  <1>5. /\ newest \in [Columns -> DOMAIN mem \cup {0}] /\ 0 \notin DOMAIN mem /\ epoch \in Nat
        /\ \A x \in DOMAIN mem :
             mem[x] \in [ver : {Fresh} \cup 0 .. epoch, prev : 0 .. (x - 1), rows : {mem[x].rows}]
        /\ mem = [x \in DOMAIN mem |-> mem[x]]
    BY VertexStoreAssumption, SMTT(30) DEF PageInv, PageTypes
  <1>6. /\ DOMAIN mem' = DOMAIN mem
        /\ mem'[s].ver = epoch
        /\ \A x \in DOMAIN mem : x # s => mem'[x] = mem[x]
        /\ \A x \in DOMAIN mem : mem'[x].rows = mem[x].rows
        /\ newest'[d] = s /\ \A c \in Columns : c # d => newest'[c] = newest[c]
    <2>1. DOMAIN mem' = DOMAIN mem /\ \A x \in DOMAIN mem : x # s => mem'[x] = mem[x]
      BY <1>4
    <2>2. mem'[s] = [mem[s] EXCEPT !.ver = epoch]
      BY <1>4
    <2>3. mem'[s].ver = epoch /\ mem'[s].rows = mem[s].rows
      BY <2>2, <1>5
    <2>4. newest'[d] = s /\ \A c \in Columns : c # d => newest'[c] = newest[c]
      BY <1>4, <1>5
    <2>5. QED
      BY <2>1, <2>3, <2>4
  <1>7. /\ \A u \in Threads : u # t => th'[u] = th[u]
        /\ th'[t].pc = "write" /\ th'[t].page = s
        /\ th'[t].label = th[t].label /\ th'[t].vertex = th[t].vertex
        /\ th'[t].todo = th[t].todo /\ th'[t].cells = th[t].cells
    BY <1>1, <1>2, <1>4 DEF PageInv, ThreadsOK, Busy
  <1>8. SameWork
    BY <1>1, <1>7 DEF SameWork
  <1>9. \A u \in Threads : Col(u)' = Col(u)
    BY <1>8, SameColumn
  <1>10. SameRows
    BY <1>3, <1>5, <1>6 DEF SameRows
  <1>11. RowsShaped'
    BY <1>6 DEF ValueInv, RowsShaped
  <1>12. \A u \in Threads : u # t => th[u].pc # "stamp"
    BY <1>1, OneMaker DEF PageInv, Locked
  <1>13. Heads'
    <2>1. ASSUME NEW c \in Columns, newest'[c] # 0
          PROVE  header'[c] = newest'[c] /\ mem'[newest'[c]].ver \in Nat
      <3>1. CASE c = d
        BY <3>1, <1>1, <1>3, <1>5, <1>6
      <3>2. CASE c # d
        <4>1. newest'[c] = newest[c] /\ newest[c] \in DOMAIN mem
          BY <2>1, <3>2, <1>5, <1>6
        <4>2. header[c] = newest[c] /\ mem[newest[c]].ver \in Nat
          BY <2>1, <4>1 DEF ValueInv, Heads
        <4>3. mem'[newest[c]].ver \in Nat
          BY <4>1, <4>2, <1>5, <1>6
        <4>4. QED
          BY <4>1, <4>2, <4>3, <1>1
      <3>3. QED
        BY <3>1, <3>2
    <2>2. ASSUME NEW u \in Threads PROVE th'[u].pc # "stamp"
      BY <1>7, <1>12
    <2>3. ASSUME NEW u \in Threads, th'[u].pc = "write"
          PROVE  th'[u].page = newest'[Col(u)']
      <3>1. CASE u = t
        BY <3>1, <1>2, <1>6, <1>7, <1>9
      <3>2. CASE u # t
        <4>1. Col(u)' = Col(u) /\ th'[u] = th[u] /\ th[u].pc = "write"
          BY <2>3, <3>2, <1>7, <1>9
        <4>2. th[u].page = newest[Col(u)] /\ th[u].page \in DOMAIN mem
          BY <4>1 DEF ValueInv, Heads, PageInv, InHand
        <4>3. Busy(th[u])
          BY <4>1 DEF PageInv, ThreadsOK, Idle, Dead
        <4>4. Col(u) \in Columns /\ Col(u) # d
          BY <4>2, <4>3, ColumnOf, <1>3, <1>5
        <4>5. QED
          BY <4>1, <4>2, <4>4, <1>6
      <3>3. QED
        BY <3>1, <3>2
    <2>4. QED
      BY <2>1, <2>2, <2>3 DEF Heads
  <1>14. VisibleKept
    <2>1. PICK own \in [DOMAIN mem -> Columns] : Owned(own)
      BY DEF OwnInv
    <2>2. own[s] = d
      BY <2>1, <1>1, <1>2 DEF Owned
    <2>3. ASSUME NEW c \in Columns, newest[c] # 0
          PROVE  /\ newest'[c] # 0
                 /\ \A r \in 0 .. (epoch - 1) : VisiblePage(c, r)' = VisiblePage(c, r)
      <3>1. c # d
        BY <2>3, <1>3
      <3>2. newest'[c] # 0 /\ header'[c] = header[c]
        BY <2>3, <3>1, <1>1, <1>6
      <3>3. \A x \in DOMAIN mem : own[x] = c =>
              x \in DOMAIN mem' /\ mem'[x].ver = mem[x].ver /\ mem'[x].prev = mem[x].prev
        BY <2>2, <3>1, <1>6
      <3>4. QED
        BY <2>1, <2>3, <3>2, <3>3, VisibleKeptHere DEF ValueInv
    <2>4. QED
      BY <2>3 DEF VisibleKept
  <1>15. Alive' => Alive
    BY <1>1, <1>7 DEF Alive
  <1>16. QED
    BY <1>1, <1>6, <1>8, <1>10, <1>11, <1>13, <1>14, <1>15, ValuesWithin

(* Two vertices in one page have rows of their own. *)
LEMMA OtherRow ==
  ASSUME NEW a \in Nat, NEW b \in Nat, NEW p \in Nat \ {0},
         a \div p = b \div p, a % p = b % p
  PROVE  a = b
  <1>1. a = p * (a \div p) + (a % p) /\ b = p * (b \div p) + (b % p)
    OBVIOUS
  <1>2. QED
    BY <1>1

LEMMA WriteDoes ==
  ASSUME PageInv, RowsShaped, NEW t \in Threads, Write(t)
  PROVE  LET s == th[t].page
             i == th[t].vertex % PageSize IN
         /\ Busy(th[t]) /\ th[t].pc = "write"
         /\ s \in DOMAIN mem /\ DOMAIN mem' = DOMAIN mem
         /\ \A x \in DOMAIN mem :
              /\ x # s => mem'[x] = mem[x]
              /\ mem'[x].ver = mem[x].ver /\ mem'[x].prev = mem[x].prev
         /\ mem'[s].rows = [j \in 0 .. PageSize - 1 |->
                              IF j = i THEN [p \in PropsOf(Fam(t)) |-> th[t].cells[p]]
                              ELSE mem[s].rows[j]]
         /\ th'[t] = IF th[t].todo = {Fam(t)} THEN Idle
                     ELSE [th[t] EXCEPT !.pc = "find", !.todo = th[t].todo \ {Fam(t)}]
         /\ \A u \in Threads : u # t => th'[u] = th[u]
         /\ UNCHANGED <<epoch, hist, ext, strs, pubs, header, newest>>
  <1> DEFINE s == th[t].page
             i == th[t].vertex % PageSize
             row == [p \in PropsOf(Fam(t)) |-> th[t].cells[p]]
             q == IF th[t].todo = {Fam(t)} THEN Idle
                  ELSE [th[t] EXCEPT !.pc = "find", !.todo = th[t].todo \ {Fam(t)}]
  <1>1. /\ Busy(th[t]) /\ th[t].pc = "write"
        /\ UNCHANGED <<epoch, hist, ext, strs, pubs, header, newest>>
    BY DEF Write, PageInv, ThreadsOK, Idle, Dead, ids
  <1>2. s \in DOMAIN mem
    BY <1>1 DEF PageInv, InHand
  <1>3. mem' = [mem EXCEPT ![s].rows[i] = row] /\ th' = [th EXCEPT ![t] = q]
    BY DEF Write, PageToWrite
  <1> HIDE DEF row, q, i
  <1>4. \A u \in Threads : u # t => th'[u] = th[u]
    BY <1>3 DEF PageInv, ThreadsOK
  <1>5. th'[t] = q
    BY <1>3 DEF PageInv, ThreadsOK
  <1>6. /\ mem[s] \in [ver : {Fresh} \cup 0 .. epoch, prev : 0 .. (s - 1), rows : {mem[s].rows}]
        /\ mem = [x \in DOMAIN mem |-> mem[x]]
    BY <1>2 DEF PageInv, PageTypes
  <1> DEFINE rows == [mem[s].rows EXCEPT ![i] = row]
  <1>7. mem' = [mem EXCEPT ![s] = [mem[s] EXCEPT !.rows = rows]]
    BY <1>3
  <1>8. rows = [j \in 0 .. PageSize - 1 |-> IF j = i THEN row ELSE mem[s].rows[j]]
    <2>1. mem[s].rows = [j \in 0 .. PageSize - 1 |-> mem[s].rows[j]]
      BY <1>2 DEF RowsShaped
    <2>2. PICK g : g = mem[s].rows
      OBVIOUS
    <2>3. g = [j \in 0 .. PageSize - 1 |-> g[j]]
      BY <2>1, <2>2
    <2>4. [g EXCEPT ![i] = row] = [j \in 0 .. PageSize - 1 |-> IF j = i THEN row ELSE g[j]]
      BY <2>3
    <2>5. QED
      BY <2>2, <2>4
  <1> HIDE DEF rows
  <1>9. /\ DOMAIN mem' = DOMAIN mem /\ mem'[s] = [mem[s] EXCEPT !.rows = rows]
        /\ \A x \in DOMAIN mem : x # s => mem'[x] = mem[x]
    <2> HIDE DEF s
    <2>1. QED
      BY <1>2, <1>6, <1>7
  <1>10. mem'[s].rows = rows /\ mem'[s].ver = mem[s].ver /\ mem'[s].prev = mem[s].prev
    BY <1>6, <1>9
  <1>11. \A x \in DOMAIN mem : /\ x # s => mem'[x] = mem[x]
                               /\ mem'[x].ver = mem[x].ver /\ mem'[x].prev = mem[x].prev
    BY <1>9, <1>10
  <1>12. QED
    BY <1>1, <1>2, <1>4, <1>5, <1>8, <1>9, <1>10, <1>11 DEF row, q, i

(* Write: the row of the vertex is written as the log has it; the rows of   *)
(* other vertices and the pages of other columns stay.                      *)
LEMMA RowsAfterWrite ==
  ASSUME PageInv, OwnInv, ValueInv, NEW t \in Threads, Write(t),
         NEW m \in Labels, NEW g \in Families, NEW w \in 0 .. (MaxVertices - 1),
         newest[Column(m, g, w)] # 0
  PROVE  mem'[newest[Column(m, g, w)]].rows[w % PageSize] =
           IF m = th[t].label /\ w = th[t].vertex /\ g = Fam(t)
           THEN [p \in PropsOf(g) |-> th[t].cells[p]]
           ELSE mem[newest[Column(m, g, w)]].rows[w % PageSize]
  <1>1. PICK s : s = th[t].page
    OBVIOUS
  <1>2. PICK row : row = [p \in PropsOf(Fam(t)) |-> th[t].cells[p]]
    OBVIOUS
  <1>3. PICK i : i = th[t].vertex % PageSize
    OBVIOUS
  <1>4. /\ Busy(th[t]) /\ th[t].pc = "write" /\ s \in DOMAIN mem
        /\ \A x \in DOMAIN mem : x # s => mem'[x] = mem[x]
        /\ mem'[s].rows = [j \in 0 .. PageSize - 1 |-> IF j = i THEN row ELSE mem[s].rows[j]]
    BY <1>1, <1>2, <1>3, WriteDoes DEF ValueInv
  <1>5. PICK l \in Labels, v \in Nat, f \in Families :
          l = th[t].label /\ v = th[t].vertex /\ f = Fam(t)
    <2>1. th[t].label \in Labels /\ th[t].vertex \in Nat
      BY <1>4, VertexStoreAssumption DEF Busy
    <2>2. QED
      BY <2>1, <1>4, ColumnOf
  <1>6. newest[Column(l, f, v)] = s
    <2>1. Col(t) = Column(l, f, v)
      BY <1>5 DEF Col
    <2>2. QED
      BY <2>1, <1>1, <1>4 DEF ValueInv, Heads
  <1>7. PICK c \in Columns, k \in DOMAIN mem : c = Column(m, g, w) /\ k = newest[c]
    BY ColumnIs DEF PageInv, PageTypes
  <1>8. PageSize \in Nat \ {0} /\ w \in Nat
    BY VertexStoreAssumption
  <1>9. CASE k # s
    <2>1. ~(m = l /\ w = v /\ g = f)
      BY <1>6, <1>7, <1>9
    <2>2. QED
      BY <2>1, <1>4, <1>5, <1>7, <1>9
  <1>10. CASE k = s
    <2>1. Column(l, f, v) \in Columns
      BY <1>4, <1>5, ColumnOf DEF Col
    <2>2. c = Column(l, f, v)
      <3>1. PICK own \in [DOMAIN mem -> Columns] : Owned(own)
        BY DEF OwnInv
      <3>2. s # 0
        BY <1>4 DEF PageInv, PageTypes
      <3>3. PICK d \in Columns : d = Column(l, f, v)
        BY <2>1
      <3>4. newest[d] = s /\ newest[c] = s
        BY <3>3, <1>6, <1>7, <1>10
      <3>5. own[s] = c /\ own[s] = d
        <4>1. \A e \in Columns : newest[e] # 0 => own[newest[e]] = e
          BY <3>1 DEF Owned
        <4>2. QED
          BY <3>2, <3>4, <4>1
      <3>6. QED
        BY <3>3, <3>5
    <2>3. m = l /\ g = f /\ w \div PageSize = v \div PageSize
      BY <2>2, <1>7 DEF Column
    <2>4. w % PageSize \in 0 .. PageSize - 1
      BY <1>8
    <2>5. w % PageSize = i <=> w = v
      <3>1. i = v % PageSize
        BY <1>3, <1>5
      <3>2. ASSUME w % PageSize = v % PageSize PROVE w = v
        BY <3>2, <2>3, <1>8, OtherRow, v \in Nat
      <3>3. QED
        BY <3>1, <3>2
    <2>6. PICK j \in 0 .. PageSize - 1 : j = w % PageSize
      BY <2>4
    <2>7. mem'[s].rows[j] = IF j = i THEN row ELSE mem[s].rows[j]
      BY <1>4
    <2>8. row = [p \in PropsOf(g) |-> th[t].cells[p]]
      BY <2>3, <1>2, <1>5
    <2>9. QED
      BY <2>3, <2>5, <2>6, <2>7, <2>8, <1>5, <1>7, <1>10
  <1>11. QED
    BY <1>9, <1>10

LEMMA WriteWorks ==
  ASSUME PageInv, OwnInv, ValueInv, Alive, NEW t \in Threads, Write(t)
  PROVE  Current' /\ InWork'
  <1>1. /\ Busy(th[t]) /\ th[t].pc = "write"
        /\ th'[t] = IF th[t].todo = {Fam(t)} THEN Idle
                    ELSE [th[t] EXCEPT !.pc = "find", !.todo = th[t].todo \ {Fam(t)}]
        /\ \A u \in Threads : u # t => th'[u] = th[u]
        /\ UNCHANGED <<hist, strs, newest>>
    BY WriteDoes DEF ValueInv
  <1>2. PICK l \in Labels, v \in Nat, f \in Families :
          l = th[t].label /\ v = th[t].vertex /\ f = Fam(t)
    <2>1. th[t].label \in Labels /\ th[t].vertex \in Nat
      BY <1>1, VertexStoreAssumption DEF Busy
    <2>2. QED
      BY <2>1, <1>1, ColumnOf
  <1>3. f \in th[t].todo
    BY <1>1, <1>2, ColumnOf
  <1>4. PICK cells : cells = th[t].cells
    OBVIOUS
  <1>5. \/ th'[t] = Idle /\ th[t].todo = {f}
        \/ /\ th'[t].pc = "find" /\ th'[t].label = l /\ th'[t].vertex = v
           /\ th'[t].todo = th[t].todo \ {f} /\ th'[t].cells = cells
    BY <1>1, <1>2, <1>4 DEF Busy
  <1>6. PICK row : row = [p \in PropsOf(f) |-> cells[p]]
    OBVIOUS
  <1>7. PICK st, old : st = strs /\ old = LastRow(l, v)
    OBVIOUS
  <1>8. Shows(st, row, f, old)
    <2>1. Shows(st, cells, f, old)
      BY <1>1, <1>2, <1>3, <1>4, <1>7 DEF ValueInv, InWork
    <2>2. QED
      BY <2>1, <1>6 DEF Shows
  <1>9. newest[Column(l, f, v)] # 0
    <2>1. Col(t) = Column(l, f, v)
      BY <1>2 DEF Col
    <2>2. th[t].page \in DOMAIN mem /\ 0 \notin DOMAIN mem
      BY <1>1 DEF PageInv, PageTypes, InHand
    <2>3. QED
      BY <2>1, <2>2, <1>1 DEF ValueInv, Heads
  <1>10. ASSUME NEW m \in Labels, NEW g \in Families, NEW w \in 0 .. (Len(hist[m]) - 1)
         PROVE  (Pending(m, w, g) \/ Written(m, w, g))'
    <2>1. LastRow(m, w)' = LastRow(m, w)
      BY <1>1 DEF LastRow
    <2>2. w \in 0 .. (MaxVertices - 1)
      <3>1. PICK n \in Nat : n = Len(hist[m])
        BY DEF PageInv, HistoryType
      <3>2. n <= MaxVertices
        BY <3>1 DEF ValueInv, Logged
      <3>3. QED
        BY <3>1, <3>2, VertexStoreAssumption
    <2>3. PICK c, k : c = Column(m, g, w) /\ k = newest[c]
      OBVIOUS
    <2>4. ASSUME k # 0, Shows(strs, mem'[k].rows[w % PageSize], g, LastRow(m, w))
          PROVE  Written(m, w, g)'
      <3>1. newest'[c] = k /\ strs' = strs
        BY <2>3, <1>1
      <3>2. Shows(strs', mem'[newest'[c]].rows[w % PageSize], g, LastRow(m, w)')
        BY <2>1, <2>4, <3>1
      <3>3. QED
        BY <2>3, <2>4, <3>1, <3>2 DEF Written, CellsAt
    <2>5. CASE m = l /\ w = v /\ g = f
      <3>1. mem'[k].rows[w % PageSize] = row
        BY <2>2, <2>3, <2>5, <1>2, <1>4, <1>6, <1>9, RowsAfterWrite
      <3>2. Written(m, w, g)'
        BY <2>3, <2>4, <2>5, <3>1, <1>7, <1>8, <1>9
      <3>3. QED
        BY <3>2
    <2>6. CASE ~(m = l /\ w = v /\ g = f) /\ Pending(m, w, g)
      <3>1. PICK u \in Threads : th[u].pc # "idle" /\ th[u].label = m /\ th[u].vertex = w
                                 /\ g \in th[u].todo
        BY <2>6 DEF Pending
      <3>2. th'[u].pc # "idle" /\ th'[u].label = m /\ th'[u].vertex = w /\ g \in th'[u].todo
        <4>1. CASE u # t
          BY <3>1, <4>1, <1>1
        <4>2. CASE u = t
          <5>1. g # f /\ m = l /\ w = v /\ g \in th[t].todo
            BY <2>6, <3>1, <4>2, <1>2
          <5>2. QED
            BY <5>1, <4>2, <1>5
        <4>3. QED
          BY <4>1, <4>2
      <3>3. Pending(m, w, g)'
        BY <3>2 DEF Pending
      <3>4. QED
        BY <3>3
    <2>7. CASE ~(m = l /\ w = v /\ g = f) /\ Written(m, w, g)
      <3>1. k # 0 /\ Shows(strs, mem[k].rows[w % PageSize], g, LastRow(m, w))
        BY <2>3, <2>7 DEF Written, CellsAt
      <3>2. mem'[k].rows[w % PageSize] = mem[k].rows[w % PageSize]
        <4>1. newest[Column(m, g, w)] = k /\ newest[Column(m, g, w)] # 0
          BY <2>3, <3>1
        <4>2. ~(m = th[t].label /\ w = th[t].vertex /\ g = Fam(t))
          BY <2>7, <1>2
        <4>3. mem'[newest[Column(m, g, w)]].rows[w % PageSize] =
                mem[newest[Column(m, g, w)]].rows[w % PageSize]
          <5>1. mem'[newest[Column(m, g, w)]].rows[w % PageSize] =
                  IF m = th[t].label /\ w = th[t].vertex /\ g = Fam(t)
                  THEN [p \in PropsOf(g) |-> th[t].cells[p]]
                  ELSE mem[newest[Column(m, g, w)]].rows[w % PageSize]
            BY <2>2, <4>1, RowsAfterWrite
          <5>2. QED
            BY ONLY <4>2, <5>1
        <4>4. QED
          BY <4>1, <4>3
      <3>3. Written(m, w, g)'
        BY <2>4, <3>1, <3>2
      <3>4. QED
        BY <3>3
    <2>8. Pending(m, w, g) \/ Written(m, w, g)
      BY DEF ValueInv, Current
    <2>9. QED
      BY <2>5, <2>6, <2>7, <2>8
  <1>11. Current'
    BY <1>1, <1>10 DEF Current
  <1>12. ASSUME NEW u \in Threads, th'[u].pc # "idle"
         PROVE  /\ th'[u].vertex < Len(hist'[th'[u].label])
                /\ \A g \in th'[u].todo :
                     Shows(strs', th'[u].cells, g, LastRow(th[u].label, th[u].vertex)')
    <2>1. /\ th[u].pc # "idle" /\ th'[u].vertex = th[u].vertex /\ th'[u].label = th[u].label
          /\ th'[u].cells = th[u].cells /\ th'[u].todo \subseteq th[u].todo
      <3>1. CASE u # t
        BY <3>1, <1>1, <1>12
      <3>2. CASE u = t
        BY <3>2, <1>1, <1>2, <1>4, <1>5, <1>12 DEF Idle
      <3>3. QED
        BY <3>1, <3>2
    <2>2. PICK m, w : m = th[u].label /\ w = th[u].vertex
      OBVIOUS
    <2>3. LastRow(m, w)' = LastRow(m, w)
      BY <1>1 DEF LastRow
    <2>4. LastRow(th[u].label, th[u].vertex)' = LastRow(m, w)'
      BY <2>1, <2>2 DEF LastRow
    <2>5. /\ w < Len(hist[m])
          /\ \A g \in th[u].todo : Shows(strs, th[u].cells, g, LastRow(m, w))
      BY <2>1, <2>2 DEF ValueInv, InWork
    <2>6. QED
      BY <2>1, <2>2, <2>3, <2>4, <2>5, <1>1
  <1>13. InWork'
    <2>1. ASSUME NEW u \in Threads, th'[u].pc # "idle"
          PROVE  /\ th'[u].vertex < Len(hist'[th'[u].label])
                 /\ \A g \in th'[u].todo :
                      Shows(strs', th'[u].cells, g, LastRow(th[u].label, th[u].vertex)')
      BY <2>1, <1>12
    <2>2. QED
      BY <2>1 DEF InWork
  <1>14. QED
    BY <1>11, <1>13

LEMMA WriteValues ==
  ASSUME MapInv, PageInv, OwnInv, ValueInv, Piled, Piled', Frozen,
         NEW t \in Threads, Write(t)
  PROVE  ValueInv'
  <1>1. PICK s, i : s = th[t].page /\ i = th[t].vertex % PageSize
    OBVIOUS
  <1>2. PICK row : row = [p \in PropsOf(Fam(t)) |-> th[t].cells[p]]
    OBVIOUS
  <1>3. /\ Busy(th[t]) /\ th[t].pc = "write"
        /\ s \in DOMAIN mem /\ DOMAIN mem' = DOMAIN mem
        /\ \A x \in DOMAIN mem :
             /\ x # s => mem'[x] = mem[x]
             /\ mem'[x].ver = mem[x].ver /\ mem'[x].prev = mem[x].prev
        /\ mem'[s].rows = [j \in 0 .. PageSize - 1 |-> IF j = i THEN row ELSE mem[s].rows[j]]
        /\ th'[t] = IF th[t].todo = {Fam(t)} THEN Idle
                    ELSE [th[t] EXCEPT !.pc = "find", !.todo = th[t].todo \ {Fam(t)}]
        /\ \A u \in Threads : u # t => th'[u] = th[u]
        /\ UNCHANGED <<epoch, hist, ext, strs, pubs, header, newest>>
    <2>1. RowsShaped
      BY DEF ValueInv
    <2>2. QED
      BY <1>1, <1>2, <2>1, WriteDoes
  <1>4. th'[t].pc = "idle" \/ th'[t].pc = "find"
    BY <1>3 DEF Busy, Idle
  <1>5. Logged' /\ ExtIds'
    BY <1>3 DEF ValueInv, Logged, ExtIds
  <1>6. RowsShaped'
    <2>1. ASSUME NEW x \in DOMAIN mem, x # s
          PROVE  mem'[x].rows = [j \in 0 .. PageSize - 1 |-> mem'[x].rows[j]]
      BY <1>3, <2>1 DEF ValueInv, RowsShaped
    <2>2. mem'[s].rows = [j \in 0 .. PageSize - 1 |-> mem'[s].rows[j]]
      <3>1. PICK old, new : old = mem[s].rows /\ new = mem'[s].rows
        OBVIOUS
      <3>2. new = [j \in 0 .. PageSize - 1 |-> IF j = i THEN row ELSE old[j]]
        BY <1>3, <3>1
      <3>3. new = [j \in 0 .. PageSize - 1 |-> new[j]]
        BY <3>2
      <3>4. QED
        BY <3>1, <3>3
    <2>3. QED
      BY <1>3, <2>1, <2>2 DEF RowsShaped
  <1>7. Heads'
    <2>1. ASSUME NEW c \in Columns, newest'[c] # 0
          PROVE  header'[c] = newest'[c] /\ mem'[newest'[c]].ver \in Nat
      <3>1. newest[c] \in DOMAIN mem /\ newest'[c] = newest[c]
        BY <2>1, <1>3 DEF PageInv, PageTypes
      <3>2. QED
        BY <2>1, <3>1, <1>3 DEF ValueInv, Heads
    <2>2. ASSUME NEW u \in Threads, th'[u].pc \in {"stamp", "write"}
          PROVE  th'[u] = th[u] /\ Col(u)' = Col(u)
      <3>1. u # t
        BY <1>4, <2>2
      <3>2. th'[u] = th[u]
        BY <1>3, <3>1
      <3>3. QED
        BY <3>2 DEF Col, Fam, Column
    <2>3. ASSUME NEW u \in Threads, th'[u].pc = "stamp"
          PROVE  newest'[Col(u)'] = 0 /\ header'[Col(u)'] = th'[u].page
      <3>1. th'[u] = th[u] /\ Col(u)' = Col(u)
        BY <2>2, <2>3
      <3>2. QED
        BY <2>3, <3>1, <1>3 DEF ValueInv, Heads
    <2>4. ASSUME NEW u \in Threads, th'[u].pc = "write"
          PROVE  th'[u].page = newest'[Col(u)']
      <3>1. th'[u] = th[u] /\ Col(u)' = Col(u)
        BY <2>2, <2>4
      <3>2. QED
        BY <2>4, <3>1, <1>3 DEF ValueInv, Heads
    <2>5. QED
      BY <2>1, <2>3, <2>4 DEF Heads
  <1>8. Alive' => Current' /\ InWork'
    <2>1. Alive' => Alive
      BY <1>3 DEF Alive
    <2>2. QED
      BY <2>1, WriteWorks
  <1>9. Served'
    <2>1. HistGrows
      BY <1>3 DEF HistGrows
    <2>2. StrsGrow
      <3>1. strs \in Seq(Int)
        BY DEF ValueInv, ExtIds
      <3>2. << >> \in Seq(Int) /\ strs \o << >> = strs
        BY <3>1
      <3>3. QED
        BY <1>3, <3>2 DEF StrsGrow
    <2>3. VisibleKept
      BY <1>3, VisibleKeptStill DEF ValueInv
    <2>4. QED
      BY <1>3, <2>1, <2>2, <2>3, ServedKept DEF ValueInv
  <1>10. QED
    BY <1>5, <1>6, <1>7, <1>8, <1>9 DEF ValueInv

(* What the last log about a vertex says is what the epoch that ends knows. *)
LEMMA FoundByLast ==
  ASSUME MapInv, PageInv, OwnInv, ValueInv, Piled, Alone, NEW l \in Labels, NEW f \in Families,
         NEW v \in 0 .. (Len(hist[l]) - 1)
  PROVE  FoundBy(epoch, l, v, f)
  <1>1. v \in 0 .. (MaxVertices - 1) /\ v + 1 \in DOMAIN hist[l]
        /\ hist[l][v + 1] \in Seq(LogType)
    <2>1. hist[l] \in Seq(Seq(LogType))
      BY DEF PageInv, HistoryType, LogType
    <2>2. PICK n \in Nat : n = Len(hist[l])
      BY <2>1
    <2>3. n <= MaxVertices
      BY <2>2 DEF ValueInv, Logged
    <2>4. v \in 0 .. (MaxVertices - 1) /\ v + 1 \in 1 .. n
      BY <2>2, <2>3, VertexStoreAssumption
    <2>5. QED
      BY <2>1, <2>2, <2>4
  <1>2. epoch \in Nat
    BY VertexStoreAssumption DEF PageInv, PageTypes
  <1>3. PICK c \in Columns : c = Column(l, f, v)
    BY <1>1, ColumnIs
  <1>4. Written(l, v, f)
    <2>1. Alive
      BY DEF Alone, Alive
    <2>2. ~Pending(l, v, f)
      BY DEF Alone, Pending
    <2>3. QED
      BY <2>1, <2>2 DEF ValueInv, Current
  <1>5. PICK s \in DOMAIN mem : s = newest[c] /\ s # 0
    BY <1>3, <1>4 DEF Written, PageInv, PageTypes
  <1>6. header[c] = s /\ mem[s].ver \in 0 .. epoch
    <2>1. header[c] = s /\ mem[s].ver \in Nat
      BY <1>5 DEF ValueInv, Heads
    <2>2. mem[s].ver \in {Fresh} \cup 0 .. epoch
      BY DEF PageInv, PageTypes
    <2>3. QED
      BY <2>1, <2>2, <1>2 DEF Fresh
  <1>7. VisiblePage(c, epoch) = s
    <2>1. Walk(mem, epoch)[s] = IF mem[s].ver <= epoch THEN s
                                ELSE Walk(mem, epoch)[mem[s].prev]
      BY WalkFacts DEF Piled
    <2>2. QED
      BY <2>1, <1>2, <1>6, VisibleIsWalk
  <1>8. PICK logs \in Seq(LogType), k \in Nat : logs = hist[l][v + 1] /\ k = Len(logs)
    BY <1>1
  <1>9. k > 0 /\ \A i \in DOMAIN logs : logs[i].epoch <= epoch
    BY <1>1, <1>8 DEF ValueInv, Logged
  <1>10. k \in DOMAIN logs /\ \A j \in DOMAIN logs : ~(j > k)
    BY <1>8, <1>9
  <1>11. LastSeen(logs, epoch, k)
    BY <1>9, <1>10 DEF LastSeen
  <1>12. Shows(strs, CellsAt(s, v), f, logs[k].row)
    BY <1>3, <1>4, <1>5, <1>8 DEF Written, LastRow
  <1>13. QED
    BY <1>3, <1>5, <1>6, <1>7, <1>8, <1>10, <1>11, <1>12 DEF FoundBy

LEMMA PublishValues ==
  ASSUME MapInv, PageInv, OwnInv, ValueInv, Piled, Publish
  PROVE  ValueInv'
  <1>1. /\ Alone /\ epoch' = epoch + 1
        /\ pubs' = Append(pubs, [max |-> [l \in Labels |-> Len(hist[l])], vmap |-> vmap])
        /\ UNCHANGED <<hist, ext, strs, mem, header, newest, th>>
    BY DEF Publish, ids, pages
  <1>2. epoch \in Nat /\ pubs \in Seq(PubType) /\ Len(pubs) = epoch
    BY VertexStoreAssumption DEF PageInv, PageTypes
  <1>3. Logged'
    <2>1. ASSUME NEW l \in Labels, NEW v \in DOMAIN hist[l], NEW i \in DOMAIN hist[l][v]
          PROVE  hist[l][v][i].epoch <= epoch + 1
      <3>1. hist[l][v][i].epoch \in Nat
        <4>1. hist[l] \in Seq(Seq(LogType))
          BY DEF PageInv, HistoryType, LogType
        <4>2. PICK h \in Seq(Seq(LogType)) : h = hist[l]
          BY <4>1
        <4>3. v \in DOMAIN h /\ h[v] \in Seq(LogType) /\ i \in DOMAIN h[v]
          BY <4>2
        <4>4. h[v][i] \in LogType
          BY <4>3
        <4>5. QED
          BY <4>2, <4>4 DEF LogType
      <3>2. hist[l][v][i].epoch <= epoch
        BY DEF ValueInv, Logged
      <3>3. QED
        BY <3>1, <3>2, <1>2
    <2>2. QED
      BY <1>1, <2>1 DEF ValueInv, Logged
  <1>4. ExtIds' /\ RowsShaped'
    BY <1>1 DEF ValueInv, ExtIds, RowsShaped
  <1>5. \A t \in Threads : Col(t)' = Col(t)
    BY <1>1 DEF Col, Fam, Column
  <1>6. Heads'
    BY <1>1, <1>5 DEF ValueInv, Heads
  <1>7. Current' /\ InWork'
    <2>1. SameWork /\ SameRows
      BY <1>1 DEF SameWork, SameRows
    <2>2. Alive
      BY <1>1 DEF Alone, Alive
    <2>3. QED
      BY <1>1, <2>1, <2>2, WorksKept DEF ValueInv
  <1>8. ASSUME NEW r, NEW l, NEW f, NEW v, FoundBy(r, l, v, f)
        PROVE  FoundBy(r, l, v, f)'
    <2>1. VisiblePage(Column(l, f, v), r)' = VisiblePage(Column(l, f, v), r)
      BY <1>1 DEF VisiblePage
    <2>2. \A s : CellsAt(s, v)' = CellsAt(s, v)
      BY <1>1 DEF CellsAt
    <2>3. QED
      BY <1>1, <1>8, <2>1, <2>2 DEF FoundBy, CellsAt
  <1>9. Served'
    <2>1. SUFFICES ASSUME NEW r \in 0 .. epoch, NEW l \in Labels, NEW f \in Families,
                          NEW v \in 0 .. (pubs'[r + 1].max[l] - 1)
                   PROVE  FoundBy(r, l, v, f)
      <3>1. epoch' - 1 = epoch
        BY <1>1, <1>2
      <3>2. QED
        BY <3>1, <1>8 DEF Served
    <2>2. CASE r = epoch
      <3>1. pubs'[epoch + 1] = [max |-> [m \in Labels |-> Len(hist[m])], vmap |-> vmap]
        BY <1>1, <1>2
      <3>2. pubs'[r + 1].max[l] = Len(hist[l])
        BY <2>2, <3>1
      <3>3. v \in 0 .. (Len(hist[l]) - 1)
        BY <3>2
      <3>4. QED
        BY <2>2, <3>3, <1>1, FoundByLast
    <2>3. CASE r # epoch
      <3>1. r \in 0 .. (epoch - 1) /\ r + 1 \in 1 .. Len(pubs)
        BY <2>3, <1>2
      <3>2. pubs'[r + 1] = pubs[r + 1]
        BY <3>1, <1>1, <1>2
      <3>3. v \in 0 .. (pubs[r + 1].max[l] - 1)
        BY <3>2
      <3>4. QED
        BY <3>1, <3>3 DEF ValueInv, Served
    <2>4. QED
      BY <2>2, <2>3
  <1>10. QED
    BY <1>3, <1>4, <1>6, <1>7, <1>9 DEF ValueInv

(* A log about a vertex, of which a thread has some families to write: the  *)
(* others are in the newest pages already.                                  *)
NextLogs(l, v) ==
  /\ Logged' /\ ExtIds' /\ HistGrows
  /\ \A m \in Labels :
       /\ Len(hist[m]) \in Nat /\ Len(hist'[m]) \in Nat /\ Len(hist[m]) <= Len(hist'[m])
       /\ \A w \in 0 .. (Len(hist'[m]) - 1) :
            \/ m = l /\ w = v
            \/ w \in 0 .. (Len(hist[m]) - 1) /\ hist'[m][w + 1] = hist[m][w + 1]
  /\ v \in 0 .. (Len(hist'[l]) - 1)
  /\ UNCHANGED <<epoch, pubs, mem, header, newest>>

Begins(t, l, v, row, cells, fams) ==
  /\ fams \subseteq Families
  /\ th[t] = Idle
  /\ \A u \in Threads : u # t => th'[u] = th[u]
  /\ fams = {} => th'[t] = Idle
  /\ fams # {} => /\ th'[t].pc = "find" /\ th'[t].label = l /\ th'[t].vertex = v
                  /\ th'[t].todo = fams /\ th'[t].cells = cells
  /\ hist'[l][v + 1][Len(hist'[l][v + 1])].row = row
  /\ \A f \in fams : Shows(strs', cells, f, row)
  /\ \A f \in Families \ fams :
       /\ newest[Column(l, f, v)] # 0
       /\ Shows(strs', CellsAt(newest[Column(l, f, v)], v), f, row)
  /\ Alive => \A u \in Threads :
       u # t /\ th[u].pc # "idle" => ~(th[u].label = l /\ th[u].vertex = v)

LEMMA LogTaken ==
  ASSUME MapInv, PageInv, OwnInv, ValueInv, Piled, Piled', StrsGrow,
         NEW t \in Threads, NEW l \in Labels, NEW v, NEW row, NEW cells, NEW fams,
         NextLogs(l, v), Begins(t, l, v, row, cells, fams)
  PROVE  ValueInv'
  <1>a. PICK a \in Seq(Int) : strs' = strs \o a
    BY DEF StrsGrow
  <1>b. /\ fams \subseteq Families
        /\ th[t] = Idle
        /\ \A u \in Threads : u # t => th'[u] = th[u]
        /\ fams = {} => th'[t] = Idle
        /\ fams # {} => /\ th'[t].pc = "find" /\ th'[t].label = l /\ th'[t].vertex = v
                        /\ th'[t].todo = fams /\ th'[t].cells = cells
        /\ LastRow(l, v)' = row
        /\ \A f \in fams : Shows(strs', cells, f, row)
        /\ \A f \in Families \ fams :
             /\ newest[Column(l, f, v)] # 0
             /\ Shows(strs', CellsAt(newest[Column(l, f, v)], v), f, row)
        /\ Alive => \A u \in Threads :
             u # t /\ th[u].pc # "idle" => ~(th[u].label = l /\ th[u].vertex = v)
    BY DEF Begins, LastRow
  <1>c. /\ Logged' /\ ExtIds' /\ HistGrows
        /\ \A m \in Labels : /\ Len(hist[m]) \in Nat /\ Len(hist'[m]) \in Nat
                             /\ Len(hist[m]) <= Len(hist'[m])
        /\ \A m \in Labels : \A w \in 0 .. (Len(hist'[m]) - 1) :
             \/ m = l /\ w = v
             \/ w \in 0 .. (Len(hist[m]) - 1) /\ hist'[m][w + 1] = hist[m][w + 1]
        /\ v \in 0 .. (Len(hist'[l]) - 1)
        /\ UNCHANGED <<epoch, pubs, mem, header, newest>>
    BY DEF NextLogs
  <1> USE <1>a, <1>b, <1>c
  <1>1. th[t].pc = "idle" /\ (th'[t].pc = "idle" \/ th'[t].pc = "find")
    BY DEF Idle
  <1>2. RowsShaped'
    BY DEF ValueInv, RowsShaped
  <1>3. Heads'
    <2>1. ASSUME NEW u \in Threads, th'[u].pc \in {"stamp", "write"}
          PROVE  th'[u] = th[u] /\ Col(u)' = Col(u)
      <3>1. u # t
        BY <1>1, <2>1
      <3>2. th'[u] = th[u]
        BY <3>1
      <3>3. QED
        BY <3>2 DEF Col, Fam, Column
    <2>2. ASSUME NEW u \in Threads, th'[u].pc = "stamp"
          PROVE  newest'[Col(u)'] = 0 /\ header'[Col(u)'] = th'[u].page
      <3>1. th'[u] = th[u] /\ Col(u)' = Col(u)
        BY <2>1, <2>2
      <3>2. QED
        BY <2>2, <3>1 DEF ValueInv, Heads
    <2>3. ASSUME NEW u \in Threads, th'[u].pc = "write"
          PROVE  th'[u].page = newest'[Col(u)']
      <3>1. th'[u] = th[u] /\ Col(u)' = Col(u)
        BY <2>1, <2>3
      <3>2. QED
        BY <2>3, <3>1 DEF ValueInv, Heads
    <2>4. \A c \in Columns :
            newest'[c] # 0 => header'[c] = newest'[c] /\ mem'[newest'[c]].ver \in Nat
      BY DEF ValueInv, Heads
    <2>5. QED
      BY <2>2, <2>3, <2>4 DEF Heads
  <1>4. Served'
    <2>1. VisibleKept
      BY VisibleKeptStill DEF ValueInv
    <2>2. Frozen /\ StrsGrow
      BY DEF Frozen, StrsGrow
    <2>3. QED
      BY <2>1, <2>2, ServedKept DEF ValueInv
  <1>5. ASSUME NEW c, NEW f, NEW x, Shows(strs, c, f, x)
        PROVE  Shows(strs', c, f, x)
    <2>1. PICK st \in Seq(Int) : st = strs
      BY DEF ValueInv, ExtIds
    <2>2. Shows(st \o a, c, f, x)
      BY <1>5, <2>1, ShowsStays
    <2>3. QED
      BY <2>1, <2>2
  <1>6. ASSUME NEW m \in Labels, NEW w \in 0 .. (Len(hist'[m]) - 1), ~(m = l /\ w = v)
        PROVE  w \in 0 .. (Len(hist[m]) - 1) /\ LastRow(m, w)' = LastRow(m, w)
    <2>1. w \in 0 .. (Len(hist[m]) - 1) /\ hist'[m][w + 1] = hist[m][w + 1]
      BY <1>6
    <2>2. QED
      BY <2>1 DEF LastRow
  <1>7. ASSUME NEW m \in Labels, NEW g \in Families, NEW w \in 0 .. (Len(hist'[m]) - 1), Alive
        PROVE  (Pending(m, w, g) \/ Written(m, w, g))'
    <2>1. CASE m = l /\ w = v /\ g \in fams
      <3>1. th'[t].pc # "idle" /\ th'[t].label = m /\ th'[t].vertex = w /\ g \in th'[t].todo
        BY <2>1
      <3>2. Pending(m, w, g)'
        BY <3>1 DEF Pending
      <3>3. QED
        BY <3>2
    <2>2. CASE m = l /\ w = v /\ g \notin fams
      <3>1. PICK k : k = newest[Column(l, g, v)]
        OBVIOUS
      <3>2. k # 0 /\ Shows(strs', mem[k].rows[v % PageSize], g, row)
        BY <2>2, <3>1 DEF CellsAt
      <3>3. newest'[Column(m, g, w)] = k /\ mem' = mem /\ LastRow(m, w)' = row
        BY <2>2, <3>1
      <3>4. Written(m, w, g)'
        BY <2>2, <3>2, <3>3 DEF Written, CellsAt
      <3>5. QED
        BY <3>4
    <2>3. CASE ~(m = l /\ w = v)
      <3>1. w \in 0 .. (Len(hist[m]) - 1) /\ LastRow(m, w)' = LastRow(m, w)
        BY <1>6, <2>3
      <3>2. CASE Pending(m, w, g)
        <4>1. PICK u \in Threads : th[u].pc # "idle" /\ th[u].label = m /\ th[u].vertex = w
                                   /\ g \in th[u].todo
          BY <3>2 DEF Pending
        <4>2. th'[u] = th[u]
          BY <4>1, <1>1
        <4>3. Pending(m, w, g)'
          BY <4>1, <4>2 DEF Pending
        <4>4. QED
          BY <4>3
      <3>3. CASE Written(m, w, g)
        <4>1. PICK k : k = newest[Column(m, g, w)]
          OBVIOUS
        <4>2. k # 0 /\ Shows(strs, mem[k].rows[w % PageSize], g, LastRow(m, w))
          BY <3>3, <4>1 DEF Written, CellsAt
        <4>3. Shows(strs', mem[k].rows[w % PageSize], g, LastRow(m, w))
          BY <4>2, <1>5
        <4>4. newest'[Column(m, g, w)] = k /\ mem' = mem
          BY <4>1
        <4>5. Written(m, w, g)'
          BY <3>1, <4>2, <4>3, <4>4 DEF Written, CellsAt
        <4>6. QED
          BY <4>5
      <3>4. Pending(m, w, g) \/ Written(m, w, g)
        BY <3>1, <1>7 DEF ValueInv, Current
      <3>5. QED
        BY <3>2, <3>3, <3>4
    <2>4. QED
      BY <2>1, <2>2, <2>3
  <1>8. Alive => Current'
    <2>1. Alive => \A m \in Labels, g \in Families : \A w \in 0 .. (Len(hist'[m]) - 1) :
            (Pending(m, w, g) \/ Written(m, w, g))'
      BY <1>7
    <2>2. QED
      BY <2>1 DEF Current
  <1>9. ASSUME NEW u \in Threads, th'[u].pc # "idle", Alive
        PROVE  /\ th'[u].vertex < Len(hist'[th'[u].label])
               /\ \A g \in th'[u].todo :
                    Shows(strs', th'[u].cells, g, LastRow(th[u].label, th[u].vertex)')
    <2>1. CASE u = t
      <3>1. /\ th'[u].vertex = v /\ th'[u].label = l /\ th'[u].todo = fams /\ th'[u].cells = cells
        BY <2>1, <1>9 DEF Idle
      <3>2. LastRow(th[u].label, th[u].vertex)' = LastRow(l, v)'
        BY <3>1 DEF LastRow
      <3>3. v < Len(hist'[l])
        OBVIOUS
      <3>4. QED
        BY <3>1, <3>2, <3>3
    <2>2. CASE u # t
      <3>1. th'[u] = th[u] /\ th[u].pc # "idle"
        BY <2>2, <1>9
      <3>2. th[u].label \in Labels /\ th[u].vertex \in Nat
        <4>1. th[u] # Idle /\ ~Dead(th[u])
          BY <3>1, <1>9 DEF Idle, Alive, Dead
        <4>2. Busy(th[u])
          BY <4>1 DEF PageInv, ThreadsOK
        <4>3. QED
          BY <4>2, VertexStoreAssumption, SMTT(30) DEF Busy
      <3>3. PICK m \in Labels, w \in Nat : m = th[u].label /\ w = th[u].vertex
        BY <3>2
      <3>4. /\ w < Len(hist[m])
            /\ \A g \in th[u].todo : Shows(strs, th[u].cells, g, LastRow(m, w))
        BY <3>1, <3>3, <1>9 DEF ValueInv, InWork
      <3>5. w < Len(hist'[m]) /\ w \in 0 .. (Len(hist'[m]) - 1)
        BY <3>4
      <3>6. ~(m = l /\ w = v)
        BY <2>2, <3>1, <3>3, <1>9
      <3>7. LastRow(m, w)' = LastRow(m, w)
        BY <3>5, <3>6, <1>6
      <3>8. LastRow(th[u].label, th[u].vertex)' = LastRow(m, w)'
        BY <3>1, <3>3 DEF LastRow
      <3>9. \A g \in th[u].todo : Shows(strs', th[u].cells, g, LastRow(m, w))
        BY <3>4, <1>5
      <3>10. QED
        BY <3>1, <3>3, <3>5, <3>7, <3>8, <3>9
    <2>3. QED
      BY <2>1, <2>2
  <1>10. ASSUME Alive PROVE InWork'
    <2>1. ASSUME NEW u \in Threads, th'[u].pc # "idle"
          PROVE  /\ th'[u].vertex < Len(hist'[th'[u].label])
                 /\ \A g \in th'[u].todo :
                      Shows(strs', th'[u].cells, g, LastRow(th[u].label, th[u].vertex)')
      BY <2>1, <1>9, <1>10
    <2>2. QED
      BY <2>1 DEF InWork
  <1>11. Alive' => Alive
    <2>1. \A u \in Threads : th[u].pc = "dead" => u # t /\ th'[u] = th[u]
      BY <1>1
    <2>2. QED
      BY <2>1 DEF Alive
  <1>12. QED
    BY <1>2, <1>3, <1>4, <1>8, <1>10, <1>11 DEF ValueInv

(* A log that takes the process with it leaves the epochs that are out.     *)
LEMMA LogLost ==
  ASSUME MapInv, PageInv, OwnInv, ValueInv, Piled, Piled', StrsGrow,
         NEW l \in Labels, NEW v, NextLogs(l, v), th' = Gone
  PROVE  ValueInv'
  <1>1. ~Alive' /\ \A u \in Threads : th'[u].pc = "dead"
    BY AllGone
  <1>2. Logged' /\ ExtIds' /\ HistGrows /\ UNCHANGED <<epoch, pubs, mem, header, newest>>
    BY DEF NextLogs
  <1>3. RowsShaped' /\ Heads'
    BY <1>1, <1>2 DEF ValueInv, RowsShaped, Heads
  <1>4. Served'
    <2>1. VisibleKept
      BY <1>2, VisibleKeptStill DEF ValueInv
    <2>2. Frozen
      BY <1>2 DEF Frozen
    <2>3. QED
      BY <1>2, <2>1, <2>2, ServedKept DEF ValueInv
  <1>5. QED
    BY <1>1, <1>2, <1>3, <1>4 DEF ValueInv

LEMMA ConcatFacts ==
  ASSUME NEW st \in Seq(Int), NEW a \in Seq(Int)
  PROVE  /\ st \o a \in Seq(Int)
         /\ Len(st \o a) = Len(st) + Len(a)
         /\ DOMAIN (st \o a) = 1 .. (Len(st) + Len(a))
         /\ \A i \in DOMAIN st : i \in DOMAIN (st \o a) /\ (st \o a)[i] = st[i]
         /\ \A i \in 1 .. Len(a) : /\ Len(st) + i \in DOMAIN (st \o a)
                                   /\ (st \o a)[Len(st) + i] = a[i]
  OBVIOUS

(* Strings that are put get a key each, which names them or junk, for as    *)
(* long as strings are put.                                                 *)
LEMMA PutNames ==
  ASSUME strs \in Seq(Int), NEW a \in Seq(Int), strs' = strs \o a
  PROVE  /\ strs' \in Seq(Int)
         /\ \A key, x : Names(strs, key, x) => Names(strs', key, x)
         /\ \A i \in 1 .. Len(a) : Names(strs', KeyOf(i), Kept(i, a[i]))
         /\ \A i \in Int : KeyOf(i) \in Int
  <1>1. PICK st \in Seq(Int) : st = strs
    OBVIOUS
  <1>2. st \o a = strs'
    BY <1>1
  <1>3. /\ st \o a \in Seq(Int)
        /\ \A i \in DOMAIN st : i \in DOMAIN (st \o a) /\ (st \o a)[i] = st[i]
        /\ \A i \in 1 .. Len(a) : /\ Len(st) + i \in DOMAIN (st \o a)
                                  /\ (st \o a)[Len(st) + i] = a[i]
    BY ConcatFacts
  <1>4. Len(st) \in Nat
    OBVIOUS
  <1>5. \A i : KeyOf(i) = IF Fits(i) THEN Len(st) + i ELSE NoKey
    BY <1>1 DEF KeyOf
  <1>6. \A i \in Int : KeyOf(i) \in Int
    BY <1>4, <1>5 DEF NoKey
  <1>7. ASSUME NEW i \in 1 .. Len(a) PROVE Names(strs', KeyOf(i), Kept(i, a[i]))
    <2>1. CASE Fits(i)
      BY <2>1, <1>2, <1>3, <1>5 DEF Names, Kept
    <2>2. CASE ~Fits(i)
      BY <2>2, <1>5 DEF Names, Kept
    <2>3. QED
      BY <2>1, <2>2
  <1>8. ASSUME NEW key, NEW x, Names(strs, key, x) PROVE Names(strs', key, x)
    BY <1>1, <1>2, <1>3, <1>8 DEF Names
  <1>9. QED
    BY <1>2, <1>3, <1>6, <1>7, <1>8

(* The strings of a row that insert_inner_vertex puts, each at its place.   *)
LEMMA RowStrings ==
  ASSUME NEW row \in Rows, NEW n \in {0, 1}, NEW x \in Int
  PROVE  LET a == [i \in 1 .. n |-> x] \o [i \in DOMAIN StringProps |-> row[StringProps[i]]] IN
         /\ a \in Seq(Int)
         /\ n = 1 => 1 \in 1 .. Len(a) /\ a[1] = x
         /\ \A p \in Props : Index(p) # {} =>
              n + Place(p) \in 1 .. Len(a) /\ a[n + Place(p)] = row[p]
  <1>1. StringProps \in Seq(Props) /\ row \in [Props -> Nat]
    BY VertexStoreAssumption
  <1>2. PICK m \in Nat : DOMAIN StringProps = 1 .. m
    BY <1>1
  <1> DEFINE h == [i \in 1 .. n |-> x]
             b == [i \in 1 .. m |-> row[StringProps[i]]]
  <1>3. h \in Seq(Int) /\ Len(h) = n /\ (n = 1 => h[1] = x)
    OBVIOUS
  <1>4. \A i \in 1 .. m : row[StringProps[i]] \in Int
    BY <1>1, <1>2
  <1>5. b \in Seq(Int) /\ Len(b) = m /\ \A i \in 1 .. m : b[i] = row[StringProps[i]]
    <2>1. b \in [1 .. m -> Int]
      BY <1>4
    <2>2. QED
      BY <2>1
  <1>6. [i \in DOMAIN StringProps |-> row[StringProps[i]]] = b
    BY <1>2
  <1> HIDE DEF h, b
  <1>7. /\ h \o b \in Seq(Int) /\ Len(h \o b) = n + m
        /\ \A i \in DOMAIN h : (h \o b)[i] = h[i]
        /\ \A i \in 1 .. m : (h \o b)[n + i] = b[i]
    BY <1>3, <1>5, ConcatFacts
  <1>8. n = 1 => 1 \in 1 .. Len(h \o b) /\ (h \o b)[1] = x
    BY <1>3, <1>7
  <1>9. ASSUME NEW p \in Props, Index(p) # {}
        PROVE  n + Place(p) \in 1 .. Len(h \o b) /\ (h \o b)[n + Place(p)] = row[p]
    <2>1. Place(p) \in Index(p)
      BY <1>9 DEF Place
    <2>2. PICK i \in 1 .. m : i = Place(p) /\ StringProps[i] = p
      BY <2>1, <1>2 DEF Index
    <2>3. n + i \in 1 .. n + m /\ (h \o b)[n + i] = row[p]
      BY <2>2, <1>5, <1>7
    <2>4. QED
      BY <2>2, <2>3, <1>7
  <1>10. QED
    BY <1>6, <1>7, <1>8, <1>9 DEF h

(* A value that is stored in a cell is what the cell tells. *)
LEMMA CellTells ==
  ASSUME NEW st, NEW p, NEW x, NEW stored,
         x # Empty => IF Index(p) = {} THEN stored = x ELSE Names(st, stored, x)
  PROVE  Tells(st, Cell(x, stored), p, x)
  <1>1. Cell(x, stored).null = (x = Empty)
    BY DEF Cell
  <1>2. x # Empty => Cell(x, stored).val = stored
    BY DEF Cell
  <1>3. QED
    BY <1>1, <1>2 DEF Tells

LEMMA InsertValues ==
  ASSUME MapInv, PageInv, OwnInv, ValueInv, Piled, Piled', NEW t \in Threads,
         NEW l \in Labels, NEW row \in Rows, Insert(t, l, row)
  PROVE  ValueInv'
  <1>1. PICK k \in Nat : k = Len(hist[l])
    BY DEF PageInv, HistoryType
  <1>2. PICK n \in {0, 1} : n = IF l \in StringIds THEN 1 ELSE 0
    OBVIOUS
  <1>3. PICK a : a = [i \in 1 .. n |-> k + 1] \o
                     [i \in DOMAIN StringProps |-> row[StringProps[i]]]
    OBVIOUS
  <1>4. /\ a \in Seq(Int) /\ (n = 1 => 1 \in 1 .. Len(a) /\ a[1] = k + 1)
        /\ \A p \in Props : Index(p) # {} =>
             n + Place(p) \in 1 .. Len(a) /\ a[n + Place(p)] = row[p]
    <2>1. k + 1 \in Int
      OBVIOUS
    <2>2. QED
      BY <1>3, <2>1, RowStrings, ZenonT(40)
  <1> DEFINE id == IF l \in StringIds THEN Kept(1, k + 1) ELSE k + 1
  <1>5. PICK log : log = <<[epoch |-> epoch, row |-> row, id |-> id]>>
    OBVIOUS
  <1>6. /\ th[t].pc = "idle" /\ k + 1 <= MaxVertices
        /\ hist' = [hist EXCEPT ![l] = Append(@, log)]
        /\ ext' = [ext EXCEPT ![l] = Append(@, IF l \in StringIds THEN KeyOf(1) ELSE k + 1)]
        /\ strs' = strs \o a
        /\ UNCHANGED <<epoch, pubs, mem, header, newest>>
    BY <1>1, <1>2, <1>3, <1>5 DEF Insert, PutStrings, pages
  <1> DEFINE Stored(p) == IF Index(p) = {} THEN row[p] ELSE KeyOf(n + Place(p))
  <1>7. PICK cells : cells = [p \in Props |-> Cell(row[p], Stored(p))]
    OBVIOUS
  <1>8. IF StringProps # << >> /\ ~Fits(n + Len(StringProps)) THEN th' = Gone
        ELSE th' = Work(t, "insert", l, k, cells, Families)
    <2>1. th' = IF StringProps # << >> /\ ~Fits(n + Len(StringProps)) THEN Gone
                ELSE Work(t, "insert", l, k + 1 - 1, cells, Families)
      BY <1>1, <1>2, <1>7 DEF Insert
    <2>2. k + 1 - 1 = k
      OBVIOUS
    <2>3. QED
      BY <2>1, <2>2
  <1>9. strs \in Seq(Int)
    BY DEF ValueInv, ExtIds
  <1>10. /\ strs' \in Seq(Int)
         /\ \A key, x : Names(strs, key, x) => Names(strs', key, x)
         /\ \A i \in 1 .. Len(a) : Names(strs', KeyOf(i), Kept(i, a[i]))
         /\ \A i \in Int : KeyOf(i) \in Int
    BY <1>4, <1>6, <1>9, PutNames
  <1>11. /\ \A m \in Labels \ {l} : hist'[m] = hist[m]
         /\ hist'[l] = Append(hist[l], log)
         /\ Len(hist'[l]) = k + 1 /\ hist'[l][k + 1] = log
         /\ \A i \in 1 .. k : hist'[l][i] = hist[l][i]
         /\ DOMAIN hist'[l] = 1 .. (k + 1) /\ DOMAIN hist[l] = 1 .. k
    <2>1. hist \in [Labels -> Seq(Seq(LogType))]
      BY DEF PageInv, HistoryType, LogType
    <2>2. log \in Seq(LogType)
      <3>1. epoch \in Nat /\ id \in Int /\ row \in [Props -> Int]
        BY VertexStoreAssumption DEF PageInv, PageTypes, Kept, Junk
      <3> HIDE DEF id
      <3>2. QED
        BY <3>1, <1>5 DEF LogType
    <2>3. hist'[l] = Append(hist[l], log) /\ \A m \in Labels \ {l} : hist'[m] = hist[m]
      BY <2>1, <1>6
    <2>4. PICK h \in Seq(Seq(LogType)) : h = hist[l]
      BY <2>1
    <2>5. /\ Append(h, log) \in Seq(Seq(LogType))
          /\ Len(Append(h, log)) = Len(h) + 1
          /\ \A i \in 1 .. Len(h) : Append(h, log)[i] = h[i]
          /\ Append(h, log)[Len(h) + 1] = log
      BY <2>2, AppendFacts
    <2>6. Len(h) = k
      BY <2>4, <1>1
    <2>7. DOMAIN h = 1 .. k /\ DOMAIN Append(h, log) = 1 .. (k + 1)
      BY <2>5, <2>6
    <2>8. QED
      BY <2>3, <2>4, <2>5, <2>6, <2>7
  <1>12. Len(log) = 1 /\ DOMAIN log = {1} /\ log[1].epoch = epoch /\ log[1].row = row
         /\ log[1].id = id
    BY <1>5
  <1>13. Logged'
    <2>1. ASSUME NEW m \in Labels
          PROVE  /\ Len(hist'[m]) <= MaxVertices
                 /\ \A v \in DOMAIN hist'[m] :
                      /\ Len(hist'[m][v]) > 0
                      /\ \A i \in DOMAIN hist'[m][v] : hist'[m][v][i].epoch <= epoch
      <3>1. CASE m # l
        BY <3>1, <1>11 DEF ValueInv, Logged
      <3>2. CASE m = l
        <4>1. ASSUME NEW v \in 1 .. (k + 1)
              PROVE  /\ Len(hist'[l][v]) > 0
                     /\ \A i \in DOMAIN hist'[l][v] : hist'[l][v][i].epoch <= epoch
          <5>1. CASE v = k + 1
            <6>1. epoch \in Nat
              BY VertexStoreAssumption DEF PageInv, PageTypes
            <6>2. QED
              BY <5>1, <6>1, <1>11, <1>12
          <5>2. CASE v # k + 1
            <6>1. v \in 1 .. k
              BY <5>2
            <6>2. QED
              BY <6>1, <1>11 DEF ValueInv, Logged
          <5>3. QED
            BY <5>1, <5>2
        <4>2. QED
          BY <3>2, <4>1, <1>6, <1>11
      <3>3. QED
        BY <3>1, <3>2
    <2>2. QED
      BY <2>1, <1>6 DEF Logged
  <1>14. ExtIds'
    <2>1. ext \in [Labels -> Seq(Int)] /\ Len(ext[l]) = k
      BY <1>1 DEF ValueInv, ExtIds
    <2>2. PICK x \in Int : x = IF l \in StringIds THEN KeyOf(1) ELSE k + 1
      <3>1. KeyOf(1) \in Int /\ k + 1 \in Int
        BY <1>10
      <3>2. QED
        BY ONLY <3>1
    <2>3. PICK e \in Seq(Int) : e = ext[l]
      BY <2>1
    <2>4. ext' = [ext EXCEPT ![l] = Append(e, x)]
      BY <2>2, <2>3, <1>6
    <2>5. /\ Append(e, x) \in Seq(Int) /\ Len(Append(e, x)) = k + 1
          /\ \A i \in 1 .. k : Append(e, x)[i] = e[i]
          /\ Append(e, x)[k + 1] = x
      BY <2>1, <2>3, AppendFacts
    <2>6. /\ ext' \in [Labels -> Seq(Int)] /\ ext'[l] = Append(e, x)
          /\ \A m \in Labels \ {l} : ext'[m] = ext[m]
      BY <2>1, <2>4, <2>5
    <2>7. ASSUME NEW m \in Labels, NEW v \in DOMAIN ext[m]
          PROVE  IF m \in StringIds THEN Names(strs', ext[m][v], hist[m][v][1].id)
                 ELSE ext[m][v] = hist[m][v][1].id
      <3>1. IF m \in StringIds THEN Names(strs, ext[m][v], hist[m][v][1].id)
            ELSE ext[m][v] = hist[m][v][1].id
        BY DEF ValueInv, ExtIds
      <3>2. QED
        BY <3>1, <1>10
    <2>8. IF l \in StringIds THEN Names(strs', x, log[1].id) ELSE x = log[1].id
      BY <2>2, <1>2, <1>4, <1>10, <1>12
    <2>9. ASSUME NEW m \in Labels
          PROVE  /\ Len(ext'[m]) = Len(hist'[m])
                 /\ \A v \in DOMAIN ext'[m] :
                      IF m \in StringIds THEN Names(strs', ext'[m][v], hist'[m][v][1].id)
                      ELSE ext'[m][v] = hist'[m][v][1].id
      <3>1. CASE m # l
        <4>1. ext'[m] = ext[m] /\ hist'[m] = hist[m] /\ Len(ext[m]) = Len(hist[m])
          BY <3>1, <2>6, <1>11 DEF ValueInv, ExtIds
        <4>2. QED
          BY <4>1, <2>7
      <3>2. CASE m = l
        <4>1. DOMAIN Append(e, x) = 1 .. (k + 1) /\ DOMAIN e = 1 .. k
          BY <2>1, <2>3, <2>5
        <4>2. ASSUME NEW v \in 1 .. (k + 1)
              PROVE  IF l \in StringIds THEN Names(strs', ext'[l][v], hist'[l][v][1].id)
                     ELSE ext'[l][v] = hist'[l][v][1].id
          <5>1. CASE v = k + 1
            <6>1. ext'[l][v] = x /\ hist'[l][v] = log
              BY <5>1, <2>5, <2>6, <1>11
            <6>2. QED
              BY <6>1, <2>8
          <5>2. CASE v # k + 1
            <6>1. v \in 1 .. k
              BY <5>2
            <6>2. ext'[l][v] = ext[l][v] /\ v \in DOMAIN ext[l] /\ hist'[l][v] = hist[l][v]
              BY <6>1, <4>1, <2>3, <2>5, <2>6, <1>11
            <6>3. QED
              BY <6>2, <2>7
          <5>3. QED
            BY <5>1, <5>2
        <4>3. QED
          BY <3>2, <4>1, <4>2, <2>5, <2>6, <1>11
      <3>3. QED
        BY <3>1, <3>2
    <2>10. QED
      BY <2>6, <2>9, <1>10 DEF ExtIds
  <1>15. HistGrows
    <2>1. ASSUME NEW m \in Labels, NEW v \in DOMAIN hist[m]
          PROVE  v \in DOMAIN hist'[m] /\ hist'[m][v] = hist[m][v]
      <3>1. CASE m # l
        BY <3>1, <1>11
      <3>2. CASE m = l
        <4>1. v \in 1 .. k /\ v \in 1 .. (k + 1)
          BY <3>2, <1>11
        <4>2. QED
          BY <3>2, <4>1, <1>11
      <3>3. QED
        BY <3>1, <3>2
    <2>2. QED
      BY <2>1 DEF HistGrows
  <1>16. \A m \in Labels : /\ Len(hist[m]) \in Nat /\ Len(hist'[m]) \in Nat
                           /\ Len(hist[m]) <= Len(hist'[m])
    <2>1. \A m \in Labels : Len(hist[m]) \in Nat
      BY DEF PageInv, HistoryType
    <2>2. ASSUME NEW m \in Labels, m # l
          PROVE  hist'[m] = hist[m]
      BY <2>2, <1>11
    <2>3. Len(hist'[l]) = k + 1 /\ Len(hist[l]) = k
      BY <1>1, <1>11
    <2>4. QED
      BY <2>1, <2>2, <2>3
  <1>17. ASSUME NEW m \in Labels, NEW w \in 0 .. (Len(hist'[m]) - 1), ~(m = l /\ w = k)
         PROVE  w \in 0 .. (Len(hist[m]) - 1) /\ hist'[m][w + 1] = hist[m][w + 1]
    <2>1. CASE m # l
      BY <2>1, <1>11
    <2>2. CASE m = l
      <3>1. w \in 0 .. k /\ w # k
        BY <2>2, <1>11, <1>17
      <3>2. w + 1 \in 1 .. k /\ w \in 0 .. (k - 1)
        BY <3>1
      <3>3. QED
        BY <2>2, <3>2, <1>1, <1>11
    <2>3. QED
      BY <2>1, <2>2
  <1>18. k \in 0 .. (Len(hist'[l]) - 1) /\ LastRow(l, k)' = row
    <2>1. hist'[l][k + 1][Len(hist'[l][k + 1])].row = row
      BY <1>11, <1>12
    <2>2. QED
      BY <2>1, <1>11 DEF LastRow
  <1>25. NextLogs(l, k)
    BY <1>6, <1>13, <1>14, <1>15, <1>16, <1>17, <1>18 DEF NextLogs
  <1>26. StrsGrow
    BY <1>4, <1>6 DEF StrsGrow
  <1>a. CASE th' = Gone
    BY <1>a, <1>25, <1>26, LogLost
  <1>b. SUFFICES ASSUME th' # Gone PROVE ValueInv'
    BY <1>a
  <1>c. th' = Work(t, "insert", l, k, cells, Families)
        /\ (StringProps = << >> \/ Fits(n + Len(StringProps)))
    BY <1>b, <1>8
  <1>d. ASSUME NEW p \in Props, Index(p) # {} PROVE Fits(n + Place(p))
    <2>1. Place(p) \in DOMAIN StringProps
      BY <1>d DEF Place, Index
    <2>2. PICK z \in Nat : z = Len(StringProps) /\ DOMAIN StringProps = 1 .. z
      BY VertexStoreAssumption
    <2>3. Place(p) \in 1 .. z /\ StringProps # << >>
      BY <2>1, <2>2
    <2>4. Fits(n + z)
      BY <2>2, <2>3, <1>c
    <2>5. PICK y \in Nat : y = Len(strs)
      BY <1>9
    <2>6. y + (n + z) <= StrCapacity /\ StrCapacity \in Nat
      BY <2>4, <2>5, VertexStoreAssumption DEF Fits
    <2>7. y + (n + Place(p)) <= StrCapacity
      BY <2>3, <2>6
    <2>8. QED
      BY <2>5, <2>7 DEF Fits
  <1>19. ASSUME NEW f \in Families PROVE Shows(strs', cells, f, row)
    <2>1. ASSUME NEW p \in PropsOf(f) PROVE Tells(strs', cells[p], p, row[p])
      <3>1. p \in Props
        BY DEF PropsOf
      <3>2. cells[p] = Cell(row[p], Stored(p))
        BY <3>1, <1>7
      <3>3. IF Index(p) = {} THEN Stored(p) = row[p]
            ELSE Names(strs', Stored(p), row[p])
        BY <3>1, <1>4, <1>10, <1>d DEF Kept
      <3> HIDE DEF Stored
      <3>4. Tells(strs', Cell(row[p], Stored(p)), p, row[p])
        BY <3>3, CellTells
      <3>5. QED
        BY <3>2, <3>4
    <2>2. QED
      BY <2>1 DEF Shows
  <1>20. th[t] = Idle
    BY <1>6 DEF PageInv, ThreadsOK, Busy, Dead
  <1>21. /\ \A u \in Threads : u # t => th'[u] = th[u]
         /\ th'[t].pc = "find" /\ th'[t].label = l /\ th'[t].vertex = k
         /\ th'[t].todo = Families /\ th'[t].cells = cells
    BY <1>c DEF Work, PageInv, ThreadsOK
  <1>22. Families # {}
    BY VertexStoreAssumption DEF Families
  <1>23. ASSUME Alive, NEW u \in Threads, u # t, th[u].pc # "idle"
         PROVE  ~(th[u].label = l /\ th[u].vertex = k)
    <2>1. th[u].vertex < Len(hist[th[u].label])
      BY <1>23 DEF ValueInv, InWork
    <2>2. QED
      BY <2>1, <1>1
  <1>24. Begins(t, l, k, row, cells, Families)
    BY <1>18, <1>19, <1>20, <1>21, <1>22, <1>23 DEF Begins, LastRow
  <1>27. QED
    BY <1>24, <1>25, <1>26, LogTaken

(* Elements that have a place each have a rank by it: the ranks are the     *)
(* numbers up to how many there are, each once.                             *)
RankIn(S, place, p) == Cardinality({q \in S : place[q] <= place[p]})

LEMMA RankFacts ==
  ASSUME NEW S, NEW m \in Nat, NEW place \in [S -> 1 .. m],
         \A p, q \in S : place[p] = place[q] => p = q
  PROVE  /\ Cardinality(S) \in Nat
         /\ \A p \in S : RankIn(S, place, p) \in 1 .. Cardinality(S)
         /\ \A p, q \in S : RankIn(S, place, p) = RankIn(S, place, q) => p = q
         /\ \A k \in 1 .. Cardinality(S) : \E p \in S : RankIn(S, place, p) = k
  <1> DEFINE Upto(p) == {q \in S : place[q] <= place[p]}
             rank == [p \in S |-> Cardinality(Upto(p))]
  <1>1. IsFiniteSet(S)
    <2>1. place \in Injection(S, 1 .. m)
      BY DEF Injection, IsInjective
    <2>2. IsFiniteSet(1 .. m)
      BY FS_Interval
    <2>3. QED
      BY <2>1, <2>2, FS_Injection
  <1>2. PICK n \in Nat : n = Cardinality(S)
    BY <1>1, FS_CardinalityType
  <1>3. ASSUME NEW p \in S
        PROVE  IsFiniteSet(Upto(p)) /\ Cardinality(Upto(p)) \in 1 .. n /\ p \in Upto(p)
    <2>1. Upto(p) \in SUBSET S /\ p \in Upto(p)
      BY place[p] \in 1 .. m
    <2> HIDE DEF Upto
    <2>2. IsFiniteSet(Upto(p)) /\ Cardinality(Upto(p)) <= n
      BY <2>1, <1>1, <1>2, FS_Subset
    <2>3. Cardinality(Upto(p)) \in Nat /\ Cardinality(Upto(p)) # 0
      BY <2>1, <2>2, FS_CardinalityType, FS_EmptySet
    <2>4. QED
      BY <2>1, <2>2, <2>3
  <1>4. ASSUME NEW p \in S, NEW q \in S, place[p] < place[q]
        PROVE  Cardinality(Upto(p)) # Cardinality(Upto(q))
    <2>1. Upto(p) \in SUBSET Upto(q) /\ q \notin Upto(p)
      <3>1. \A x \in S : place[x] \in 1 .. m
        OBVIOUS
      <3>2. ASSUME NEW x \in Upto(p) PROVE x \in Upto(q)
        <4>1. x \in S /\ place[x] <= place[p]
          OBVIOUS
        <4>2. place[x] <= place[q]
          BY <4>1, <3>1, <1>4
        <4>3. QED
          BY <4>1, <4>2
      <3>3. ~(place[q] <= place[p])
        BY <3>1, <1>4
      <3>4. QED
        BY <3>2, <3>3
    <2>2. q \in Upto(q)
      BY <1>3
    <2> HIDE DEF Upto
    <2>3. Upto(p) # Upto(q)
      BY <2>1, <2>2
    <2>4. IsFiniteSet(Upto(q))
      BY <1>3
    <2>5. QED
      BY <2>1, <2>3, <2>4, FS_Subset
  <1>5. ASSUME NEW p \in S, NEW q \in S, Cardinality(Upto(p)) = Cardinality(Upto(q))
        PROVE  p = q
    <2>1. place[p] \in 1 .. m /\ place[q] \in 1 .. m
      OBVIOUS
    <2>2. ~(place[p] < place[q]) /\ ~(place[q] < place[p])
      BY <1>4, <1>5
    <2>3. place[p] = place[q]
      BY <2>1, <2>2
    <2>4. QED
      BY <2>3
  <1> HIDE DEF Upto
  <1>6. rank \in Injection(S, 1 .. n)
    BY <1>3, <1>5 DEF Injection, IsInjective
  <1>7. IsFiniteSet(1 .. n) /\ Cardinality(1 .. n) = n
    <2>1. 1 \in Int /\ n \in Int
      OBVIOUS
    <2>2. IsFiniteSet(1 .. n) /\ Cardinality(1 .. n) = IF 1 > n THEN 0 ELSE n - 1 + 1
      BY <2>1, FS_Interval
    <2>3. QED
      BY <2>2
  <1> HIDE DEF rank
  <1>8. rank \in Surjection(S, 1 .. n)
    BY <1>2, <1>6, <1>7, FS_Injection
  <1>9. \A k \in 1 .. n : \E p \in S : Cardinality(Upto(p)) = k
    BY <1>8 DEF Surjection, rank
  <1>10. QED
    <2>1. \A p : Cardinality(Upto(p)) = RankIn(S, place, p)
      BY DEF Upto, RankIn
    <2>2. QED
      BY <2>1, <1>2, <1>3, <1>5, <1>9

(* The strings that update_inner_vertex puts, in the order of the places.   *)
StringsOf(row, new) ==
  [k \in 1 .. Cardinality(new) |-> row[CHOOSE p \in new : RankOf(new, p) = k]]

LEMMA NewStrings ==
  ASSUME NEW row \in Rows, NEW new \in SUBSET {p \in Props : Index(p) # {}}, NEW a,
         a = StringsOf(row, new)
  PROVE  /\ a \in Seq(Int)
         /\ \A p \in new : RankOf(new, p) \in 1 .. Len(a) /\ a[RankOf(new, p)] = row[p]
  <1>1. StringProps \in Seq(Props) /\ row \in [Props -> Nat]
    BY VertexStoreAssumption
  <1>2. PICK m \in Nat : DOMAIN StringProps = 1 .. m
    BY <1>1
  <1> DEFINE place == [p \in new |-> Place(p)]
             rank(p) == RankOf(new, p)
             Least(k) == CHOOSE p \in new : rank(p) = k
  <1>3. \A p \in new : Place(p) \in 1 .. m /\ StringProps[Place(p)] = p
    <2>1. \A p \in new : Place(p) \in Index(p)
      BY DEF Place
    <2>2. QED
      BY <2>1, <1>2 DEF Index
  <1>4. place \in [new -> 1 .. m] /\ \A p, q \in new : place[p] = place[q] => p = q
    BY <1>3
  <1>5. \A p \in new : RankIn(new, place, p) = rank(p)
    <2>1. ASSUME NEW p \in new
          PROVE  {q \in new : place[q] <= place[p]} = {q \in new : Place(q) <= Place(p)}
      OBVIOUS
    <2>2. QED
      BY <2>1 DEF RankIn, RankOf
  <1> HIDE DEF place
  <1>6. /\ Cardinality(new) \in Nat
        /\ \A p \in new : RankIn(new, place, p) \in 1 .. Cardinality(new)
        /\ \A p, q \in new : RankIn(new, place, p) = RankIn(new, place, q) => p = q
        /\ \A k \in 1 .. Cardinality(new) : \E p \in new : RankIn(new, place, p) = k
    BY <1>4, RankFacts
  <1>7. PICK n \in Nat : n = Cardinality(new)
    BY <1>6
  <1>8. /\ \A p \in new : rank(p) \in 1 .. n
        /\ \A p, q \in new : rank(p) = rank(q) => p = q
        /\ \A k \in 1 .. n : \E p \in new : rank(p) = k
    <2> HIDE DEF rank
    <2>1. QED
      BY <1>5, <1>6, <1>7
  <1> HIDE DEF rank
  <1>9. \A k \in 1 .. n : Least(k) \in new /\ rank(Least(k)) = k
    BY <1>8
  <1>10. \A p \in new : Least(rank(p)) = p
    BY <1>8, <1>9
  <1> HIDE DEF Least
  <1>11. a = [k \in 1 .. n |-> row[Least(k)]]
    BY <1>7 DEF Least, rank, StringsOf
  <1>12. a \in Seq(Int) /\ Len(a) = n
    <2>1. \A k \in 1 .. n : row[Least(k)] \in Int
      BY <1>1, <1>9
    <2>2. a \in [1 .. n -> Int]
      BY <2>1, <1>11
    <2>3. QED
      BY ONLY <2>2, n \in Nat
  <1>13. \A p \in new : rank(p) \in 1 .. Len(a) /\ a[rank(p)] = row[p]
    BY <1>8, <1>10, <1>11, <1>12
  <1>14. QED
    BY <1>12, <1>13 DEF rank

(* In a page that tells the last row, update_inner_vertex compares with it. *)
LEMMA OldValueIs ==
  ASSUME NEW l, NEW v, NEW p \in Props, NEW x,
         strs \in Seq(Int), Tells(strs, OldCells(l, PropFam[p], v)[p], p, x)
  PROVE  OldValue(l, v, p) = x
  <1>1. PICK c : c = OldCells(l, PropFam[p], v)[p]
    OBVIOUS
  <1>2. OldValue(l, v, p) = CASE c.null -> Empty
                              [] ~c.null /\ Index(p) # {} -> StringAt(c.val)
                              [] OTHER -> c.val
    BY <1>1 DEF OldValue
  <1>3. Tells(strs, c, p, x)
    BY <1>1
  <1>4. CASE c.null
    BY <1>2, <1>3, <1>4 DEF Tells
  <1>5. CASE ~c.null /\ Index(p) # {}
    BY <1>2, <1>3, <1>5, NamesIs DEF Tells
  <1>6. CASE ~c.null /\ Index(p) = {}
    BY <1>2, <1>3, <1>6 DEF Tells
  <1>7. QED
    BY <1>4, <1>5, <1>6

LEMMA UpdateValues ==
  ASSUME MapInv, PageInv, OwnInv, ValueInv, Piled, Piled', NEW t \in Threads,
         NEW l \in Labels, NEW row \in Rows, NEW v \in 0 .. (MaxVertices - 1),
         Update(t, l, row, v)
  PROVE  ValueInv'
  <1>1. PICK new \in SUBSET {p \in Props : Index(p) # {}} :
          /\ new = {p \in Changed(l, v, row) : row[p] # Empty /\ Index(p) # {}}
          /\ new = NewIn(l, v, row)
    BY DEF Changed, NewIn
  <1>a. PICK seen \in [Props -> Int] : seen = RowSeen(row, new)
    BY <1>1, SeenRow
  <1>b. seen = [p \in Props |-> IF p \in new THEN Kept(RankOf(new, p), row[p]) ELSE row[p]]
    BY <1>a DEF RowSeen
  <1> DEFINE rank(p) == RankOf(new, p)
             Stored(p) ==
               CASE Index(p) = {} -> row[p]
                 [] p \in new -> KeyOf(rank(p))
                 [] OTHER -> OldCells(l, PropFam[p], v)[p].val
  <1>2. PICK a : a = StringsOf(row, new)
    OBVIOUS
  <1>3. a \in Seq(Int) /\ \A p \in new : rank(p) \in 1 .. Len(a) /\ a[rank(p)] = row[p]
    BY <1>2, NewStrings
  <1>4. PICK fams \in SUBSET Families : fams = {PropFam[p] : p \in Changed(l, v, row)}
    BY VertexStoreAssumption DEF Changed, Props
  <1>5. PICK cells : cells = [p \in Props |-> Cell(row[p], Stored(p))]
    OBVIOUS
  <1>6. /\ Alone /\ v < Len(hist[l])
        /\ strs' = strs \o a
        /\ th' = IF fams = {} THEN th ELSE Work(t, "update", l, v, cells, fams)
        /\ UNCHANGED <<epoch, ext, pubs, mem, header, newest>>
    <2>1. Alone /\ v < Len(hist[l]) /\ UNCHANGED <<epoch, ext, pubs, mem, header, newest>>
      BY DEF Update, pages
    <2>2. strs' = strs \o StringsOf(row, NewIn(l, v, row))
      BY DEF Update, PutStrings, NewIn, RankOf, StringsOf
    <2>3. th' = IF {PropFam[p] : p \in Changed(l, v, row)} = {} THEN th
                ELSE Work(t, "update", l, v,
                          [p \in Props |-> Cell(row[p],
                             CASE Index(p) = {} -> row[p]
                               [] p \in NewIn(l, v, row) -> KeyOf(RankOf(NewIn(l, v, row), p))
                               [] OTHER -> OldCells(l, PropFam[p], v)[p].val)],
                          {PropFam[p] : p \in Changed(l, v, row)})
      BY DEF Update, NewIn, RankOf
    <2>4. QED
      BY <2>1, <2>2, <2>3, <1>1, <1>2, <1>4, <1>5
  <1>c. hist' = [hist EXCEPT ![l][v + 1] =
                   Append(@, [epoch |-> epoch, id |-> Empty, row |-> seen])]
    BY <1>1, <1>a, SeenRow
  <1>7. PICK log \in LogType : log = [epoch |-> epoch, id |-> Empty, row |-> seen]
    <2>1. epoch \in Nat
      BY VertexStoreAssumption DEF PageInv, PageTypes
    <2>2. Empty \in Int
      BY DEF Empty
    <2>3. [epoch |-> epoch, id |-> Empty, row |-> seen] \in LogType
      BY <2>1, <2>2 DEF LogType
    <2>4. QED
      BY <2>3
  <1>8. PICK h \in Seq(Seq(LogType)), k \in Nat : h = hist[l] /\ k = Len(h)
    <2>1. hist[l] \in Seq(Seq(LogType))
      BY DEF PageInv, HistoryType, LogType
    <2>2. QED
      BY <2>1
  <1>9. v \in Nat /\ v + 1 \in 1 .. k /\ h[v + 1] \in Seq(LogType) /\ v \in 0 .. (k - 1)
    <2>1. v \in Nat
      BY VertexStoreAssumption
    <2>2. v < k
      BY <1>6, <1>8
    <2>3. v + 1 \in 1 .. k /\ v \in 0 .. (k - 1)
      BY ONLY <2>1, <2>2, k \in Nat
    <2>4. h[v + 1] \in Seq(LogType)
      BY <2>3, <1>8
    <2>5. QED
      BY <2>1, <2>3, <2>4
  <1>10. PICK logs \in Seq(LogType), n \in Nat : logs = h[v + 1] /\ n = Len(logs)
    BY <1>9
  <1>11. PICK g : g = Append(logs, log)
    OBVIOUS
  <1>12. /\ Len(g) = n + 1 /\ DOMAIN g = 1 .. (n + 1) /\ DOMAIN logs = 1 .. n
         /\ \A i \in 1 .. n : g[i] = logs[i]
         /\ g[n + 1] = log
    <2>1. /\ g \in Seq(LogType) /\ Len(g) = Len(logs) + 1
          /\ \A i \in 1 .. Len(logs) : g[i] = logs[i]
          /\ g[Len(logs) + 1] = log
      BY <1>11, AppendFacts
    <2>2. /\ Len(g) = n + 1 /\ \A i \in 1 .. n : g[i] = logs[i]
          /\ g[n + 1] = log
      BY ONLY <2>1, <1>10
    <2>3. DOMAIN g = 1 .. (n + 1)
      BY ONLY <2>1, <2>2
    <2>4. DOMAIN logs = 1 .. n
      BY ONLY <1>10
    <2>5. QED
      BY ONLY <2>2, <2>3, <2>4
  <1>13. /\ \A m \in Labels \ {l} : hist'[m] = hist[m]
         /\ hist'[l] = [h EXCEPT ![v + 1] = g]
    <2>1. hist' = [hist EXCEPT ![l] = [hist[l] EXCEPT ![v + 1] = Append(hist[l][v + 1], log)]]
      BY <1>c, <1>7
    <2>2. hist' = [hist EXCEPT ![l] = [h EXCEPT ![v + 1] = g]]
      BY <2>1, <1>8, <1>10, <1>11
    <2>3. QED
      BY <2>2 DEF PageInv
  <1>14. /\ Len(hist'[l]) = k /\ DOMAIN hist'[l] = 1 .. k /\ DOMAIN hist[l] = 1 .. k
         /\ hist'[l][v + 1] = g
         /\ \A i \in 1 .. k : i # v + 1 => hist'[l][i] = hist[l][i]
    <2>1. PICK h2 : h2 = [h EXCEPT ![v + 1] = g]
      OBVIOUS
    <2>2. Len(h2) = k /\ DOMAIN h2 = 1 .. k /\ h2[v + 1] = g
          /\ \A i \in 1 .. k : i # v + 1 => h2[i] = h[i]
      BY <2>1, <1>8, <1>9
    <2>3. QED
      BY <2>1, <2>2, <1>8, <1>13
  <1>15. log.epoch = epoch /\ log.row = seen
    BY <1>7
  <1>16. Logged'
    <2>1. ASSUME NEW m \in Labels
          PROVE  /\ Len(hist'[m]) <= MaxVertices
                 /\ \A w \in DOMAIN hist'[m] :
                      /\ Len(hist'[m][w]) > 0
                      /\ \A i \in DOMAIN hist'[m][w] : hist'[m][w][i].epoch <= epoch
      <3>1. CASE m # l
        BY <3>1, <1>13 DEF ValueInv, Logged
      <3>2. CASE m = l
        <4>1. ASSUME NEW w \in 1 .. k
              PROVE  /\ Len(hist'[l][w]) > 0
                     /\ \A i \in DOMAIN hist'[l][w] : hist'[l][w][i].epoch <= epoch
          <5>1. CASE w = v + 1
            <6>1. epoch \in Nat
              BY VertexStoreAssumption DEF PageInv, PageTypes
            <6>2. \A i \in 1 .. n : logs[i].epoch <= epoch
              <7>1. v + 1 \in DOMAIN hist[l] /\ hist[l][v + 1] = logs
                BY <1>8, <1>9, <1>10
              <7>2. \A i \in DOMAIN logs : logs[i].epoch <= epoch
                BY <7>1 DEF ValueInv, Logged
              <7>3. QED
                BY <7>2, <1>12
            <6>3. \A i \in 1 .. (n + 1) : g[i].epoch <= epoch
              <7>1. ASSUME NEW i \in 1 .. (n + 1) PROVE g[i].epoch <= epoch
                <8>1. CASE i = n + 1
                  BY <8>1, <6>1, <1>12, <1>15
                <8>2. CASE i \in 1 .. n
                  BY <8>2, <6>2, <1>12
                <8>3. QED
                  BY <8>1, <8>2
              <7>2. QED
                BY <7>1
            <6>4. QED
              BY <5>1, <6>3, <1>12, <1>14
          <5>2. CASE w # v + 1
            BY <5>2, <1>14 DEF ValueInv, Logged
          <5>3. QED
            BY <5>1, <5>2
        <4>2. Len(hist[l]) <= MaxVertices
          BY DEF ValueInv, Logged
        <4>3. QED
          BY <3>2, <4>1, <4>2, <1>8, <1>14
      <3>3. QED
        BY <3>1, <3>2
    <2>2. QED
      BY <2>1, <1>6 DEF Logged
  <1>17. PICK st \in Seq(Int) : st = strs
    BY DEF ValueInv, ExtIds
  <1>18. /\ strs' \in Seq(Int)
         /\ \A key, x : Names(strs, key, x) => Names(strs', key, x)
         /\ \A i \in 1 .. Len(a) : Names(strs', KeyOf(i), Kept(i, a[i]))
    BY <1>3, <1>6, <1>17, PutNames
  <1>19. \A m \in Labels : /\ Len(hist[m]) \in Nat /\ Len(hist'[m]) = Len(hist[m])
    <2>1. \A m \in Labels : Len(hist[m]) \in Nat
      BY DEF PageInv, HistoryType
    <2>2. QED
      BY <2>1, <1>8, <1>13, <1>14
  <1>20. ExtIds'
    <2>1. /\ ext \in [Labels -> Seq(Int)]
          /\ \A m \in Labels :
               /\ Len(ext[m]) = Len(hist[m])
               /\ \A w \in DOMAIN ext[m] :
                    IF m \in StringIds THEN Names(strs, ext[m][w], hist[m][w][1].id)
                    ELSE ext[m][w] = hist[m][w][1].id
      BY DEF ValueInv, ExtIds
    <2>2. ASSUME NEW m \in Labels, NEW w \in DOMAIN ext[m]
          PROVE  hist'[m][w][1].id = hist[m][w][1].id
      <3>1. CASE m # l
        BY <3>1, <1>13
      <3>2. CASE m = l
        <4>1. w \in 1 .. k
          BY <3>2, <2>1, <1>8
        <4>2. CASE w # v + 1
          BY <3>2, <4>1, <4>2, <1>14
        <4>3. CASE w = v + 1
          <5>1. hist'[m][w] = g /\ hist[m][w] = logs
            BY <3>2, <4>3, <1>8, <1>10, <1>14
          <5>2. n > 0
            BY <3>2, <4>3, <4>1, <1>8, <1>10, <1>14 DEF ValueInv, Logged
          <5>3. g[1] = logs[1]
            BY ONLY <5>2, n \in Nat, <1>12
          <5>4. QED
            BY <5>1, <5>3
        <4>4. QED
          BY <4>2, <4>3
      <3>3. QED
        BY <3>1, <3>2
    <2>3. ASSUME NEW m \in Labels
          PROVE  /\ Len(ext'[m]) = Len(hist'[m])
                 /\ \A w \in DOMAIN ext'[m] :
                      IF m \in StringIds THEN Names(strs', ext'[m][w], hist'[m][w][1].id)
                      ELSE ext'[m][w] = hist'[m][w][1].id
      BY <2>1, <2>2, <1>6, <1>18, <1>19
    <2>4. QED
      BY <2>1, <2>3, <1>6, <1>18 DEF ExtIds
  <1>21. HistGrows
    <2>1. ASSUME NEW m \in Labels, NEW w \in DOMAIN hist[m]
          PROVE  /\ w \in DOMAIN hist'[m]
                 /\ \/ hist'[m][w] = hist[m][w]
                    \/ \E x \in LogType : x.epoch = epoch /\ hist'[m][w] = Append(hist[m][w], x)
      <3>1. CASE m # l
        BY <3>1, <1>13
      <3>2. CASE m = l /\ w # v + 1
        BY <3>2, <1>14
      <3>3. CASE m = l /\ w = v + 1
        BY <3>3, <1>8, <1>10, <1>11, <1>14, <1>15
      <3>4. QED
        BY <3>1, <3>2, <3>3
    <2>2. QED
      BY <2>1 DEF HistGrows
  <1>22. ASSUME NEW m \in Labels, NEW w \in 0 .. (Len(hist'[m]) - 1), ~(m = l /\ w = v)
         PROVE  w \in 0 .. (Len(hist[m]) - 1) /\ hist'[m][w + 1] = hist[m][w + 1]
    <2>1. CASE m # l
      BY <2>1, <1>13
    <2>2. CASE m = l
      <3>1. w \in 0 .. (k - 1) /\ w # v
        BY <2>2, <1>14, <1>22
      <3>2. w + 1 \in 1 .. k /\ w + 1 # v + 1
        BY <3>1, <1>9
      <3>3. QED
        BY <2>2, <3>1, <3>2, <1>8, <1>14
    <2>3. QED
      BY <2>1, <2>2
  <1>23. hist'[l][v + 1][Len(hist'[l][v + 1])].row = seen
    BY <1>12, <1>14, <1>15
  <1>24. ASSUME NEW f \in Families
         PROVE  /\ newest[Column(l, f, v)] # 0
                /\ Shows(strs, OldCells(l, f, v), f, LastRow(l, v))
    <2>1. Alive
      BY <1>6 DEF Alone, Alive
    <2>2. ~Pending(l, v, f)
      BY <1>6 DEF Alone, Pending
    <2>3. v \in 0 .. (Len(hist[l]) - 1)
      BY <1>8, <1>9
    <2>4. Written(l, v, f)
      BY <2>1, <2>2, <2>3 DEF ValueInv, Current
    <2>5. QED
      BY <2>4 DEF Written, CellsAt, OldCells
  <1>25. ASSUME NEW p \in Props
         PROVE  /\ Tells(strs, OldCells(l, PropFam[p], v)[p], p, LastRow(l, v)[p])
                /\ OldValue(l, v, p) = LastRow(l, v)[p]
    <2>1. PropFam[p] \in Families /\ p \in PropsOf(PropFam[p])
      BY VertexStoreAssumption DEF PropsOf
    <2>2. Tells(strs, OldCells(l, PropFam[p], v)[p], p, LastRow(l, v)[p])
      BY <2>1, <1>24 DEF Shows
    <2>3. QED
      BY <2>2, <1>17, OldValueIs
  <1>26. ASSUME NEW f \in fams PROVE Shows(strs', cells, f, seen)
    <2>1. ASSUME NEW p \in PropsOf(f) PROVE Tells(strs', cells[p], p, seen[p])
      <3>1. p \in Props
        BY DEF PropsOf
      <3>2. cells[p] = Cell(row[p], Stored(p))
        BY <3>1, <1>5
      <3>3. ASSUME row[p] # Empty
            PROVE  IF Index(p) = {} THEN Stored(p) = seen[p]
                   ELSE Names(strs', Stored(p), seen[p])
        <4>1. CASE Index(p) = {}
          <5>1. Stored(p) = row[p] /\ seen[p] = row[p]
            BY <4>1, <3>1, <1>1, <1>b
          <5>2. QED
            BY <4>1, <5>1
        <4>2. CASE Index(p) # {} /\ p \in new
          <5>1. Stored(p) = KeyOf(rank(p))
            BY <4>2
          <5>2. Names(strs', KeyOf(rank(p)), Kept(rank(p), row[p]))
            BY <4>2, <1>3, <1>18
          <5>3. seen[p] = Kept(rank(p), row[p])
            BY <4>2, <3>1, <1>b
          <5>4. QED
            BY <4>2, <5>1, <5>2, <5>3
        <4>3. CASE Index(p) # {} /\ p \notin new
          <5>1. Stored(p) = OldCells(l, PropFam[p], v)[p].val
            BY <4>3
          <5>2. p \notin Changed(l, v, row)
            BY <4>3, <3>3, <1>1
          <5>3. row[p] = LastRow(l, v)[p]
            BY <5>2, <3>1, <1>25 DEF Changed
          <5>4. Tells(strs, OldCells(l, PropFam[p], v)[p], p, row[p])
            BY <5>3, <3>1, <1>25
          <5>5. PICK c : c = OldCells(l, PropFam[p], v)[p]
            OBVIOUS
          <5>6. Names(strs, c.val, row[p])
            BY <5>4, <5>5, <4>3, <3>3 DEF Tells
          <5>7. seen[p] = row[p]
            BY <4>3, <3>1, <1>b
          <5>8. QED
            BY <4>3, <5>1, <5>5, <5>6, <5>7, <1>18
        <4>4. QED
          BY <4>1, <4>2, <4>3
      <3>4. row[p] = Empty <=> seen[p] = Empty
        BY <3>1, <1>1, <1>b DEF Kept, Junk, Empty
      <3> HIDE DEF Stored
      <3>5. Cell(row[p], Stored(p)) = Cell(seen[p], Stored(p))
        BY <3>4 DEF Cell
      <3>6. Tells(strs', Cell(seen[p], Stored(p)), p, seen[p])
        BY <3>3, <3>4, CellTells
      <3>7. QED
        BY <3>2, <3>5, <3>6
    <2>2. QED
      BY <2>1 DEF Shows
  <1>27. ASSUME NEW f \in Families \ fams
         PROVE  /\ newest[Column(l, f, v)] # 0
                /\ Shows(strs', CellsAt(newest[Column(l, f, v)], v), f, seen)
    <2>1. PICK old : old = OldCells(l, f, v)
      OBVIOUS
    <2>2. ASSUME NEW p \in PropsOf(f) PROVE Tells(strs, old[p], p, seen[p])
      <3>1. p \in Props /\ PropFam[p] = f
        BY DEF PropsOf
      <3>2. p \notin Changed(l, v, row)
        BY <3>1, <1>4
      <3>3. row[p] = LastRow(l, v)[p]
        BY <3>1, <3>2, <1>25 DEF Changed
      <3>4. seen[p] = row[p]
        BY <3>1, <3>2, <1>1, <1>b
      <3>5. QED
        BY <3>1, <3>3, <3>4, <2>1, <1>25
    <2>3. Shows(strs, old, f, seen)
      BY <2>2 DEF Shows
    <2>4. Shows(st \o a, old, f, seen)
      BY <2>3, <1>3, <1>17, ShowsStays
    <2>5. QED
      BY <2>1, <2>4, <1>6, <1>17, <1>24 DEF OldCells, CellsAt
  <1>28. th[t] = Idle
    BY <1>6 DEF Alone, PageInv, ThreadsOK, Busy, Dead
  <1>29. /\ \A u \in Threads : u # t => th'[u] = th[u]
         /\ fams = {} => th'[t] = Idle
         /\ fams # {} => /\ th'[t].pc = "find" /\ th'[t].label = l /\ th'[t].vertex = v
                         /\ th'[t].todo = fams /\ th'[t].cells = cells
    BY <1>6, <1>28 DEF Work, PageInv, ThreadsOK
  <1>30. \A u \in Threads : th[u].pc = "idle"
    BY <1>6 DEF Alone
  <1>31. Begins(t, l, v, seen, cells, fams)
    BY <1>4, <1>23, <1>26, <1>27, <1>28, <1>29, <1>30 DEF Begins
  <1>32. NextLogs(l, v)
    <2>1. \A m \in Labels : /\ Len(hist[m]) \in Nat /\ Len(hist'[m]) \in Nat
                            /\ Len(hist[m]) <= Len(hist'[m])
      BY <1>19
    <2>2. v \in 0 .. (Len(hist'[l]) - 1)
      BY <1>9, <1>14
    <2>3. \A m \in Labels : \A w \in 0 .. (Len(hist'[m]) - 1) :
            \/ m = l /\ w = v
            \/ w \in 0 .. (Len(hist[m]) - 1) /\ hist'[m][w + 1] = hist[m][w + 1]
      BY <1>22
    <2>4. UNCHANGED <<epoch, pubs, mem, header, newest>>
      BY <1>6
    <2>5. QED
      BY <2>1, <2>2, <2>3, <2>4, <1>16, <1>20, <1>21 DEF NextLogs
  <1>33. StrsGrow
    BY <1>3, <1>6 DEF StrsGrow
  <1>34. QED
    BY <1>31, <1>32, <1>33, LogTaken

LEMMA ValueInit == Init => ValueInv
  <1> SUFFICES ASSUME Init PROVE ValueInv
    OBVIOUS
  <1>1. /\ epoch = 0 /\ strs = << >> /\ mem = << >>
        /\ \A l \in Labels : hist[l] = << >> /\ ext[l] = << >>
        /\ ext = [l \in Labels |-> << >>]
        /\ \A c \in Columns : newest[c] = 0
        /\ \A t \in Threads : th[t].pc = "idle"
    BY DEF Init, Idle
  <1>2. Logged
    BY <1>1, VertexStoreAssumption DEF Logged
  <1>3. ExtIds
    BY <1>1 DEF ExtIds
  <1>4. RowsShaped /\ Heads
    BY <1>1 DEF RowsShaped, Heads
  <1>5. Current /\ InWork
    BY <1>1 DEF Current, InWork
  <1>6. Served
    BY <1>1 DEF Served
  <1>7. QED
    BY <1>2, <1>3, <1>4, <1>5, <1>6 DEF ValueInv

(* Where nobody races for size_, every step keeps what readers see.         *)
LEMMA ValueStep ==
  ASSUME NoRace, MapInv, PageInv, OwnInv, Piled, ValueInv, MapInv', PageInv', Piled',
         [Next]_vars
  PROVE  ValueInv'
  <1>1. Frozen
    BY PageStep
  <1>2. CASE UNCHANGED vars
    <2>1. UNCHANGED <<epoch, hist, ext, strs, pubs, mem, header, newest, th>>
      BY <1>2 DEF vars
    <2>2. SameWork
      BY <2>1 DEF SameWork
    <2>3. \A t \in Threads : Col(t)' = Col(t)
      BY <2>2, SameColumn
    <2>4. Heads'
      BY <2>1, <2>3 DEF ValueInv, Heads
    <2>5. Alive' => Alive
      BY <2>1 DEF Alive
    <2>6. QED
      BY <2>1, <2>2, <2>4, <2>5, ValuesStill
  <1>3. CASE Publish
    BY <1>3, PublishValues
  <1>4. ASSUME NEW t \in Threads, Step(t) PROVE ValueInv'
    <2>1. CASE Find(t)
      BY <2>1, FindValues
    <2>2. CASE GetRegion(t)
      BY <2>2, GetRegionValues
    <2>3. CASE BufferFull(t)
      BY <2>3, BufferFullValues
    <2>4. CASE NewPage(t)
      BY <2>4, <1>1, NewPageValues
    <2>5. CASE Stamp(t)
      BY <2>5, <1>1, StampValues
    <2>6. CASE Write(t)
      BY <2>6, <1>1, WriteValues
    <2>7. QED
      BY <1>4, <2>1, <2>2, <2>3, <2>4, <2>5, <2>6 DEF Step
  <1>5. ASSUME NEW t \in Threads, NEW l \in Labels, NEW row \in Rows, Insert(t, l, row)
        PROVE  ValueInv'
    BY <1>5, InsertValues
  <1>6. ASSUME NEW t \in Threads, NEW l \in Labels, NEW row \in Rows,
               NEW v \in 0 .. (MaxVertices - 1), Update(t, l, row, v)
        PROVE  ValueInv'
    BY <1>6, UpdateValues
  <1>7. ASSUME NEW l \in Labels, NEW row \in Rows, NEW v \in 0 .. (MaxVertices - 1),
               UpdateFaults(l, row, v)
        PROVE  ValueInv'
    BY <1>7, GoneValues DEF UpdateFaults, pages, ids
  <1>8. QED
    BY <1>2, <1>3, <1>4, <1>5, <1>6, <1>7 DEF Next

(* GetData in a page that a reader finds. *)
LEMMA FoundReads ==
  ASSUME MapInv, PageInv, ValueInv, NEW r \in 0 .. (epoch - 1), NEW l \in Labels,
         NEW v \in 0 .. (pubs[r + 1].max[l] - 1), NEW p \in Props
  PROVE  ReadProp(l, v, p, r) = Expected(l, v, p, r)
  <1>1. PICK f \in Families : f = PropFam[p] /\ p \in PropsOf(f)
    BY VertexStoreAssumption DEF PropsOf
  <1>2. FoundBy(r, l, v, f)
    BY DEF ValueInv, Served
  <1>3. /\ r \in Nat /\ v + 1 \in DOMAIN hist[l] /\ hist[l][v + 1] \in Seq(LogType)
    BY PublishedVertex DEF ValueInv
  <1>4. PICK s \in DOMAIN mem : s = VisiblePage(Column(l, f, v), r)
    BY <1>2 DEF FoundBy
  <1>5. PICK k \in DOMAIN hist[l][v + 1] :
          /\ LastSeen(hist[l][v + 1], r, k)
          /\ Shows(strs, CellsAt(s, v), f, hist[l][v + 1][k].row)
    BY <1>2, <1>4 DEF FoundBy
  <1>6. PICK logs \in Seq(LogType) : logs = hist[l][v + 1]
    BY <1>3
  <1>7. Expected(l, v, p, r) = logs[k].row[p]
    <2>1. DOMAIN logs \subseteq Int /\ \A i \in DOMAIN logs : logs[i].epoch \in Int
      <3>1. DOMAIN logs \subseteq Int /\ \A i \in DOMAIN logs : logs[i] \in LogType
        BY ONLY logs \in Seq(LogType)
      <3>2. QED
        BY <3>1 DEF LogType
    <2>2. LastSeen(logs, r, k) /\ r \in Int
      BY <1>3, <1>5, <1>6
    <2>3. Max(SeenBy(logs, r)) = k
      BY ONLY <2>1, <2>2, ExpectedIs
    <2>4. Expected(l, v, p, r) = logs[Max(SeenBy(logs, r))].row[p]
      BY <1>6 DEF Expected, SeenBy
    <2>5. QED
      BY <2>3, <2>4
  <1>8. PICK x : x = logs[k].row[p]
    OBVIOUS
  <1>9. PICK c : c = mem[s].rows[v % PageSize][p]
    OBVIOUS
  <1>10. Tells(strs, c, p, x)
    BY <1>1, <1>5, <1>6, <1>8, <1>9 DEF Shows, CellsAt
  <1>11. s # 0
    BY DEF PageInv, PageTypes
  <1>12. ReadProp(l, v, p, r) =
           CASE s = 0 -> Junk
             [] s # 0 /\ c.null -> Empty
             [] s # 0 /\ ~c.null /\ Index(p) # {} -> StringAt(c.val)
             [] OTHER -> c.val
    BY <1>1, <1>4, <1>9 DEF ReadProp
  <1>13. CASE c.null
    BY <1>7, <1>8, <1>10, <1>11, <1>12, <1>13 DEF Tells
  <1>14. CASE ~c.null /\ Index(p) # {}
    <2>1. Names(strs, c.val, x)
      BY <1>10, <1>14 DEF Tells
    <2>2. StringAt(c.val) = x
      BY <2>1, NamesIs DEF ValueInv, ExtIds
    <2>3. QED
      BY <2>2, <1>7, <1>8, <1>11, <1>12, <1>14
  <1>15. CASE ~c.null /\ Index(p) = {}
    BY <1>7, <1>8, <1>10, <1>11, <1>12, <1>15 DEF Tells
  <1>16. QED
    BY <1>13, <1>14, <1>15

(* A published epoch shows every vertex it has with its external id and the *)
(* values of the last log of that epoch or an earlier one, NULLs and        *)
(* strings included, while later epochs copy pages (getNewPage_), are seen  *)
(* through the header before their rows are written, or have a write half   *)
(* done, in any order of the threads (GetData, GetExternalId).  What is     *)
(* expected of a string is that it reads as junk exactly if the string      *)
(* buffer had no room for it when its log was applied (put_cstring).        *)
THEOREM SnapshotKept == ASSUME NoRace PROVE Spec => []SnapshotProps
  <1>1. MapInv /\ PageInv /\ ValueInv => SnapshotProps
    <2> SUFFICES ASSUME MapInv, PageInv, ValueInv PROVE SnapshotProps
      OBVIOUS
    <2>1. ASSUME NEW r \in 0 .. (epoch - 1), NEW l \in Labels,
                 NEW v \in 0 .. (pubs[r + 1].max[l] - 1)
          PROVE  ReadExt(l, v) = hist[l][v + 1][1].id
      <3>1. 1 \in Families
        BY VertexStoreAssumption DEF Families
      <3>2. v \in Nat /\ v + 1 \in DOMAIN hist[l] /\ hist \in [Labels -> HistoryType]
        BY <3>1, PublishedVertex DEF ValueInv, PageInv
      <3>3. v + 1 \in DOMAIN ext[l]
        <4>1. PICK h \in HistoryType, e \in Seq(Int) : h = hist[l] /\ e = ext[l]
          BY <3>2 DEF ValueInv, ExtIds
        <4>2. Len(h) = Len(e)
          BY <4>1 DEF ValueInv, ExtIds
        <4>3. DOMAIN h = DOMAIN e
          BY <4>2 DEF HistoryType
        <4>4. QED
          BY <4>1, <4>3, <3>2
      <3>4. QED
        BY <3>3, NamesIs DEF ValueInv, ExtIds, ReadExt
    <2>2. ASSUME NEW r \in 0 .. (epoch - 1), NEW l \in Labels,
                 NEW v \in 0 .. (pubs[r + 1].max[l] - 1), NEW p \in Props
          PROVE  ReadProp(l, v, p, r) = Expected(l, v, p, r)
      BY FoundReads
    <2>3. QED
      BY <2>1, <2>2 DEF SnapshotProps
  <1>2. MapInv /\ PageInv /\ OwnInv /\ ValueInv /\ Piled /\ MapInv' /\ PageInv' /\ Piled'
          /\ [Next]_vars => ValueInv'
    BY ValueStep
  <1>3. QED
    BY <1>1, <1>2, MapInit, MapStep, PageInit, PageStep, OwnInit, OwnStep, ValueInit,
       PagesPiled, PTL DEF Spec
=============================================================================
