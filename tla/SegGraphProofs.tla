--------------------------- MODULE SegGraphProofs ---------------------------
(***************************************************************************)
(* Proofs about the segmented adjacency store: what the blocks, segments   *)
(* and chains are made of, for any number of writers; that the chain of    *)
(* the current segment is the log of the vertex, for one writer; and that  *)
(* a segment is recycled only after its lag.                               *)
(***************************************************************************)
EXTENDS SegGraph, FiniteSetTheorems, WellFoundedInduction, TLAPS

-----------------------------------------------------------------------------
(* Numbers, powers of two and orders. *)

(* A set of numbers that is not empty has a least one. *)
LEMMA LeastNumber ==
  ASSUME NEW S \in SUBSET Nat, S # {}
  PROVE  \E x \in S : \A y \in S : x <= y
  <1> DEFINE Below(n) == S \cap (0 .. n)
             R == StrictSubsetOrdering(S)
             T == {Below(n) : n \in S}
  <1>1. T \subseteq FiniteSubsetsOf(S)
    <2>1. \A n \in S : IsFiniteSet(0 .. n)
      BY FS_Interval
    <2>2. \A n \in S : IsFiniteSet(Below(n))
      BY <2>1, FS_Intersection
    <2>3. QED
      BY <2>2 DEF FiniteSubsetsOf
  <1>2. T # {}
    OBVIOUS
  <1>3. IsWellFoundedOn(R, FiniteSubsetsOf(S))
    BY FS_StrictSubsetOrderingWellFounded
  <1>4. PICK b \in T : \A c \in T : ~ (<<c, b>> \in R)
    <2> HIDE DEF T, R
    <2>1. QED
      BY <1>1, <1>2, <1>3, WFMin
  <1>5. PICK x \in S : b = Below(x)
    OBVIOUS
  <1>6. ASSUME NEW y \in S, y < x PROVE FALSE
    <2>1. Below(y) \in T /\ Below(y) \subseteq Below(x)
      BY <1>6
    <2>2. Below(y) # Below(x)
      BY <1>6
    <2>3. <<Below(y), Below(x)>> \in R
      BY <2>1, <2>2 DEF StrictSubsetOrdering
    <2>4. QED
      BY <2>1, <2>3, <1>4, <1>5
  <1>7. QED
    BY <1>6

(* The beginning of the table of powers, up to the order m. *)
PowersTo(m, g) ==
  g = [n \in 0 .. m |-> IF n = 0 THEN 1 ELSE 2 * g[n - 1]]

LEMMA PowersExist ==
  ASSUME NEW m \in Nat
  PROVE  \E g : PowersTo(m, g)
  <1> DEFINE Bad == {k \in Nat : ~ \E g : PowersTo(k, g)}
  <1>1. 0 \notin Bad
    <2>1. PowersTo(0, [n \in 0 .. 0 |-> 1])
      BY DEF PowersTo
    <2>2. QED
      BY <2>1
  <1>2. ASSUME NEW k \in Nat, k \notin Bad PROVE k + 1 \notin Bad
    <2>1. PICK g : PowersTo(k, g)
      BY <1>2
    <2> DEFINE h == [n \in 0 .. k + 1 |-> IF n = k + 1 THEN 2 * g[k] ELSE g[n]]
    <2>2. \A n \in 0 .. k + 1 : h[n] = IF n = 0 THEN 1 ELSE 2 * h[n - 1]
      <3> TAKE n \in 0 .. k + 1
      <3>1. CASE n = k + 1
        BY <3>1
      <3>2. CASE n \in 0 .. k
        BY <2>1, <3>2 DEF PowersTo
      <3>3. QED
        BY <3>1, <3>2
    <2>3. PowersTo(k + 1, h)
      BY <2>2 DEF PowersTo
    <2>4. QED
      BY <2>3
  <1> HIDE DEF Bad
  <1>3. Bad = {}
    <2> SUFFICES ASSUME Bad # {} PROVE FALSE
      OBVIOUS
    <2>1. PICK x \in Bad : \A y \in Bad : x <= y
      BY LeastNumber DEF Bad
    <2>2. x \in Nat /\ x # 0
      BY <1>1, <2>1 DEF Bad
    <2>3. x - 1 \in Nat /\ x - 1 \notin Bad
      BY <2>1, <2>2
    <2>4. x - 1 + 1 \notin Bad
      BY <2>3, <1>2
    <2>5. QED
      BY <2>1, <2>2, <2>4
  <1>4. QED
    BY <1>3 DEF Bad

(* Two beginnings agree where both are defined. *)
LEMMA PowersAgree ==
  ASSUME NEW m \in Nat, NEW k \in Nat, NEW g, NEW h, PowersTo(m, g), PowersTo(k, h)
  PROVE  \A n \in Nat : n <= m /\ n <= k => g[n] = h[n]
  <1> DEFINE Bad == {n \in Nat : n <= m /\ n <= k /\ g[n] # h[n]}
  <1> SUFFICES ASSUME Bad # {} PROVE FALSE
    OBVIOUS
  <1>1. PICK x \in Bad : \A y \in Bad : x <= y
    BY LeastNumber
  <1>2. g[0] = 1 /\ h[0] = 1
    BY DEF PowersTo
  <1>3. x # 0
    BY <1>1, <1>2
  <1>4. x - 1 \in Nat /\ x - 1 \notin Bad
    BY <1>1, <1>3
  <1>5. g[x - 1] = h[x - 1]
    BY <1>1, <1>4
  <1>6. g[x] = 2 * g[x - 1] /\ h[x] = 2 * h[x - 1]
    BY <1>1, <1>3 DEF PowersTo
  <1>7. QED
    BY <1>1, <1>5, <1>6

(* What the definition of Pow2 says. *)
LEMMA Pow2Def ==
  Pow2 = [n \in Nat |-> IF n = 0 THEN 1 ELSE 2 * Pow2[n - 1]]
  <1> DEFINE G(m) == CHOOSE g : PowersTo(m, g)
             f == [n \in Nat |-> G(n)[n]]
  <1>1. \A m \in Nat : PowersTo(m, G(m))
    BY PowersExist
  <1> HIDE DEF G
  <1>2. \A n \in Nat : f[n] = IF n = 0 THEN 1 ELSE 2 * f[n - 1]
    <2> TAKE n \in Nat
    <2>1. CASE n = 0
      <3>1. G(0)[0] = 1
        BY <1>1 DEF PowersTo
      <3>2. QED
        BY <2>1, <3>1
    <2>2. CASE n # 0
      <3>1. n - 1 \in Nat /\ n - 1 <= n
        BY <2>2
      <3>2. G(n)[n] = 2 * G(n)[n - 1]
        BY <1>1, <2>2 DEF PowersTo
      <3>3. G(n)[n - 1] = G(n - 1)[n - 1]
        BY <1>1, <3>1, PowersAgree
      <3>4. QED
        BY <2>2, <3>1, <3>2, <3>3
    <2>3. QED
      BY <2>1, <2>2
  <1>3. f = [n \in Nat |-> IF n = 0 THEN 1 ELSE 2 * f[n - 1]]
    BY <1>2
  <1>4. QED
    BY <1>3 DEF Pow2

(* A block of the next order is twice as large, and no block is empty. *)
LEMMA Pow2Facts ==
  /\ Pow2[0] = 1
  /\ \A n \in Nat : Pow2[n + 1] = 2 * Pow2[n]
  /\ \A n \in Nat : Pow2[n] \in Nat /\ Pow2[n] > n
  <1>1. Pow2[0] = 1
    BY Pow2Def
  <1>2. \A n \in Nat : Pow2[n + 1] = 2 * Pow2[n]
    <2> TAKE n \in Nat
    <2>1. n + 1 \in Nat /\ n + 1 # 0 /\ n + 1 - 1 = n
      OBVIOUS
    <2>2. QED
      BY <2>1, Pow2Def
  <1>3. \A n \in Nat : Pow2[n] \in Nat /\ Pow2[n] > n
    <2> DEFINE Bad == {n \in Nat : ~ (Pow2[n] \in Nat /\ Pow2[n] > n)}
    <2> SUFFICES ASSUME Bad # {} PROVE FALSE
      OBVIOUS
    <2>1. PICK x \in Bad : \A y \in Bad : x <= y
      BY LeastNumber
    <2>2. x \in Nat /\ x # 0
      BY <1>1, <2>1
    <2>3. x - 1 \in Nat /\ x - 1 \notin Bad
      BY <2>1, <2>2
    <2>4. Pow2[x - 1 + 1] = 2 * Pow2[x - 1]
      BY <1>2, <2>3
    <2>5. QED
      BY <2>1, <2>2, <2>3, <2>4
  <1>4. QED
    BY <1>1, <1>2, <1>3

LEMMA Pow2Nat == \A n \in Nat : Pow2[n] \in Nat /\ Pow2[n] > n
  BY Pow2Facts

(* size_to_order returns an order, and its blocks hold n entries. *)
LEMMA OrderHolds ==
  ASSUME NEW n \in Nat
  PROVE  SizeToOrder(n) \in 0 .. n /\ Pow2[SizeToOrder(n)] >= n
  <1> DEFINE Holds == {o \in Nat : Pow2[o] >= n}
  <1>1. n \in Holds
    BY Pow2Facts
  <1>2. PICK o \in Holds : \A y \in Holds : o <= y
    BY <1>1, LeastNumber
  <1>3. o \in 0 .. n /\ Pow2[o] >= n
    BY <1>1, <1>2
  <1>4. o = 0 \/ Pow2[o - 1] < n
    <2> SUFFICES ASSUME o # 0 PROVE Pow2[o - 1] < n
      OBVIOUS
    <2>1. o - 1 \in Nat /\ o - 1 \notin Holds
      BY <1>2, <1>3
    <2>2. Pow2[o - 1] \in Nat
      BY <2>1, Pow2Facts
    <2>3. QED
      BY <2>1, <2>2
  <1>5. QED
    BY <1>3, <1>4 DEF SizeToOrder

-----------------------------------------------------------------------------
(* Edge blocks and their chains. *)

Block == [order : Nat, prev : Nat, prevnum : Nat, ents : Seq(Nat)]

(* A block is linked to blocks older than itself. *)
BlockTypes ==
  /\ blks \in Seq(Block)
  /\ \A b \in 1 .. Len(blks) : blks[b].prev < b

(* Position of the last entry of a block in the list of its vertex. *)
End(b) == IF b = 0 THEN 0 ELSE blks[b].prevnum + Len(blks[b].ents)

(* A block holds no more than its order allows; its entries follow those of *)
(* the block behind it, and only large blocks are linked.                   *)
BlockSound(b) ==
  /\ blks[b].prevnum = End(blks[b].prev)
  /\ blks[b].prev # 0 => blks[b].order >= COPY_THRESHOLD_ORDER
  /\ Len(blks[b].ents) <= Pow2[blks[b].order]
  /\ \A i \in 1 .. Len(blks[b].ents) : blks[b].ents[i] = blks[b].prevnum + i

BlocksSound == \A b \in 1 .. Len(blks) : BlockSound(b)

LEMMA BlockFields ==
  ASSUME BlockTypes
  PROVE  /\ Len(blks) \in Nat
         /\ \A b \in 1 .. Len(blks) :
              /\ blks[b] \in Block
              /\ blks[b].order \in Nat
              /\ blks[b].prev \in 0 .. b - 1
              /\ blks[b].prevnum \in Nat
              /\ blks[b].ents \in Seq(Nat)
              /\ Len(blks[b].ents) \in Nat
  <1>1. Len(blks) \in Nat
    BY DEF BlockTypes
  <1>2. ASSUME NEW b \in 1 .. Len(blks) PROVE blks[b] \in Block /\ blks[b].prev < b
    BY DEF BlockTypes
  <1>3. \A x \in Block : /\ x.order \in Nat /\ x.prev \in Nat /\ x.prevnum \in Nat
                         /\ x.ents \in Seq(Nat)
    BY DEF Block
  <1>4. QED
    BY <1>1, <1>2, <1>3

Joined(s, t) == s \o t

(* The chains of the blocks up to the n-th. *)
ChainsTo(n, g) ==
  g = [c \in 0 .. n |->
         IF c = 0 THEN << >> ELSE Joined(g[blks[c].prev], blks[c].ents)]

LEMMA ChainsExist ==
  ASSUME BlockTypes, NEW n \in Nat, n <= Len(blks)
  PROVE  \E g : ChainsTo(n, g)
  <1> DEFINE Bad == {m \in Nat : m <= Len(blks) /\ ~ \E g : ChainsTo(m, g)}
  <1>1. 0 \notin Bad
    <2>1. ChainsTo(0, [c \in 0 .. 0 |-> << >>])
      BY DEF ChainsTo
    <2>2. QED
      BY <2>1
  <1>2. ASSUME NEW m \in Nat, m < Len(blks), m \notin Bad PROVE m + 1 \notin Bad
    <2>1. PICK g : ChainsTo(m, g)
      BY <1>2
    <2> DEFINE h == [c \in 0 .. m + 1 |-> IF c = m + 1
                                          THEN Joined(g[blks[c].prev], blks[c].ents)
                                          ELSE g[c]]
    <2>2. \A c \in 1 .. m + 1 : blks[c].prev \in 0 .. c - 1
      BY <1>2, BlockFields
    <2>3. \A c \in 0 .. m + 1 :
            h[c] = IF c = 0 THEN << >> ELSE Joined(h[blks[c].prev], blks[c].ents)
      <3> TAKE c \in 0 .. m + 1
      <3>1. CASE c = m + 1
        BY <2>2, <3>1
      <3>2. CASE c = 0
        BY <2>1, <3>2 DEF ChainsTo
      <3>3. CASE c \in 1 .. m
        <4>1. blks[c].prev \in 0 .. m
          BY <2>2, <3>3
        <4>2. g[c] = Joined(g[blks[c].prev], blks[c].ents)
          BY <2>1, <3>3 DEF ChainsTo
        <4>3. QED
          BY <3>3, <4>1, <4>2
      <3>4. QED
        BY <3>1, <3>2, <3>3
    <2>4. ChainsTo(m + 1, h)
      BY <2>3 DEF ChainsTo
    <2>5. QED
      BY <2>4
  <1> HIDE DEF Bad
  <1>3. Bad = {}
    <2> SUFFICES ASSUME Bad # {} PROVE FALSE
      OBVIOUS
    <2>1. PICK x \in Bad : \A y \in Bad : x <= y
      BY LeastNumber DEF Bad
    <2>2. x \in Nat /\ x # 0 /\ x <= Len(blks)
      BY <1>1, <2>1 DEF Bad
    <2>3. x - 1 \in Nat /\ x - 1 < Len(blks) /\ x - 1 \notin Bad
      BY <2>1, <2>2 DEF BlockTypes
    <2>4. x - 1 + 1 \notin Bad
      BY <2>3, <1>2
    <2>5. QED
      BY <2>1, <2>2, <2>4
  <1>4. QED
    BY <1>3 DEF Bad

(* The chain of a block: the chain behind it, then its own entries. *)
LEMMA ChainDef ==
  ASSUME BlockTypes
  PROVE  /\ Chain(0) = << >>
         /\ \A b \in 1 .. Len(blks) : Chain(b) = Chain(blks[b].prev) \o blks[b].ents
  <1> DEFINE ch == CHOOSE g : ChainsTo(Len(blks), g)
  <1>1. Len(blks) \in Nat
    BY DEF BlockTypes
  <1>2. ChainsTo(Len(blks), ch)
    BY <1>1, ChainsExist
  <1>3. \A c : Chain(c) = ch[c]
    BY DEF Chain, ChainsTo, Joined
  <1> HIDE DEF ch
  <1>4. \A b \in 1 .. Len(blks) : blks[b].prev \in 0 .. Len(blks)
    BY BlockFields
  <1>5. QED
    BY <1>1, <1>2, <1>3, <1>4 DEF ChainsTo, Joined

LEMMA ChainType ==
  ASSUME BlockTypes
  PROVE  \A b \in 0 .. Len(blks) : Chain(b) \in Seq(Nat)
  <1> DEFINE Bad == {b \in Nat : b <= Len(blks) /\ Chain(b) \notin Seq(Nat)}
  <1> SUFFICES ASSUME Bad # {} PROVE FALSE
    BY DEF BlockTypes
  <1>1. PICK x \in Bad : \A y \in Bad : x <= y
    BY LeastNumber
  <1>2. x # 0
    <2>1. << >> \in Seq(Nat)
      OBVIOUS
    <2>2. QED
      BY <1>1, <2>1, ChainDef
  <1>3. x \in 1 .. Len(blks)
    BY <1>1, <1>2 DEF BlockTypes
  <1>4. blks[x] \in Block /\ blks[x].prev \in 0 .. x - 1
    BY <1>3, BlockFields
  <1>5. Chain(blks[x].prev) \in Seq(Nat)
    BY <1>1, <1>3, <1>4 DEF BlockTypes
  <1>6. Chain(x) = Chain(blks[x].prev) \o blks[x].ents
    BY <1>3, ChainDef
  <1>7. Chain(x) \in Seq(Nat)
    BY <1>4, <1>5, <1>6 DEF Block
  <1>8. QED
    BY <1>1, <1>7

(* Entries in order behind entries in order. *)
LEMMA IotaJoined ==
  ASSUME NEW n \in Nat, NEW u, u = Iota(n),
         NEW s \in Seq(Nat), \A i \in 1 .. Len(s) : s[i] = n + i
  PROVE  u \o s = Iota(n + Len(s))
  <1>1. u \in Seq(Nat) /\ Len(u) = n /\ \A i \in 1 .. n : u[i] = i
    BY DEF Iota
  <1>2. /\ u \o s \in Seq(Nat) /\ Len(u \o s) = n + Len(s)
        /\ \A i \in 1 .. n : (u \o s)[i] = u[i]
        /\ \A i \in n + 1 .. n + Len(s) : (u \o s)[i] = s[i - n]
    BY <1>1
  <1> DEFINE t == u \o s
  <1> HIDE DEF t
  <1>3. t = [i \in 1 .. n + Len(s) |-> t[i]]
    <2>1. t \in Seq(Nat) /\ Len(t) = n + Len(s)
      BY <1>2 DEF t
    <2>2. QED
      BY <2>1
  <1>4. ASSUME NEW i \in 1 .. n + Len(s) PROVE t[i] = i
    <2>1. CASE i <= n
      BY <1>1, <1>2, <2>1 DEF t
    <2>2. CASE i > n
      <3>1. t[i] = s[i - n] /\ i - n \in 1 .. Len(s)
        BY <1>2, <2>2 DEF t
      <3>2. QED
        BY <3>1
    <2>3. QED
      BY <2>1, <2>2
  <1>5. t = Iota(n + Len(s))
    BY <1>3, <1>4 DEF Iota
  <1>6. QED
    BY <1>5 DEF t

(* In a store of sound blocks every chain is 1, 2, 3, ... *)
LEMMA ChainIsIota ==
  ASSUME BlockTypes, BlocksSound
  PROVE  \A b \in 0 .. Len(blks) : End(b) \in Nat /\ Chain(b) = Iota(End(b))
  <1> DEFINE Bad == {b \in Nat : b <= Len(blks) /\ ~ (End(b) \in Nat /\ Chain(b) = Iota(End(b)))}
  <1> SUFFICES ASSUME Bad # {} PROVE FALSE
    BY DEF BlockTypes
  <1>1. PICK x \in Bad : \A y \in Bad : x <= y
    BY LeastNumber
  <1>2. x # 0
    <2>1. Iota(0) = << >>
      BY DEF Iota
    <2>2. QED
      BY <1>1, <2>1, ChainDef DEF End
  <1>3. x \in 1 .. Len(blks)
    BY <1>1, <1>2 DEF BlockTypes
  <1>4. blks[x] \in Block /\ blks[x].prev \in 0 .. x - 1
    BY <1>3, BlockFields
  <1>5. Chain(blks[x].prev) = Iota(End(blks[x].prev))
    BY <1>1, <1>3, <1>4 DEF BlockTypes
  <1>6. Chain(x) = Chain(blks[x].prev) \o blks[x].ents
    BY <1>3, ChainDef
  <1>7. BlockSound(x)
    BY <1>3 DEF BlocksSound
  <1>8. Chain(x) = Iota(blks[x].prevnum + Len(blks[x].ents))
    <2>1. /\ blks[x].prevnum \in Nat /\ blks[x].prevnum = End(blks[x].prev)
          /\ blks[x].ents \in Seq(Nat)
      BY <1>3, <1>7, BlockFields DEF BlockSound
    <2>2. QED
      BY <1>5, <1>6, <1>7, <2>1, IotaJoined DEF BlockSound
  <1>9. QED
    BY <1>1, <1>2, <1>4, <1>8 DEF End, Block

-----------------------------------------------------------------------------
(* What every variable is made of, for any number of writers. *)

EpochEntry == [offset : Nat, epoch : LogEpochs]

ListTypes ==
  /\ wepoch \in LogEpochs
  /\ hist \in [Vertices -> Seq(LogEpochs)]
  /\ tabs \in [Vertices -> Seq(Seq(EpochEntry))]

(* The slots in use do not matter here. *)
Segment ==
  [order : Nat, used : {segs[s].used : s \in DOMAIN segs},
   region : [Vertices -> 0 .. Len(blks)], etab : [Vertices -> Nat]]

(* The label's pointer leads to the newest segment. *)
SegTypes ==
  /\ segs \in Seq(Segment)
  /\ segptr = Len(segs)
  /\ \A s \in 1 .. Len(segs), v \in Vertices : segs[s].etab[v] <= Len(tabs[v])

(* Only replaced segments are recycled, after the epoch that replaced them. *)
RecycleTypes ==
  /\ recycle \subseteq (1 .. Len(segs)) \X LogEpochs
  /\ \A x \in recycle : x[1] # segptr /\ x[2] <= wepoch
  /\ freed \subseteq (1 .. Len(segs)) \ {segptr}

LockTypes ==
  /\ futex \in [Vertices -> Writers \cup {NoOne}]
  /\ shared \subseteq Writers
  /\ excl \in Writers \cup {NoOne}

WriterType ==
  [pc : {"idle", "futex", "start", "init", "reshare", "block", "merge", "table",
         "append", "edge", "crashed", "dead"},
   v : Vertices \cup {NoOne}, seg : Nat, blk : Nat]

WriterPlace(w) ==
  /\ wr[w].seg <= Len(segs)
  /\ wr[w].blk <= Len(blks)
  /\ wr[w].pc # "idle" => wr[w].v \in Vertices
  /\ wr[w].pc \in {"reshare", "block", "merge", "table", "append", "edge"} =>
       wr[w].seg # 0
  /\ wr[w].pc \in {"table", "append", "edge"} => wr[w].blk # 0

WriterTypes == wr \in [Writers -> WriterType] /\ \A w \in Writers : WriterPlace(w)

(* What a reader returns is not restricted here. *)
IsReader(q) ==
  /\ q = [f \in DOMAIN IdleReader |-> q[f]]
  /\ q.pc \in {"idle", "ready", "load", "init", "done"}
  /\ q.kind \in {"internal", "fragment"}
  /\ q.view \in {"fresh", "stale"}
  /\ q.epoch \in LogEpochs /\ q.at \in LogEpochs
  /\ q.v \in Vertices \cup {NoOne} /\ q.seg \in Nat
  /\ q.base \in [Vertices -> Nat] /\ q.baseTab \in [Vertices -> Nat]
  /\ q.blk \in Nat \cup {NotLoaded} /\ q.tab \in Nat \cup {NotLoaded}
  /\ q.low \in Nat /\ q.num \in Nat

(* What it holds exists. *)
ReaderPast(q) ==
  /\ IsReader(q)
  /\ q.seg <= Len(segs)
  /\ q.blk <= Len(blks)
  /\ q.pc \in {"load", "init", "done"} => q.v \in Vertices
  /\ q.pc = "init" => q.blk \in Nat \ {0} /\ q.tab \in Nat \ {0}

ReaderTypes ==
  /\ rd = [r \in Readers |-> rd[r]]
  /\ \A r \in Readers : ReaderPast(rd[r])

Types ==
  /\ ListTypes
  /\ BlockTypes
  /\ SegTypes
  /\ RecycleTypes
  /\ LockTypes
  /\ WriterTypes
  /\ ReaderTypes

(* The writer's segment, and the block its vertex has there. *)
LEMMA SegmentFields ==
  ASSUME SegTypes, BlockTypes, NEW s \in 1 .. Len(segs)
  PROVE  /\ segs[s] \in Segment
         /\ segs[s].order \in Nat
         /\ segs[s].region \in [Vertices -> 0 .. Len(blks)]
         /\ segs[s].etab \in [Vertices -> Nat]
         /\ segs[s] = [order |-> segs[s].order, used |-> segs[s].used,
                       region |-> segs[s].region, etab |-> segs[s].etab]
  <1>1. segs[s] \in Segment
    BY DEF SegTypes
  <1>2. QED
    BY <1>1 DEF Segment

(* Distinct places behind the present blocks, and none left over. *)
LEMMA PlacesFit ==
  ASSUME NEW M, IsFiniteSet(M), Len(blks) \in Nat
  PROVE  /\ Cardinality(M) \in Nat
         /\ Places(M) \in [M -> Len(blks) + 1 .. Len(blks) + Cardinality(M)]
         /\ \A x, y \in M : x # y => Places(M)[x] # Places(M)[y]
         /\ \A i \in Len(blks) + 1 .. Len(blks) + Cardinality(M) :
              \E u \in M : Places(M)[u] = i
  <1> DEFINE I == Len(blks) + 1 .. Len(blks) + Cardinality(M)
  <1>1. Cardinality(M) \in Nat
    BY FS_CardinalityType
  <1>2. IsFiniteSet(I) /\ Cardinality(I) = Cardinality(M)
    <2> DEFINE a == Len(blks) + 1
               b == Len(blks) + Cardinality(M)
    <2>1. a \in Int /\ b \in Int /\ (IF a > b THEN 0 ELSE b - a + 1) = Cardinality(M)
      BY <1>1
    <2>2. IsFiniteSet(a .. b) /\ Cardinality(a .. b) = IF a > b THEN 0 ELSE b - a + 1
      <3> HIDE DEF a, b
      <3>1. QED
        BY <2>1, FS_Interval
    <2>3. QED
      BY <2>1, <2>2
  <1>3. PICK f : f \in Bijection(M, I)
    BY <1>2, FS_SameCardinalityBij DEF ExistsBijection
  <1>4. f \in [M -> I] /\ \A x, y \in M : x # y => f[x] # f[y]
    BY <1>3 DEF Bijection, Injection, IsInjective
  <1>5. Places(M) \in [M -> I] /\ \A x, y \in M : x # y => Places(M)[x] # Places(M)[y]
    BY <1>4 DEF Places
  <1>6. Places(M) \in Injection(M, I)
    BY <1>5 DEF Injection, IsInjective
  <1>7. Places(M) \in Surjection(M, I)
    BY <1>2, <1>6, FS_Injection
  <1>8. QED
    BY <1>1, <1>5, <1>7 DEF Surjection

MergeCrashes(w) ==
  MergedSlots(wr[w].seg, wr[w].v) > SegSlots[MergeOrder(wr[w].seg)]

MergesInto(w, M, at) ==
  /\ M = Merged(wr[w].seg, wr[w].v) /\ at = Places(M)
  /\ M \subseteq Vertices /\ wr[w].v \in M
  /\ at \in [M -> Len(blks) + 1 .. Len(blks')]
  /\ \A x, y \in M : x # y => at[x] # at[y]
  /\ \A i \in Len(blks) + 1 .. Len(blks') :
       \E u \in M : at[u] = i /\ blks'[i] = MergedBlock(wr[w].seg, u, wr[w].v)

(* What merge_segment does to the blocks. *)
LEMMA MergeBlocks ==
  ASSUME Types, NEW w \in Writers, MergeSegment(w), ~ MergeCrashes(w)
  PROVE  /\ \E M, at : MergesInto(w, M, at)
         /\ blks' \in Seq(Block)
         /\ Len(blks') >= Len(blks)
         /\ \A i \in 1 .. Len(blks) : blks'[i] = blks[i]
  <1> DEFINE s == wr[w].seg
             v == wr[w].v
             M == Merged(s, v)
             at == Places(M)
             c == Cardinality(M)
             U(i) == CHOOSE u \in M : at[u] = Len(blks) + i
             new == [i \in 1 .. c |-> MergedBlock(s, U(i), v)]
  <1>1. blks' = blks \o new
    BY DEF MergeSegment, MergeCrashes
  <1>2. /\ s \in Nat /\ s # 0 /\ s <= Len(segs) /\ v \in Vertices
        /\ Len(segs) \in Nat
    BY DEF Types, WriterTypes, WriterType, WriterPlace, MergeSegment, SegTypes
  <1>3. M \subseteq Vertices /\ v \in M /\ IsFiniteSet(M)
    <2>1. M \subseteq Vertices /\ v \in M
      BY <1>2 DEF Merged
    <2>2. QED
      BY <2>1, FS_Subset, SegGraphAssumption
  <1>4. Len(blks) \in Nat
    BY BlockFields DEF Types
  <1> HIDE DEF M, at, c, s, v
  <1>5. /\ c \in Nat
        /\ at \in [M -> Len(blks) + 1 .. Len(blks) + c]
        /\ \A x, y \in M : x # y => at[x] # at[y]
        /\ \A i \in Len(blks) + 1 .. Len(blks) + c : \E u \in M : at[u] = i
    BY <1>3, <1>4, PlacesFit DEF at, c
  <1>6. ASSUME NEW u \in M PROVE MergedBlock(s, u, v) \in Block
    <2>1. segs[s].region[u] \in 0 .. Len(blks)
      <3>1. s \in 1 .. Len(segs) /\ u \in Vertices
        BY <1>2, <1>3
      <3>2. segs[s].region \in [Vertices -> 0 .. Len(blks)]
        BY <3>1, SegmentFields DEF Types
      <3>3. QED
        BY <3>1, <3>2
    <2>2. Chain(segs[s].region[u]) \in Seq(Nat)
      BY <2>1, ChainType DEF Types
    <2>3. MergedOrder(s, u, v) \in Nat
      <3>1. \A n \in Nat : SizeToOrder(n) \in Nat
        BY OrderHolds
      <3>2. QED
        BY <2>2, <3>1 DEF MergedOrder
    <2>4. QED
      BY <2>2, <2>3 DEF MergedBlock, Block
  <1>7. ASSUME NEW i \in 1 .. c PROVE U(i) \in M /\ at[U(i)] = Len(blks) + i
    <2>1. Len(blks) + i \in Len(blks) + 1 .. Len(blks) + c
      BY <1>4, <1>5
    <2>2. \E u \in M : at[u] = Len(blks) + i
      BY <1>5, <2>1
    <2>3. QED
      BY <2>2
  <1>8. new \in Seq(Block) /\ Len(new) = c
    <2>1. \A i \in 1 .. c : MergedBlock(s, U(i), v) \in Block
      BY <1>6, <1>7
    <2>2. QED
      BY <1>5, <2>1
  <1>9. blks \in Seq(Block)
    BY DEF Types, BlockTypes
  <1>10. /\ blks' \in Seq(Block)
         /\ Len(blks') = Len(blks) + c
         /\ \A i \in 1 .. Len(blks) : blks'[i] = blks[i]
         /\ \A i \in Len(blks) + 1 .. Len(blks) + c : blks'[i] = new[i - Len(blks)]
    <2> HIDE DEF new
    <2>1. blks' \in Seq(Block) /\ Len(blks') = Len(blks) + c
      BY <1>1, <1>5, <1>8, <1>9
    <2>2. \A i \in 1 .. Len(blks) : blks'[i] = blks[i]
      BY <1>1, <1>5, <1>8, <1>9
    <2>3. \A i \in Len(blks) + 1 .. Len(blks) + c : blks'[i] = new[i - Len(blks)]
      BY <1>1, <1>4, <1>5, <1>8, <1>9
    <2>4. QED
      BY <2>1, <2>2, <2>3
  <1>11. ASSUME NEW i \in Len(blks) + 1 .. Len(blks')
         PROVE  \E u \in M : at[u] = i /\ blks'[i] = MergedBlock(s, u, v)
    <2>1. i - Len(blks) \in 1 .. c /\ Len(blks) + (i - Len(blks)) = i
      BY <1>4, <1>5, <1>10
    <2>2. blks'[i] = MergedBlock(s, U(i - Len(blks)), v)
      BY <1>10, <2>1
    <2>3. U(i - Len(blks)) \in M /\ at[U(i - Len(blks))] = i
      BY <1>7, <2>1
    <2>4. QED
      BY <2>2, <2>3
  <1>12. MergesInto(w, M, at)
    BY <1>3, <1>5, <1>10, <1>11 DEF MergesInto, s, v, M, at
  <1>13. QED
    BY <1>4, <1>5, <1>10, <1>12

-----------------------------------------------------------------------------
(* The steps, by what they leave alone. *)

(* The first segment without, and with, its edge label block. *)
InitFails(w) == InitSegment(w) /\ allocs + 1 = MemLimit

Inits(w) == InitSegment(w) /\ allocs + 1 # MemLimit

(* Steps of a writer that touch only locks, the allocator and the writer. *)
LockStep(w) ==
  \/ LockFutex(w) \/ LocateSegment(w) \/ Restart(w) \/ Reshare(w) \/ UseBlock(w)
  \/ OutOfMemory(w) \/ InitFails(w)
  \/ \E v \in Vertices : PutEdge(w, v)

LEMMA LockStepFrame ==
  ASSUME NEW w \in Writers, LockStep(w)
  PROVE  UNCHANGED <<wepoch, hist, tabs, segptr, segs, blks, recycle, freed, rd>>
  <1>1. CASE LocateSegment(w)
    BY <1>1 DEF LocateSegment, store
  <1>2. CASE Restart(w)
    BY <1>2 DEF Restart, store
  <1>3. CASE Reshare(w)
    BY <1>3 DEF Reshare, store
  <1>4. CASE UseBlock(w)
    BY <1>4 DEF UseBlock, store
  <1>5. CASE OutOfMemory(w)
    BY <1>5 DEF OutOfMemory, store
  <1>6. CASE \E v \in Vertices : PutEdge(w, v)
    BY <1>6 DEF PutEdge, store
  <1>7. CASE LockFutex(w)
    BY <1>7 DEF LockFutex, store
  <1>8. CASE InitFails(w)
    BY <1>8 DEF InitFails, InitSegment
  <1>9. QED
    BY <1>1, <1>2, <1>3, <1>4, <1>5, <1>6, <1>7, <1>8 DEF LockStep

LEMMA ReadFrame ==
  ASSUME NEW r \in Readers, Read(r)
  PROVE  UNCHANGED <<wepoch, hist, tabs, segptr, segs, blks, allocs, recycle, freed,
                     futex, shared, excl, wr>>
  <1>1. CASE \E e \in LogEpochs, kind \in {"internal", "fragment"} : OpenReader(r, e, kind)
    BY <1>1 DEF OpenReader, store, locks
  <1>2. CASE \E v \in Vertices : GetEdges(r, v)
    <2>1. PICK v \in Vertices : GetEdges(r, v)
      BY <1>2
    <2>2. QED
      BY <2>1 DEF GetEdges, store, locks
  <1>3. CASE LoadBlock(r)
    BY <1>3 DEF LoadBlock, store, locks
  <1>4. CASE LoadTable(r)
    BY <1>4 DEF LoadTable, store, locks
  <1>5. CASE ReadNull(r)
    BY <1>5 DEF ReadNull, store, locks
  <1>6. CASE LoadNum(r)
    BY <1>6 DEF LoadNum, store, locks
  <1>7. CASE ReadEmptyBlock(r)
    BY <1>7 DEF ReadEmptyBlock, store, locks
  <1>8. CASE InitIterator(r)
    BY <1>8 DEF InitIterator, store, locks
  <1>9. CASE ReadRecycled(r)
    BY <1>9 DEF ReadRecycled, store, locks
  <1>10. CASE EndRead(r)
    BY <1>10 DEF EndRead, store, locks
  <1>11. CASE CloseReader(r)
    BY <1>11 DEF CloseReader, store, locks
  <1>12. QED
    BY <1>1, <1>2, <1>3, <1>4, <1>5, <1>6, <1>7, <1>8, <1>9, <1>10, <1>11 DEF Read

(* Every step is one of these. *)
StoreStep(w) ==
  \/ Inits(w) \/ GrowBlock(w) \/ SegmentFull(w) \/ MergeSegment(w)
  \/ CreateTable(w) \/ ReplaceTable(w) \/ AppendEpoch(w) \/ AppendEdge(w)

LEMMA NextCases ==
  ASSUME Next
  PROVE  \/ \E e \in LogEpochs : NextEpoch(e)
         \/ Recycle
         \/ \E w \in Writers : LockStep(w) \/ StoreStep(w)
         \/ \E r \in Readers : Read(r)
  BY DEF Next, Write, WriterStep, LockStep, StoreStep, InitFails, Inits

(* Where a writer may be. *)
LEMMA WriterAt ==
  ASSUME Types, NEW w \in Writers
  PROVE  /\ wr[w] \in WriterType
         /\ wr[w].seg \in 0 .. Len(segs)
         /\ wr[w].blk \in 0 .. Len(blks)
         /\ wr[w].pc # "idle" => wr[w].v \in Vertices
         /\ wr[w].pc \in {"reshare", "block", "merge", "table", "append", "edge"} =>
              wr[w].seg \in 1 .. Len(segs)
         /\ wr[w].pc \in {"table", "append", "edge"} => wr[w].blk \in 1 .. Len(blks)
  <1>1. wr[w] \in WriterType /\ WriterPlace(w)
    BY DEF Types, WriterTypes
  <1>2. Len(segs) \in Nat /\ Len(blks) \in Nat
    BY DEF Types, SegTypes, BlockTypes
  <1>3. wr[w].seg \in Nat /\ wr[w].blk \in Nat
    BY <1>1 DEF WriterType
  <1>4. QED
    BY <1>1, <1>2, <1>3 DEF WriterPlace

(* The block of a vertex in a segment. *)
LEMMA RegionAt ==
  ASSUME Types, NEW s \in 0 .. Len(segs), NEW v \in Vertices
  PROVE  Region(s, v) \in 0 .. Len(blks) /\ EpochTableOf(s, v) \in 0 .. Len(tabs[v])
  <1>1. Len(segs) \in Nat /\ Len(blks) \in Nat
    BY DEF Types, SegTypes, BlockTypes
  <1>2. Len(tabs[v]) \in Nat
    BY DEF Types, ListTypes
  <1>3. CASE s = 0
    BY <1>1, <1>2, <1>3 DEF Region, EpochTableOf
  <1>4. CASE s \in 1 .. Len(segs)
    <2>1. /\ segs[s].region \in [Vertices -> 0 .. Len(blks)]
          /\ segs[s].etab \in [Vertices -> Nat]
      BY <1>4, SegmentFields DEF Types
    <2>2. segs[s].etab[v] <= Len(tabs[v])
      BY <1>4 DEF Types, SegTypes
    <2>3. QED
      BY <1>2, <1>4, <2>1, <2>2 DEF Region, EpochTableOf
  <1>5. QED
    BY <1>1, <1>3, <1>4

-----------------------------------------------------------------------------
(* The blocks keep their types, and only grow. *)

BlocksGrow ==
  /\ Len(blks) <= Len(blks')
  /\ \A b \in 1 .. Len(blks) :
       /\ blks'[b].order = blks[b].order
       /\ blks'[b].prev = blks[b].prev
       /\ blks'[b].prevnum = blks[b].prevnum
       /\ Len(blks[b].ents) <= Len(blks'[b].ents)

LEMMA BlocksSame ==
  ASSUME BlockTypes, blks' = blks
  PROVE  BlockTypes' /\ BlocksGrow
  BY BlockFields DEF BlockTypes, BlocksGrow

(* The block put_edge adds when the old one is full. *)
LEMMA NewBlockFields ==
  ASSUME BlockTypes, NEW b \in 0 .. Len(blks), NEW o \in Nat
  PROVE  NewBlock(b, o) \in Block /\ NewBlock(b, o).prev <= b
  <1>1. << >> \in Seq(Nat)
    OBVIOUS
  <1>2. CASE b = 0
    BY <1>1, <1>2 DEF NewBlock, Block
  <1>3. CASE b \in 1 .. Len(blks)
    <2>1. /\ blks[b].prevnum \in Nat /\ blks[b].ents \in Seq(Nat)
          /\ Len(blks[b].ents) \in Nat /\ b \in Nat
      BY <1>3, BlockFields
    <2>2. QED
      BY <1>1, <1>3, <2>1 DEF NewBlock, Block
  <1>4. QED
    BY <1>2, <1>3 DEF BlockTypes

LEMMA NewOrderType ==
  ASSUME BlockTypes, NEW b \in 0 .. Len(blks)
  PROVE  NewBlockOrder(b) \in Nat
  <1>1. DEFAULT_INIT_ORDER \in Nat
    BY SegGraphAssumption
  <1>2. QED
    BY <1>1, BlockFields DEF NewBlockOrder

LEMMA GrowBlocks ==
  ASSUME Types, NEW w \in Writers, GrowBlock(w)
  PROVE  LET b == Region(wr[w].seg, wr[w].v) IN
         /\ b \in 0 .. Len(blks)
         /\ blks' = Append(blks, NewBlock(b, NewBlockOrder(b)))
         /\ NewBlock(b, NewBlockOrder(b)) \in Block
         /\ NewBlock(b, NewBlockOrder(b)).prev <= b
  <1> DEFINE b == Region(wr[w].seg, wr[w].v)
  <1>1. wr[w].seg \in 1 .. Len(segs) /\ wr[w].v \in Vertices
    BY WriterAt DEF GrowBlock, NeedsBlock
  <1>2. b = segs[wr[w].seg].region[wr[w].v]
    BY <1>1 DEF Region
  <1>3. b \in 0 .. Len(blks)
    BY <1>1, RegionAt DEF Types, SegTypes
  <1>4. blks' = Append(blks, NewBlock(b, NewBlockOrder(b)))
    BY <1>2 DEF GrowBlock
  <1> HIDE DEF b
  <1>5. QED
    BY <1>3, <1>4, NewOrderType, NewBlockFields DEF b, Types

(* put_edge's last step: the entry, if the block has room for it. *)
LEMMA AppendBlocks ==
  ASSUME Types, NEW w \in Writers, AppendEdge(w)
  PROVE  LET b == wr[w].blk
             n == Len(hist[wr[w].v]) + 1 IN
         /\ b \in 1 .. Len(blks)
         /\ n \in Nat
         /\ blks' = [blks EXCEPT ![b] = [blks[b] EXCEPT !.ents =
                       IF HasSpace(b) THEN Append(blks[b].ents, n) ELSE blks[b].ents]]
  <1>1. wr[w].blk \in 1 .. Len(blks) /\ wr[w].v \in Vertices
    BY WriterAt DEF AppendEdge
  <1>2. Len(hist[wr[w].v]) + 1 \in Nat
    BY <1>1 DEF Types, ListTypes
  <1>3. QED
    BY <1>1, <1>2 DEF AppendEdge

(* Only three steps change the blocks. *)
LEMMA BlocksKept ==
  ASSUME NEW w \in Writers,
         \/ LockStep(w) \/ Inits(w) \/ SegmentFull(w) \/ CreateTable(w)
         \/ ReplaceTable(w) \/ AppendEpoch(w) \/ (MergeSegment(w) /\ MergeCrashes(w))
  PROVE  blks' = blks
  <1>1. CASE LockStep(w)
    BY <1>1, LockStepFrame
  <1>2. CASE Inits(w)
    BY <1>2 DEF Inits, InitSegment
  <1>3. CASE SegmentFull(w)
    BY <1>3 DEF SegmentFull
  <1>4. CASE CreateTable(w)
    BY <1>4 DEF CreateTable
  <1>5. CASE ReplaceTable(w)
    BY <1>5 DEF ReplaceTable
  <1>6. CASE AppendEpoch(w)
    BY <1>6 DEF AppendEpoch
  <1>7. CASE MergeSegment(w) /\ MergeCrashes(w)
    BY <1>7 DEF MergeSegment, MergeCrashes
  <1>8. QED
    BY <1>1, <1>2, <1>3, <1>4, <1>5, <1>6, <1>7

LEMMA BlockStep ==
  ASSUME Types, Next
  PROVE  BlockTypes' /\ BlocksGrow
  <1> BlockTypes /\ blks \in Seq(Block) /\ Len(blks) \in Nat
    BY DEF Types, BlockTypes
  <1>1. CASE \E e \in LogEpochs : NextEpoch(e)
    <2>1. blks' = blks
      BY <1>1 DEF NextEpoch, store
    <2>2. QED
      BY <2>1, BlocksSame
  <1>2. CASE Recycle
    <2>1. blks' = blks
      BY <1>2 DEF Recycle
    <2>2. QED
      BY <2>1, BlocksSame
  <1>3. CASE \E r \in Readers : Read(r)
    <2>1. blks' = blks
      BY <1>3, ReadFrame
    <2>2. QED
      BY <2>1, BlocksSame
  <1>4. ASSUME NEW w \in Writers, LockStep(w) \/ StoreStep(w)
        PROVE  BlockTypes' /\ BlocksGrow
    <2>1. CASE GrowBlock(w)
      <3> DEFINE b == Region(wr[w].seg, wr[w].v)
                 x == NewBlock(b, NewBlockOrder(b))
      <3>1. b \in 0 .. Len(blks) /\ x \in Block /\ x.prev <= b /\ blks' = Append(blks, x)
        BY <2>1, GrowBlocks
      <3> HIDE DEF b, x
      <3>2. /\ blks' \in Seq(Block) /\ Len(blks') = Len(blks) + 1
            /\ \A c \in 1 .. Len(blks) : blks'[c] = blks[c]
            /\ blks'[Len(blks) + 1] = x
        BY <3>1
      <3>3. \A c \in 1 .. Len(blks') : blks'[c].prev < c
        <4> TAKE c \in 1 .. Len(blks')
        <4>1. CASE c \in 1 .. Len(blks)
          BY <3>2, <4>1 DEF BlockTypes
        <4>2. CASE c = Len(blks) + 1
          <5>1. x.prev \in Nat
            BY <3>1 DEF Block
          <5>2. QED
            BY <3>1, <3>2, <4>2, <5>1
        <4>3. QED
          BY <3>2, <4>1, <4>2
      <3>4. BlocksGrow
        BY <3>2, BlockFields DEF BlocksGrow
      <3>5. QED
        BY <3>2, <3>3, <3>4 DEF BlockTypes
    <2>2. CASE MergeSegment(w) /\ ~ MergeCrashes(w)
      <3>1. /\ \E M, at : MergesInto(w, M, at)
            /\ blks' \in Seq(Block)
            /\ Len(blks') >= Len(blks)
            /\ \A i \in 1 .. Len(blks) : blks'[i] = blks[i]
        BY <2>2, MergeBlocks
      <3>2. \A c \in 1 .. Len(blks') : blks'[c].prev < c
        <4> TAKE c \in 1 .. Len(blks')
        <4>1. CASE c \in 1 .. Len(blks)
          BY <3>1, <4>1 DEF BlockTypes
        <4>2. CASE c \in Len(blks) + 1 .. Len(blks')
          <5>1. PICK M, at : MergesInto(w, M, at)
            BY <3>1
          <5>2. PICK u \in M : blks'[c] = MergedBlock(wr[w].seg, u, wr[w].v)
            BY <4>2, <5>1 DEF MergesInto
          <5>3. blks'[c].prev = 0
            BY <5>2 DEF MergedBlock
          <5>4. QED
            BY <4>2, <5>3
        <4>3. QED
          BY <3>1, <4>1, <4>2
      <3>3. BlocksGrow
        BY <3>1, BlockFields DEF BlocksGrow
      <3>4. QED
        BY <3>1, <3>2, <3>3 DEF BlockTypes
    <2>3. CASE AppendEdge(w)
      <3> DEFINE b == wr[w].blk
                 n == Len(hist[wr[w].v]) + 1
                 x == [blks[b] EXCEPT !.ents =
                         IF HasSpace(b) THEN Append(blks[b].ents, n) ELSE blks[b].ents]
      <3>1. b \in 1 .. Len(blks) /\ n \in Nat /\ blks' = [blks EXCEPT ![b] = x]
        BY <2>3, AppendBlocks
      <3> HIDE DEF b, n
      <3>2. /\ blks[b] \in Block /\ blks[b].ents \in Seq(Nat)
            /\ Len(blks[b].ents) \in Nat
        BY <3>1, BlockFields
      <3>3. /\ Append(blks[b].ents, n) \in Seq(Nat)
            /\ Len(Append(blks[b].ents, n)) = Len(blks[b].ents) + 1
        BY <3>1, <3>2
      <3>4. /\ x \in Block /\ x.order = blks[b].order /\ x.prev = blks[b].prev
            /\ x.prevnum = blks[b].prevnum /\ Len(x.ents) >= Len(blks[b].ents)
        <4> DEFINE es == IF HasSpace(b) THEN Append(blks[b].ents, n) ELSE blks[b].ents
        <4>1. es \in Seq(Nat) /\ Len(es) >= Len(blks[b].ents)
          BY <3>2, <3>3
        <4> HIDE DEF es
        <4>2. x = [blks[b] EXCEPT !.ents = es]
          BY DEF es
        <4>3. QED
          BY <3>2, <4>1, <4>2 DEF Block
      <3> HIDE DEF x
      <3>5. /\ blks' \in Seq(Block) /\ Len(blks') = Len(blks)
            /\ \A c \in 1 .. Len(blks) : blks'[c] = IF c = b THEN x ELSE blks[c]
        BY <3>1, <3>4
      <3>6. \A c \in 1 .. Len(blks') : blks'[c].prev < c
        BY <3>4, <3>5 DEF BlockTypes
      <3>7. BlocksGrow
        BY <3>2, <3>4, <3>5, BlockFields, SMTT(30) DEF BlocksGrow
      <3>8. QED
        BY <3>5, <3>6, <3>7 DEF BlockTypes
    <2>4. CASE blks' = blks
      BY <2>4, BlocksSame
    <2>5. QED
      BY <1>4, <2>1, <2>2, <2>3, <2>4, BlocksKept DEF StoreStep
  <1>5. QED
    BY <1>1, <1>2, <1>3, <1>4, NextCases

-----------------------------------------------------------------------------
(* The histories and the epoch tables keep their types, and only grow. *)

ListsGrow ==
  /\ \A v \in Vertices : Len(hist[v]) <= Len(hist'[v])
  /\ \A v \in Vertices : Len(tabs[v]) <= Len(tabs'[v])

LEMMA ListsSame ==
  ASSUME ListTypes, wepoch' \in LogEpochs, hist' = hist, tabs' = tabs
  PROVE  ListTypes' /\ ListsGrow
  <1>1. \A v \in Vertices : Len(hist[v]) \in Nat /\ Len(tabs[v]) \in Nat
    BY DEF ListTypes
  <1>2. QED
    BY <1>1 DEF ListTypes, ListsGrow

LEMMA ListsKept ==
  ASSUME NEW w \in Writers,
         \/ LockStep(w) \/ Inits(w) \/ SegmentFull(w) \/ GrowBlock(w)
         \/ MergeSegment(w)
  PROVE  wepoch' = wepoch /\ hist' = hist /\ tabs' = tabs
  <1>1. CASE LockStep(w)
    BY <1>1, LockStepFrame
  <1>2. CASE Inits(w)
    BY <1>2 DEF Inits, InitSegment
  <1>3. CASE SegmentFull(w)
    BY <1>3 DEF SegmentFull
  <1>4. CASE GrowBlock(w)
    BY <1>4 DEF GrowBlock
  <1>5. CASE MergeSegment(w)
    BY <1>5 DEF MergeSegment
  <1>6. QED
    BY <1>1, <1>2, <1>3, <1>4, <1>5

(* The table a writer works on. *)
LEMMA TableAt ==
  ASSUME Types, NEW w \in Writers, wr[w].pc \in {"table", "append", "edge"}
  PROVE  /\ Table(w) \in 0 .. Len(tabs[wr[w].v])
         /\ Table(w) = EpochTableOf(wr[w].seg, wr[w].v)
         /\ tabs[wr[w].v] \in Seq(Seq(EpochEntry))
         /\ Table(w) # 0 => tabs[wr[w].v][Table(w)] \in Seq(EpochEntry)
  <1>1. wr[w].seg \in 1 .. Len(segs) /\ wr[w].v \in Vertices
    BY WriterAt
  <1>2. Table(w) = EpochTableOf(wr[w].seg, wr[w].v)
    BY <1>1 DEF Table, EpochTableOf
  <1>3. Table(w) \in 0 .. Len(tabs[wr[w].v])
    BY <1>1, <1>2, RegionAt DEF Types, SegTypes
  <1>4. tabs[wr[w].v] \in Seq(Seq(EpochEntry))
    BY <1>1 DEF Types, ListTypes
  <1>5. QED
    BY <1>2, <1>3, <1>4

LEMMA ListStep ==
  ASSUME Types, Next
  PROVE  ListTypes' /\ ListsGrow
  <1> ListTypes
    BY DEF Types
  <1>1. CASE \E e \in LogEpochs : NextEpoch(e)
    BY <1>1, ListsSame DEF NextEpoch, store
  <1>2. CASE Recycle
    BY <1>2, ListsSame DEF Recycle, ListTypes
  <1>3. CASE \E r \in Readers : Read(r)
    BY <1>3, ReadFrame, ListsSame DEF ListTypes
  <1>4. ASSUME NEW w \in Writers, LockStep(w) \/ StoreStep(w)
        PROVE  ListTypes' /\ ListsGrow
    <2> DEFINE v == wr[w].v
    <2>0. wepoch \in LogEpochs /\ wepoch \in Nat
      BY SegGraphAssumption DEF ListTypes
    <2>1. ASSUME NEW x \in Seq(Seq(EpochEntry)), v \in Vertices,
                 Len(tabs[v]) <= Len(x), tabs' = [tabs EXCEPT ![v] = x],
                 hist' = hist, wepoch' = wepoch
          PROVE  ListTypes' /\ ListsGrow
      <3>1. tabs' \in [Vertices -> Seq(Seq(EpochEntry))]
        BY <2>1 DEF ListTypes
      <3>2. \A u \in Vertices : Len(tabs[u]) <= Len(tabs'[u]) /\ Len(hist[u]) <= Len(hist'[u])
        <4>1. \A u \in Vertices : Len(tabs[u]) \in Nat /\ Len(hist[u]) \in Nat
          BY DEF ListTypes
        <4>2. QED
          BY <2>1, <4>1 DEF ListTypes
      <3>3. QED
        BY <2>1, <3>1, <3>2 DEF ListTypes, ListsGrow
    <2>2. CASE CreateTable(w)
      <3>1. v \in Vertices /\ tabs[v] \in Seq(Seq(EpochEntry))
        BY <2>2, WriterAt DEF CreateTable, ListTypes
      <3>2. <<[offset |-> 0, epoch |-> wepoch]>> \in Seq(EpochEntry)
        BY <2>0 DEF EpochEntry
      <3> DEFINE y == <<[offset |-> 0, epoch |-> wepoch]>>
                 x == Append(tabs[v], y)
      <3>3. tabs' = [tabs EXCEPT ![v] = x] /\ hist' = hist /\ wepoch' = wepoch
        BY <2>2 DEF CreateTable
      <3> HIDE DEF y
      <3>4. x \in Seq(Seq(EpochEntry)) /\ Len(tabs[v]) <= Len(x)
        BY <3>1, <3>2 DEF y
      <3> HIDE DEF x
      <3>5. QED
        BY <2>1, <3>1, <3>3, <3>4
    <2>3. CASE ReplaceTable(w)
      <3> DEFINE x == Append(tabs[v], tabs[v][Table(w)])
      <3>1. /\ v \in Vertices /\ tabs[v] \in Seq(Seq(EpochEntry))
            /\ tabs[v][Table(w)] \in Seq(EpochEntry)
        BY <2>3, WriterAt, TableAt DEF ReplaceTable, NewEpochDue
      <3>2. tabs' = [tabs EXCEPT ![v] = x] /\ hist' = hist /\ wepoch' = wepoch
        BY <2>3 DEF ReplaceTable
      <3>3. x \in Seq(Seq(EpochEntry)) /\ Len(tabs[v]) <= Len(x)
        BY <3>1
      <3> HIDE DEF x
      <3>4. QED
        BY <2>1, <3>1, <3>2, <3>3
    <2>4. CASE AppendEpoch(w)
      <3> DEFINE b == wr[w].blk
                 y == [offset |-> blks[b].prevnum + Len(blks[b].ents), epoch |-> wepoch]
                 t == Append(tabs[v][Table(w)], y)
                 x == [tabs[v] EXCEPT ![Table(w)] = t]
      <3>1. /\ v \in Vertices /\ tabs[v] \in Seq(Seq(EpochEntry))
            /\ Table(w) \in 1 .. Len(tabs[v])
            /\ tabs[v][Table(w)] \in Seq(EpochEntry) /\ b \in 1 .. Len(blks)
        BY <2>4, WriterAt, TableAt DEF AppendEpoch, NewEpochDue
      <3>2. y \in EpochEntry
        <4>1. blks[b].prevnum \in Nat /\ Len(blks[b].ents) \in Nat
          BY <3>1, BlockFields DEF Types
        <4>2. QED
          BY <2>0, <4>1, SMTT(30) DEF EpochEntry
      <3>3. tabs' = [tabs EXCEPT ![v] = x] /\ hist' = hist /\ wepoch' = wepoch
        BY <2>4, <3>1 DEF AppendEpoch, ListTypes
      <3> HIDE DEF y
      <3>4. t \in Seq(EpochEntry)
        BY <3>1, <3>2
      <3> HIDE DEF t
      <3>5. x \in Seq(Seq(EpochEntry)) /\ Len(tabs[v]) <= Len(x)
        BY <3>1, <3>4
      <3> HIDE DEF x
      <3>6. QED
        BY <2>1, <3>1, <3>3, <3>5
    <2>5. CASE AppendEdge(w)
      <3>1. v \in Vertices
        BY <2>5, WriterAt DEF AppendEdge
      <3>2. hist' = [hist EXCEPT ![v] = Append(hist[v], wepoch)] /\ tabs' = tabs
            /\ wepoch' = wepoch
        BY <2>5 DEF AppendEdge, ListTypes
      <3>3. hist[v] \in Seq(LogEpochs) /\ \A u \in Vertices : Len(hist[u]) \in Nat /\ Len(tabs[u]) \in Nat
        BY <3>1 DEF ListTypes
      <3>4. Append(hist[v], wepoch) \in Seq(LogEpochs) /\ Len(Append(hist[v], wepoch)) = Len(hist[v]) + 1
        BY <2>0, <3>3
      <3>5. QED
        BY <2>0, <3>1, <3>2, <3>3, <3>4 DEF ListTypes, ListsGrow
    <2>6. CASE LockStep(w) \/ Inits(w) \/ SegmentFull(w) \/ GrowBlock(w) \/ MergeSegment(w)
      BY <2>6, <2>0, ListsKept, ListsSame
    <2>7. QED
      BY <1>4, <2>2, <2>3, <2>4, <2>5, <2>6 DEF StoreStep
  <1>5. QED
    BY <1>1, <1>2, <1>3, <1>4, NextCases

-----------------------------------------------------------------------------
(* The segments keep their types, and none is ever dropped. *)

SegmentForm(x) ==
  x = [order |-> x.order, used |-> x.used, region |-> x.region, etab |-> x.etab]

LEMMA FormType ==
  ASSUME NEW x, SegmentForm(x), NEW A, NEW B, NEW C, NEW D,
         x.order \in A, x.used \in B, x.region \in C, x.etab \in D
  PROVE  x \in [order : A, used : B, region : C, etab : D]
  BY DEF SegmentForm

LEMMA SegmentsType ==
  ASSUME NEW S, segs' \in Seq(S), segptr' = Len(segs'),
         \A s \in 1 .. Len(segs') :
           /\ SegmentForm(segs'[s])
           /\ segs'[s].order \in Nat
           /\ segs'[s].region \in [Vertices -> 0 .. Len(blks')]
           /\ segs'[s].etab \in [Vertices -> Nat]
           /\ \A v \in Vertices : segs'[s].etab[v] <= Len(tabs'[v])
  PROVE  SegTypes'
  <1> DEFINE Used == {segs'[s].used : s \in DOMAIN segs'}
             T == [order : Nat, used : Used,
                   region : [Vertices -> 0 .. Len(blks')], etab : [Vertices -> Nat]]
  <1>1. DOMAIN segs' = 1 .. Len(segs')
    OBVIOUS
  <1>2. ASSUME NEW s \in 1 .. Len(segs') PROVE segs'[s] \in T
    <2>1. segs'[s].used \in Used
      BY <1>1
    <2> DEFINE R == [Vertices -> 0 .. Len(blks')]
               E == [Vertices -> Nat]
               y == segs'[s]
    <2>2. /\ SegmentForm(y) /\ y.order \in Nat /\ y.region \in R /\ y.etab \in E
          /\ y.used \in Used
      BY <2>1
    <2> HIDE DEF Used, R, E, y
    <2>3. y \in [order : Nat, used : Used, region : R, etab : E]
      BY <2>2, FormType
    <2>4. QED
      BY <2>3 DEF R, E, y
  <1>3. segs' \in Seq(T)
    <2> HIDE DEF T
    <2>1. QED
      BY <1>2
  <1>4. Segment' = T
    BY DEF Segment
  <1> HIDE DEF T
  <1>5. QED
    BY <1>3, <1>4 DEF SegTypes

(* What a segment was, it stays while the blocks and tables grow. *)
LEMMA SegmentStays ==
  ASSUME Types, Next, NEW s \in 1 .. Len(segs)
  PROVE  /\ SegmentForm(segs[s])
         /\ segs[s].order \in Nat
         /\ segs[s].region \in [Vertices -> 0 .. Len(blks')]
         /\ segs[s].etab \in [Vertices -> Nat]
         /\ \A v \in Vertices : segs[s].etab[v] <= Len(tabs'[v])
  <1>1. /\ SegmentForm(segs[s])
        /\ segs[s].order \in Nat
        /\ segs[s].region \in [Vertices -> 0 .. Len(blks)]
        /\ segs[s].etab \in [Vertices -> Nat]
    BY SegmentFields DEF Types, SegmentForm
  <1>2. Len(blks) \in Nat /\ Len(blks') \in Nat /\ Len(blks) <= Len(blks')
    BY BlockStep DEF Types, BlockTypes, BlocksGrow
  <1>3. 0 .. Len(blks) \subseteq 0 .. Len(blks')
    BY <1>2
  <1>4. ASSUME NEW v \in Vertices PROVE segs[s].etab[v] <= Len(tabs'[v])
    <2>1. segs[s].etab[v] <= Len(tabs[v]) /\ Len(tabs[v]) <= Len(tabs'[v])
      BY ListStep DEF Types, SegTypes, ListsGrow
    <2>2. Len(tabs[v]) \in Nat /\ Len(tabs'[v]) \in Nat
      BY ListStep DEF Types, ListTypes
    <2>3. QED
      BY <1>1, <2>1, <2>2
  <1>5. QED
    BY <1>1, <1>3, <1>4

LEMMA SegsSame ==
  ASSUME Types, Next, segs' = segs, segptr' = segptr
  PROVE  SegTypes'
  <1>1. segs' \in Seq(Segment) /\ segptr' = Len(segs')
    BY DEF Types, SegTypes
  <1>2. QED
    BY <1>1, SegmentStays, SegmentsType

LEMMA SegReplaced ==
  ASSUME Types, Next, NEW s \in 1 .. Len(segs), NEW x,
         segs' = [segs EXCEPT ![s] = x], segptr' = segptr,
         SegmentForm(x),
         x.order \in Nat,
         x.region \in [Vertices -> 0 .. Len(blks')],
         x.etab \in [Vertices -> Nat],
         \A v \in Vertices : x.etab[v] <= Len(tabs'[v])
  PROVE  /\ SegTypes'
         /\ Len(segs') = Len(segs)
         /\ segs'[s] = x
         /\ \A t \in 1 .. Len(segs) : t # s => segs'[t] = segs[t]
  <1>1. segs \in Seq(Segment) /\ segptr = Len(segs)
    BY DEF Types, SegTypes
  <1> DEFINE S == Segment \cup {x}
  <1>2. segs \in Seq(S)
    <2>1. \A t \in 1 .. Len(segs) : segs[t] \in S
      BY <1>1
    <2> HIDE DEF S
    <2>2. QED
      BY <1>1, <2>1
  <1>3. /\ segs' \in Seq(S) /\ Len(segs') = Len(segs) /\ segs'[s] = x
        /\ \A t \in 1 .. Len(segs) : t # s => segs'[t] = segs[t]
    <2>1. x \in S
      OBVIOUS
    <2> HIDE DEF S
    <2>2. QED
      BY <1>2, <2>1
  <1>4. ASSUME NEW t \in 1 .. Len(segs')
        PROVE  /\ SegmentForm(segs'[t])
               /\ segs'[t].order \in Nat
               /\ segs'[t].region \in [Vertices -> 0 .. Len(blks')]
               /\ segs'[t].etab \in [Vertices -> Nat]
               /\ \A v \in Vertices : segs'[t].etab[v] <= Len(tabs'[v])
    <2>1. CASE t = s
      BY <1>3, <2>1
    <2>2. CASE t # s
      BY <1>3, <2>2, SegmentStays
    <2>3. QED
      BY <2>1, <2>2
  <1> HIDE DEF S
  <1>5. SegTypes'
    BY <1>1, <1>3, <1>4, SegmentsType
  <1>6. QED
    BY <1>3, <1>5

LEMMA SegAdded ==
  ASSUME Types, Next, NEW x,
         segs' = Append(segs, x), segptr' = Len(segs) + 1,
         SegmentForm(x),
         x.order \in Nat,
         x.region \in [Vertices -> 0 .. Len(blks')],
         x.etab \in [Vertices -> Nat],
         \A v \in Vertices : x.etab[v] <= Len(tabs'[v])
  PROVE  /\ SegTypes'
         /\ Len(segs') = Len(segs) + 1
         /\ segs'[Len(segs) + 1] = x
         /\ \A t \in 1 .. Len(segs) : segs'[t] = segs[t]
  <1>1. segs \in Seq(Segment)
    BY DEF Types, SegTypes
  <1> DEFINE S == Segment \cup {x}
  <1>2. segs \in Seq(S)
    <2>1. \A t \in 1 .. Len(segs) : segs[t] \in S
      BY <1>1
    <2> HIDE DEF S
    <2>2. QED
      BY <1>1, <2>1
  <1>3. /\ segs' \in Seq(S) /\ Len(segs') = Len(segs) + 1
        /\ segs'[Len(segs) + 1] = x
        /\ \A t \in 1 .. Len(segs) : segs'[t] = segs[t]
    <2>1. x \in S
      OBVIOUS
    <2> HIDE DEF S
    <2>2. QED
      BY <1>2, <2>1
  <1>4. ASSUME NEW t \in 1 .. Len(segs')
        PROVE  /\ SegmentForm(segs'[t])
               /\ segs'[t].order \in Nat
               /\ segs'[t].region \in [Vertices -> 0 .. Len(blks')]
               /\ segs'[t].etab \in [Vertices -> Nat]
               /\ \A v \in Vertices : segs'[t].etab[v] <= Len(tabs'[v])
    <2>1. CASE t = Len(segs) + 1
      BY <1>3, <2>1
    <2>2. CASE t \in 1 .. Len(segs)
      BY <1>3, <2>2, SegmentStays
    <2>3. QED
      BY <1>1, <1>3, <2>1, <2>2
  <1> HIDE DEF S
  <1>5. SegTypes'
    BY <1>1, <1>3, <1>4, SegmentsType
  <1>6. QED
    BY <1>3, <1>5

(* A segment of which only some parts are replaced. *)
OtherSegsKept(s) ==
  /\ Len(segs') = Len(segs)
  /\ segptr' = segptr
  /\ \A t \in 1 .. Len(segs) : t # s => segs'[t] = segs[t]

LEMMA GrowSegs ==
  ASSUME Types, Next, NEW w \in Writers, GrowBlock(w)
  PROVE  LET s == wr[w].seg
             v == wr[w].v IN
         /\ SegTypes'
         /\ OtherSegsKept(s)
         /\ s \in 1 .. Len(segs) /\ v \in Vertices
         /\ segs'[s].order = segs[s].order
         /\ segs'[s].used = SlotsAfter(w)
         /\ segs'[s].region = [segs[s].region EXCEPT ![v] = Len(blks) + 1]
         /\ segs'[s].etab = segs[s].etab
  <1> DEFINE s == wr[w].seg
             v == wr[w].v
             reg == [segs[s].region EXCEPT ![v] = Len(blks) + 1]
             u == SlotsAfter(w)
             x == [order |-> segs[s].order, used |-> u, region |-> reg,
                   etab |-> segs[s].etab]
  <1>1. s \in 1 .. Len(segs) /\ v \in Vertices
    BY WriterAt DEF GrowBlock, NeedsBlock
  <1>2. /\ segs \in Seq(Segment)
        /\ segs[s] = [order |-> segs[s].order, used |-> segs[s].used,
                      region |-> segs[s].region, etab |-> segs[s].etab]
        /\ segs[s].region \in [Vertices -> 0 .. Len(blks)]
    BY <1>1, SegmentFields DEF Types, SegTypes
  <1>3. /\ segs' = [segs EXCEPT ![s].used = u, ![s].region[v] = Len(blks) + 1]
        /\ segptr' = segptr
    BY DEF GrowBlock
  <1>4. Len(blks') = Len(blks) + 1 /\ Len(blks) \in Nat
    <2>1. blks \in Seq(Block) /\ Len(blks) \in Nat
      BY DEF Types, BlockTypes
    <2> DEFINE y == NewBlock(Region(s, v), NewBlockOrder(Region(s, v)))
    <2>2. blks' = Append(blks, y) /\ y \in Block
      BY GrowBlocks
    <2> HIDE DEF y
    <2>3. QED
      BY <2>1, <2>2
  <1> HIDE DEF s, v, u
  <1>5. segs' = [segs EXCEPT ![s] = x]
    BY <1>1, <1>2, <1>3
  <1>6. /\ SegmentForm(x) /\ x.order = segs[s].order /\ x.region = reg
        /\ x.etab = segs[s].etab /\ x.used = u
    BY DEF SegmentForm
  <1>7. reg \in [Vertices -> 0 .. Len(blks')]
    BY <1>1, <1>2, <1>4
  <1> HIDE DEF x, reg
  <1>8. /\ SegTypes' /\ Len(segs') = Len(segs) /\ segs'[s] = x
        /\ \A t \in 1 .. Len(segs) : t # s => segs'[t] = segs[t]
    BY <1>1, <1>3, <1>5, <1>6, <1>7, SegmentStays, SegReplaced
  <1>9. QED
    BY <1>1, <1>3, <1>6, <1>8 DEF OtherSegsKept, s, v, u, reg

LEMMA FullSegs ==
  ASSUME Types, Next, NEW w \in Writers, SegmentFull(w)
  PROVE  LET s == wr[w].seg IN
         /\ SegTypes'
         /\ OtherSegsKept(s)
         /\ s \in 1 .. Len(segs)
         /\ segs'[s].order = segs[s].order
         /\ segs'[s].used = SlotsAfter(w)
         /\ segs'[s].region = segs[s].region
         /\ segs'[s].etab = segs[s].etab
  <1> DEFINE s == wr[w].seg
             u == SlotsAfter(w)
             x == [order |-> segs[s].order, used |-> u, region |-> segs[s].region,
                   etab |-> segs[s].etab]
  <1>1. s \in 1 .. Len(segs)
    BY WriterAt DEF SegmentFull, NeedsBlock
  <1>2. /\ segs \in Seq(Segment)
        /\ segs[s] = [order |-> segs[s].order, used |-> segs[s].used,
                      region |-> segs[s].region, etab |-> segs[s].etab]
    BY <1>1, SegmentFields DEF Types, SegTypes
  <1>3. segs' = [segs EXCEPT ![s].used = u] /\ segptr' = segptr
    BY DEF SegmentFull
  <1> HIDE DEF s, u
  <1>4. segs' = [segs EXCEPT ![s] = x]
    <2>1. [segs[s] EXCEPT !.used = u] = x
      BY <1>2
    <2>2. segs' = [segs EXCEPT ![s] = [segs[s] EXCEPT !.used = u]]
      BY <1>1, <1>2, <1>3
    <2>3. QED
      BY <2>1, <2>2
  <1>5. /\ SegmentForm(x) /\ x.order = segs[s].order /\ x.region = segs[s].region
        /\ x.etab = segs[s].etab /\ x.used = u
    BY DEF SegmentForm
  <1> HIDE DEF x
  <1>6. /\ SegTypes' /\ Len(segs') = Len(segs) /\ segs'[s] = x
        /\ \A t \in 1 .. Len(segs) : t # s => segs'[t] = segs[t]
    BY <1>1, <1>3, <1>4, <1>5, SegmentStays, SegReplaced
  <1>7. QED
    BY <1>1, <1>3, <1>5, <1>6 DEF OtherSegsKept, s, u

(* Both steps that give a vertex a new table. *)
LEMMA TableSegs ==
  ASSUME Types, Next, NEW w \in Writers, CreateTable(w) \/ ReplaceTable(w)
  PROVE  LET s == wr[w].seg
             v == wr[w].v IN
         /\ SegTypes'
         /\ OtherSegsKept(s)
         /\ s \in 1 .. Len(segs) /\ v \in Vertices
         /\ segs'[s].order = segs[s].order /\ segs'[s].used = segs[s].used
         /\ segs'[s].region = segs[s].region
         /\ segs'[s].etab = [segs[s].etab EXCEPT ![v] = Len(tabs[v]) + 1]
         /\ Len(tabs'[v]) = Len(tabs[v]) + 1
  <1> DEFINE s == wr[w].seg
             v == wr[w].v
             e == [segs[s].etab EXCEPT ![v] = Len(tabs[v]) + 1]
             x == [order |-> segs[s].order, used |-> segs[s].used,
                   region |-> segs[s].region, etab |-> e]
  <1>1. s \in 1 .. Len(segs) /\ v \in Vertices
    BY WriterAt DEF CreateTable, ReplaceTable, NewEpochDue
  <1>2. /\ segs \in Seq(Segment)
        /\ segs[s] = [order |-> segs[s].order, used |-> segs[s].used,
                      region |-> segs[s].region, etab |-> segs[s].etab]
        /\ segs[s].etab \in [Vertices -> Nat]
    BY <1>1, SegmentFields DEF Types, SegTypes
  <1>3. segs' = [segs EXCEPT ![s].etab[v] = Len(tabs[v]) + 1] /\ segptr' = segptr
    BY DEF CreateTable, ReplaceTable
  <1>4. tabs \in [Vertices -> Seq(Seq(EpochEntry))] /\ Len(tabs[v]) \in Nat
    BY <1>1 DEF Types, ListTypes
  <1>5. Len(tabs'[v]) = Len(tabs[v]) + 1
    <2>1. CASE CreateTable(w)
      <3> DEFINE y == <<[offset |-> 0, epoch |-> wepoch]>>
      <3>1. tabs' = [tabs EXCEPT ![v] = Append(tabs[v], y)]
        BY <2>1 DEF CreateTable
      <3>2. y \in Seq(EpochEntry)
        BY SegGraphAssumption DEF EpochEntry, Types, ListTypes
      <3> HIDE DEF y
      <3>3. QED
        BY <1>1, <1>4, <3>1, <3>2
    <2>2. CASE ReplaceTable(w)
      <3> DEFINE y == tabs[v][Table(w)]
      <3>1. tabs' = [tabs EXCEPT ![v] = Append(tabs[v], y)]
        BY <2>2 DEF ReplaceTable
      <3>2. y \in Seq(EpochEntry)
        BY <2>2, TableAt DEF ReplaceTable, NewEpochDue
      <3> HIDE DEF y
      <3>3. QED
        BY <1>1, <1>4, <3>1, <3>2
    <2>3. QED
      BY <2>1, <2>2
  <1> HIDE DEF s, v
  <1>6. segs' = [segs EXCEPT ![s] = x]
    <2>1. segs' = [segs EXCEPT ![s] = [segs[s] EXCEPT !.etab = e]]
      BY <1>1, <1>2, <1>3
    <2> HIDE DEF e
    <2>2. [segs[s] EXCEPT !.etab = e] = x
      BY <1>2
    <2>3. QED
      BY <2>1, <2>2
  <1>7. /\ SegmentForm(x) /\ x.order = segs[s].order /\ x.region = segs[s].region
        /\ x.etab = e /\ x.used = segs[s].used
    BY DEF SegmentForm
  <1>8. e \in [Vertices -> Nat] /\ \A u \in Vertices : e[u] <= Len(tabs'[u])
    <2>1. e \in [Vertices -> Nat]
      BY <1>1, <1>2, <1>4
    <2>2. ASSUME NEW u \in Vertices PROVE e[u] <= Len(tabs'[u])
      <3>1. CASE u = v
        BY <1>2, <1>4, <1>5, <3>1
      <3>2. CASE u # v
        BY <1>1, <1>2, <3>2, SegmentStays
      <3>3. QED
        BY <3>1, <3>2
    <2>3. QED
      BY <2>1, <2>2
  <1> HIDE DEF x, e
  <1>9. /\ SegTypes' /\ Len(segs') = Len(segs) /\ segs'[s] = x
        /\ \A t \in 1 .. Len(segs) : t # s => segs'[t] = segs[t]
    BY <1>1, <1>3, <1>6, <1>7, <1>8, SegmentStays, SegReplaced
  <1>10. QED
    BY <1>1, <1>3, <1>5, <1>7, <1>9 DEF OtherSegsKept, s, v, e

LEMMA InitSegs ==
  ASSUME Types, Next, NEW w \in Writers, Inits(w)
  PROVE  /\ SegTypes'
         /\ Len(segs') = Len(segs) + 1 /\ segptr' = Len(segs) + 1
         /\ \A t \in 1 .. Len(segs) : segs'[t] = segs[t]
         /\ segs'[Len(segs) + 1].order = 1 /\ segs'[Len(segs) + 1].used = 0
         /\ segs'[Len(segs) + 1].region = [v \in Vertices |-> 0]
         /\ segs'[Len(segs) + 1].etab = [v \in Vertices |-> 0]
  <1> DEFINE x == NewSegment(1)
  <1>1. segs' = Append(segs, x) /\ segptr' = Len(segs) + 1
    BY DEF Inits, InitSegment
  <1>2. /\ SegmentForm(x) /\ x.order \in Nat /\ x.order = 1 /\ x.used = 0
        /\ x.region = [v \in Vertices |-> 0] /\ x.etab = [v \in Vertices |-> 0]
    BY DEF SegmentForm, NewSegment
  <1>3. Len(blks') \in Nat /\ \A v \in Vertices : Len(tabs'[v]) \in Nat
    BY BlockStep, ListStep DEF BlockTypes, ListTypes
  <1> HIDE DEF x
  <1>4. /\ x.region \in [Vertices -> 0 .. Len(blks')] /\ x.etab \in [Vertices -> Nat]
        /\ \A v \in Vertices : x.etab[v] <= Len(tabs'[v])
    BY <1>2, <1>3
  <1>5. /\ SegTypes' /\ Len(segs') = Len(segs) + 1 /\ segs'[Len(segs) + 1] = x
        /\ \A t \in 1 .. Len(segs) : segs'[t] = segs[t]
    BY <1>1, <1>2, <1>4, SegAdded
  <1>6. QED
    BY <1>1, <1>2, <1>5

LEMMA MergeSegs ==
  ASSUME Types, Next, NEW w \in Writers, MergeSegment(w), ~ MergeCrashes(w),
         NEW M, NEW at, MergesInto(w, M, at)
  PROVE  LET s == wr[w].seg IN
         /\ SegTypes'
         /\ s = segptr /\ s \in 1 .. Len(segs)
         /\ Len(segs') = Len(segs) + 1 /\ segptr' = Len(segs) + 1
         /\ \A t \in 1 .. Len(segs) : segs'[t] = segs[t]
         /\ segs'[Len(segs) + 1].order = MergeOrder(s)
         /\ segs'[Len(segs) + 1].used = MergedSlots(s, wr[w].v)
         /\ \A u \in M : segs'[Len(segs) + 1].region[u] = at[u]
         /\ \A u \in Vertices \ M : segs'[Len(segs) + 1].region[u] = 0
         /\ \A u \in M : segs'[Len(segs) + 1].etab[u] = segs[s].etab[u]
         /\ \A u \in Vertices \ M : segs'[Len(segs) + 1].etab[u] = 0
  <1> DEFINE s == wr[w].seg
             v == wr[w].v
             n == MergedSlots(s, v)
             reg == [u \in Vertices |-> IF u \in M THEN at[u] ELSE 0]
             e == [u \in Vertices |-> IF u \in M THEN segs[s].etab[u] ELSE 0]
             x == [order |-> MergeOrder(s), used |-> n, region |-> reg, etab |-> e]
  <1>1. s \in 1 .. Len(segs) /\ s = segptr
    BY WriterAt DEF MergeSegment
  <1>2. segs' = Append(segs, x) /\ segptr' = Len(segs) + 1
    BY ZenonT(40) DEF MergeSegment, MergeCrashes, MergedTables, MergesInto
  <1>3. segs[s].order \in Nat /\ segs[s].etab \in [Vertices -> Nat]
    BY <1>1, SegmentFields DEF Types
  <1>4. MergeOrder(s) \in Nat
    BY <1>3 DEF MergeOrder
  <1>5. Len(blks) \in Nat /\ Len(blks') \in Nat /\ \A u \in Vertices : Len(tabs'[u]) \in Nat
    BY BlockStep, ListStep DEF Types, BlockTypes, ListTypes
  <1>6. at \in [M -> Len(blks) + 1 .. Len(blks')]
    BY DEF MergesInto
  <1>7. reg \in [Vertices -> 0 .. Len(blks')]
    BY <1>5, <1>6
  <1>8. e \in [Vertices -> Nat]
    BY <1>3
  <1> HIDE DEF s, v, n
  <1>9. \A u \in Vertices : e[u] <= Len(tabs'[u])
    BY <1>1, <1>3, <1>5, SegmentStays
  <1>10. /\ SegmentForm(x) /\ x.order = MergeOrder(s) /\ x.region = reg /\ x.etab = e
         /\ x.used = n
    BY DEF SegmentForm
  <1> HIDE DEF x, reg, e
  <1>11. /\ SegTypes' /\ Len(segs') = Len(segs) + 1 /\ segs'[Len(segs) + 1] = x
         /\ \A t \in 1 .. Len(segs) : segs'[t] = segs[t]
    BY <1>2, <1>4, <1>7, <1>8, <1>9, <1>10, SegAdded
  <1>12. /\ \A u \in M : reg[u] = at[u] /\ e[u] = segs[s].etab[u]
         /\ \A u \in Vertices \ M : reg[u] = 0 /\ e[u] = 0
    <2>1. M \subseteq Vertices
      BY DEF MergesInto, Merged
    <2>2. QED
      BY <2>1 DEF reg, e
  <1>13. QED
    BY <1>1, <1>2, <1>10, <1>11, <1>12 DEF s, v, n

LEMMA SegsKept ==
  ASSUME NEW w \in Writers,
         \/ LockStep(w) \/ AppendEpoch(w) \/ AppendEdge(w)
         \/ (MergeSegment(w) /\ MergeCrashes(w))
  PROVE  segs' = segs /\ segptr' = segptr
  <1>1. CASE LockStep(w)
    BY <1>1, LockStepFrame
  <1>2. CASE AppendEpoch(w)
    BY <1>2 DEF AppendEpoch
  <1>3. CASE AppendEdge(w)
    BY <1>3 DEF AppendEdge
  <1>4. CASE MergeSegment(w) /\ MergeCrashes(w)
    BY <1>4 DEF MergeSegment, MergeCrashes
  <1>5. QED
    BY <1>1, <1>2, <1>3, <1>4

LEMMA SegStep ==
  ASSUME Types, Next
  PROVE  SegTypes' /\ Len(segs) <= Len(segs')
  <1> Len(segs) \in Nat
    BY DEF Types, SegTypes
  <1>1. CASE \E e \in LogEpochs : NextEpoch(e)
    <2>1. segs' = segs /\ segptr' = segptr
      BY <1>1 DEF NextEpoch, store
    <2>2. QED
      BY <2>1, SegsSame
  <1>2. CASE Recycle
    <2>1. segs' = segs /\ segptr' = segptr
      BY <1>2 DEF Recycle
    <2>2. QED
      BY <2>1, SegsSame
  <1>3. CASE \E r \in Readers : Read(r)
    <2>1. segs' = segs /\ segptr' = segptr
      BY <1>3, ReadFrame
    <2>2. QED
      BY <2>1, SegsSame
  <1>4. ASSUME NEW w \in Writers, LockStep(w) \/ StoreStep(w)
        PROVE  SegTypes' /\ Len(segs) <= Len(segs')
    <2>1. CASE Inits(w)
      BY <2>1, InitSegs
    <2>2. CASE GrowBlock(w)
      <3>1. SegTypes' /\ OtherSegsKept(wr[w].seg)
        BY <2>2, GrowSegs
      <3>2. QED
        BY <3>1 DEF OtherSegsKept
    <2>3. CASE SegmentFull(w)
      <3>1. SegTypes' /\ OtherSegsKept(wr[w].seg)
        BY <2>3, FullSegs
      <3>2. QED
        BY <3>1 DEF OtherSegsKept
    <2>4. CASE MergeSegment(w) /\ ~ MergeCrashes(w)
      <3>1. PICK M, at : MergesInto(w, M, at)
        BY <2>4, MergeBlocks
      <3>2. SegTypes' /\ Len(segs') = Len(segs) + 1
        BY <2>4, <3>1, MergeSegs
      <3>3. QED
        BY <3>2
    <2>5. CASE CreateTable(w) \/ ReplaceTable(w)
      <3>1. SegTypes' /\ OtherSegsKept(wr[w].seg)
        BY <2>5, TableSegs
      <3>2. QED
        BY <3>1 DEF OtherSegsKept
    <2>6. CASE LockStep(w) \/ AppendEpoch(w) \/ AppendEdge(w)
                 \/ (MergeSegment(w) /\ MergeCrashes(w))
      <3>1. segs' = segs /\ segptr' = segptr
        BY <2>6, SegsKept
      <3>2. QED
        BY <3>1, SegsSame
    <2>7. QED
      BY <1>4, <2>1, <2>2, <2>3, <2>4, <2>5, <2>6 DEF StoreStep
  <1>5. QED
    BY <1>1, <1>2, <1>3, <1>4, NextCases

-----------------------------------------------------------------------------
(* Recycling and the locks. *)

LEMMA RecycleStep ==
  ASSUME Types, Next
  PROVE  RecycleTypes'
  <1> USE DEF RecycleTypes
  <1>0. /\ RecycleTypes /\ SegTypes' /\ Len(segs) <= Len(segs')
        /\ Len(segs) \in Nat /\ Len(segs') \in Nat
        /\ segptr = Len(segs) /\ segptr' = Len(segs')
        /\ wepoch \in Nat /\ wepoch' \in Nat /\ wepoch \in LogEpochs
        /\ LogEpochs \subseteq Nat
    <2>1. /\ RecycleTypes /\ SegTypes' /\ Len(segs) <= Len(segs')
          /\ SegTypes /\ ListTypes /\ ListTypes'
      BY SegStep, ListStep DEF Types
    <2>2. LogEpochs \subseteq Nat
      BY SegGraphAssumption
    <2>3. wepoch \in LogEpochs /\ wepoch' \in LogEpochs
      BY <2>1 DEF ListTypes
    <2>4. /\ segptr = Len(segs) /\ Len(segs) \in Nat
          /\ segptr' = Len(segs') /\ Len(segs') \in Nat
      BY <2>1 DEF SegTypes
    <2>5. QED
      BY <2>1, <2>2, <2>3, <2>4
  <1>1. CASE recycle' = recycle /\ freed' = freed /\ wepoch' >= wepoch
    <2>1. \A x \in recycle : x[1] \in 1 .. Len(segs') /\ x[1] # segptr' /\ x[2] <= wepoch'
      <3> TAKE x \in recycle
      <3>1. x[1] \in 1 .. Len(segs) /\ x[1] # Len(segs) /\ x[2] <= wepoch /\ x[2] \in Nat
        BY <1>0
      <3>2. QED
        BY <1>0, <1>1, <3>1
    <2>2. \A x \in freed : x \in 1 .. Len(segs') /\ x # segptr'
      <3> TAKE x \in freed
      <3>1. x \in 1 .. Len(segs) /\ x # Len(segs)
        BY <1>0
      <3>2. QED
        BY <1>0, <3>1
    <2>3. recycle \subseteq (1 .. Len(segs')) \X LogEpochs
      BY <1>0, <2>1
    <2>4. QED
      BY <1>1, <2>1, <2>2, <2>3
  <1>2. CASE \E e \in LogEpochs : NextEpoch(e)
    BY <1>0, <1>1, <1>2 DEF NextEpoch, store
  <1>3. CASE Recycle
    <2> DEFINE old == {x \in recycle : x[2] + LAG_EPOCH_NUMBER < wepoch}
    <2>1. /\ recycle' = recycle \ old /\ freed' = freed \cup {x[1] : x \in old}
          /\ segs' = segs /\ segptr' = segptr /\ wepoch' = wepoch
      BY <1>3 DEF Recycle
    <2>2. \A x \in old : x[1] \in (1 .. Len(segs)) \ {segptr}
      BY <1>0
    <2>3. freed' \subseteq (1 .. Len(segs)) \ {segptr}
      BY <1>0, <2>1, <2>2
    <2> HIDE DEF old
    <2>4. QED
      BY <1>0, <2>1, <2>3
  <1>4. CASE \E r \in Readers : Read(r)
    BY <1>0, <1>1, <1>4, ReadFrame
  <1>5. ASSUME NEW w \in Writers, LockStep(w) \/ StoreStep(w) PROVE RecycleTypes'
    <2>1. CASE MergeSegment(w) /\ ~ MergeCrashes(w)
      <3>1. PICK M, at : MergesInto(w, M, at)
        BY <2>1, MergeBlocks
      <3>2. /\ wr[w].seg = segptr /\ segptr \in 1 .. Len(segs)
            /\ Len(segs') = Len(segs) + 1 /\ segptr' = Len(segs) + 1
        BY <2>1, <3>1, MergeSegs
      <3>3. recycle' = recycle \cup {<<segptr, wepoch>>} /\ freed' = freed /\ wepoch' = wepoch
        BY <2>1, <3>2 DEF MergeSegment, MergeCrashes
      <3>4. \A x \in recycle' : x[1] \in 1 .. Len(segs) /\ x[2] \in LogEpochs /\ x[2] <= wepoch
        <4> TAKE x \in recycle'
        <4>1. CASE x \in recycle
          BY <1>0, <4>1
        <4>2. CASE x = <<segptr, wepoch>>
          BY <1>0, <3>2, <4>2
        <4>3. QED
          BY <3>3, <4>1, <4>2
      <3>5. recycle' \subseteq (1 .. Len(segs')) \X LogEpochs
        <4>1. \A x \in recycle' : x = <<x[1], x[2]>>
          BY <1>0, <3>3
        <4>2. QED
          BY <1>0, <3>2, <3>4, <4>1
      <3>6. \A x \in freed' : x \in 1 .. Len(segs') /\ x # segptr'
        BY <1>0, <3>2, <3>3
      <3>7. QED
        BY <1>0, <3>2, <3>3, <3>4, <3>5, <3>6
    <2>2. CASE \/ LockStep(w) \/ Inits(w) \/ GrowBlock(w) \/ SegmentFull(w)
               \/ CreateTable(w) \/ ReplaceTable(w) \/ AppendEpoch(w) \/ AppendEdge(w)
               \/ (MergeSegment(w) /\ MergeCrashes(w))
      <3>1. recycle' = recycle /\ freed' = freed /\ wepoch' = wepoch
        <4>1. CASE LockStep(w)
          BY <4>1, LockStepFrame
        <4>2. CASE Inits(w) \/ GrowBlock(w) \/ SegmentFull(w)
          BY <4>2 DEF Inits, InitSegment, GrowBlock, SegmentFull
        <4>3. CASE CreateTable(w) \/ ReplaceTable(w)
          BY <4>3 DEF CreateTable, ReplaceTable
        <4>4. CASE AppendEpoch(w) \/ AppendEdge(w)
          BY <4>4 DEF AppendEpoch, AppendEdge
        <4>5. CASE MergeSegment(w) /\ MergeCrashes(w)
          BY <4>5 DEF MergeSegment, MergeCrashes
        <4>6. QED
          BY <2>2, <4>1, <4>2, <4>3, <4>4, <4>5
      <3>2. QED
        BY <1>0, <1>1, <3>1
    <2>3. QED
      BY <1>5, <2>1, <2>2 DEF StoreStep
  <1>6. QED
    BY <1>2, <1>3, <1>4, <1>5, NextCases

LEMMA LockTypesStep ==
  ASSUME Types, Next
  PROVE  LockTypes'
  <1> LockTypes
    BY DEF Types
  <1> USE DEF LockTypes
  <1>1. CASE \E e \in LogEpochs : NextEpoch(e)
    BY <1>1 DEF NextEpoch, locks
  <1>2. CASE Recycle
    BY <1>2 DEF Recycle, locks
  <1>3. CASE \E r \in Readers : Read(r)
    BY <1>3, ReadFrame
  <1>4. ASSUME NEW w \in Writers, LockStep(w) \/ StoreStep(w)
        PROVE  LockTypes'
    <2>1. CASE LocateSegment(w)
      BY <2>1 DEF LocateSegment
    <2>2. CASE Restart(w) \/ UseBlock(w)
      BY <2>2 DEF Restart, UseBlock, locks
    <2>3. CASE Reshare(w)
      BY <2>3 DEF Reshare
    <2>4. CASE OutOfMemory(w)
      <3>1. futex' = futex /\ shared' = shared /\ (excl' = excl \/ excl' = w)
        BY <2>4 DEF OutOfMemory
      <3>2. QED
        BY <3>1
    <2>5. CASE \E v \in Vertices : PutEdge(w, v)
      BY <2>5 DEF PutEdge, locks
    <2>6. CASE Inits(w) \/ GrowBlock(w) \/ MergeSegment(w)
      BY <2>6 DEF Inits, InitSegment, GrowBlock, MergeSegment, locks
    <2>7. CASE SegmentFull(w)
      BY <2>7 DEF SegmentFull
    <2>8. CASE CreateTable(w) \/ ReplaceTable(w) \/ AppendEpoch(w)
      BY <2>8 DEF CreateTable, ReplaceTable, AppendEpoch, locks
    <2>9. CASE AppendEdge(w)
      BY <2>9 DEF AppendEdge, Released
    <2>10. CASE LockFutex(w)
      BY <2>10 DEF LockFutex
    <2>11. CASE InitFails(w)
      BY <2>11 DEF InitFails, InitSegment, locks
    <2>12. QED
      BY <1>4, <2>1, <2>2, <2>3, <2>4, <2>5, <2>6, <2>7, <2>8, <2>9, <2>10, <2>11
         DEF StoreStep, LockStep
  <1>5. QED
    BY <1>1, <1>2, <1>3, <1>4, NextCases

-----------------------------------------------------------------------------
(* The writers keep their types. *)

WritersPast(q) ==
  /\ q \in WriterType
  /\ q.seg <= Len(segs')
  /\ q.blk <= Len(blks')
  /\ q.pc # "idle" => q.v \in Vertices
  /\ q.pc \in {"reshare", "block", "merge", "table", "append", "edge"} => q.seg # 0
  /\ q.pc \in {"table", "append", "edge"} => q.blk # 0

(* A writer that stays where it is. *)
LEMMA WriterStays ==
  ASSUME Types, Next, NEW w \in Writers
  PROVE  WritersPast(wr[w])
  <1>1. /\ Len(segs) \in Nat /\ Len(segs') \in Nat /\ Len(segs) <= Len(segs')
        /\ Len(blks) \in Nat /\ Len(blks') \in Nat /\ Len(blks) <= Len(blks')
    BY SegStep, BlockStep DEF Types, SegTypes, BlockTypes, BlocksGrow
  <1>2. /\ wr[w] \in WriterType /\ wr[w].seg \in 0 .. Len(segs)
        /\ wr[w].blk \in 0 .. Len(blks)
    BY WriterAt
  <1>3. WriterPlace(w)
    BY DEF Types, WriterTypes
  <1>4. QED
    BY <1>1, <1>2, <1>3 DEF WritersPast, WriterPlace

LEMMA WritersStay ==
  ASSUME Types, Next, wr' = wr
  PROVE  WriterTypes'
  <1>1. wr' \in [Writers -> WriterType]
    BY DEF Types, WriterTypes
  <1>2. \A w \in Writers : WriterPlace(w)'
    BY WriterStays DEF WriterPlace, WritersPast
  <1>3. WriterType' = WriterType
    BY DEF WriterType
  <1>4. QED
    BY <1>1, <1>2, <1>3 DEF WriterTypes

LEMMA WriterMoves ==
  ASSUME Types, Next, NEW w \in Writers, NEW q,
         wr' = [wr EXCEPT ![w] = q], WritersPast(q)
  PROVE  WriterTypes'
  <1>1. wr \in [Writers -> WriterType]
    BY DEF Types, WriterTypes
  <1>2. \A x \in Writers : wr'[x] = IF x = w THEN q ELSE wr[x]
    BY <1>1
  <1>3. \A x \in Writers : WritersPast(wr'[x])
    BY <1>2, WriterStays
  <1>4. wr' \in [Writers -> WriterType]
    BY <1>1, <1>3 DEF WritersPast
  <1>5. \A x \in Writers : WriterPlace(x)'
    BY <1>3 DEF WriterPlace, WritersPast
  <1>6. WriterType' = WriterType
    BY DEF WriterType
  <1>7. QED
    BY <1>4, <1>5, <1>6 DEF WriterTypes

LEMMA WriterEdit ==
  ASSUME NEW p \in WriterType, NEW a, NEW s, NEW b
  PROVE  /\ [p EXCEPT !.pc = a] =
               [pc |-> a, v |-> p.v, seg |-> p.seg, blk |-> p.blk]
         /\ [p EXCEPT !.pc = a, !.seg = s] =
               [pc |-> a, v |-> p.v, seg |-> s, blk |-> p.blk]
         /\ [p EXCEPT !.pc = a, !.blk = b] =
               [pc |-> a, v |-> p.v, seg |-> p.seg, blk |-> b]
  <1>1. p = [pc |-> p.pc, v |-> p.v, seg |-> p.seg, blk |-> p.blk]
    BY DEF WriterType
  <1>2. /\ DOMAIN p = {"pc", "v", "seg", "blk"}
        /\ p = [f \in DOMAIN p |-> p[f]]
    BY DEF WriterType
  <1>3. [p EXCEPT !.pc = a] = [pc |-> a, v |-> p.v, seg |-> p.seg, blk |-> p.blk]
    BY <1>2
  <1>4. [p EXCEPT !.pc = a, !.seg = s] =
          [pc |-> a, v |-> p.v, seg |-> s, blk |-> p.blk]
    <2> DEFINE q == [p EXCEPT !.pc = a, !.seg = s]
    <2>1. DOMAIN q = DOMAIN p /\ q = [f \in DOMAIN q |-> q[f]]
      OBVIOUS
    <2>2. q.pc = a /\ q.v = p.v /\ q.seg = s /\ q.blk = p.blk
      BY <1>2
    <2> HIDE DEF q
    <2>3. q = [pc |-> a, v |-> p.v, seg |-> s, blk |-> p.blk]
      BY <1>2, <2>1, <2>2
    <2>4. QED
      BY <2>3 DEF q
  <1>5. [p EXCEPT !.pc = a, !.blk = b] =
          [pc |-> a, v |-> p.v, seg |-> p.seg, blk |-> b]
    <2> DEFINE q == [p EXCEPT !.pc = a, !.blk = b]
    <2>1. DOMAIN q = DOMAIN p /\ q = [f \in DOMAIN q |-> q[f]]
      OBVIOUS
    <2>2. q.pc = a /\ q.v = p.v /\ q.seg = p.seg /\ q.blk = b
      BY <1>2
    <2> HIDE DEF q
    <2>3. q = [pc |-> a, v |-> p.v, seg |-> p.seg, blk |-> b]
      BY <1>2, <2>1, <2>2
    <2>4. QED
      BY <2>3 DEF q
  <1>6. QED
    BY <1>3, <1>4, <1>5

LEMMA IdleWriterPast ==
  ASSUME Types, Next
  PROVE  WritersPast(IdleWriter)
  <1>1. Len(segs') \in Nat /\ Len(blks') \in Nat
    BY SegStep, BlockStep DEF SegTypes, BlockTypes
  <1>2. QED
    BY <1>1 DEF WritersPast, IdleWriter, WriterType

LEMMA WriterTypesStep ==
  ASSUME Types, Next
  PROVE  WriterTypes'
  <1>0. /\ Len(segs) \in Nat /\ Len(segs') \in Nat /\ Len(segs) <= Len(segs')
        /\ Len(blks) \in Nat /\ Len(blks') \in Nat /\ Len(blks) <= Len(blks')
        /\ segptr = Len(segs)
    BY SegStep, BlockStep DEF Types, SegTypes, BlockTypes, BlocksGrow
  <1>1. CASE \E e \in LogEpochs : NextEpoch(e)
    BY <1>1, WritersStay DEF NextEpoch
  <1>2. CASE Recycle
    BY <1>2, WritersStay DEF Recycle
  <1>3. CASE \E r \in Readers : Read(r)
    BY <1>3, ReadFrame, WritersStay
  <1>4. ASSUME NEW w \in Writers, LockStep(w) \/ StoreStep(w)
        PROVE  WriterTypes'
    <2> DEFINE p == wr[w]
    <2>0. p \in WriterType /\ WritersPast(p) /\ wr \in [Writers -> WriterType]
      BY WriterStays DEF Types, WriterTypes, WritersPast
    <2>f. /\ p = [pc |-> p.pc, v |-> p.v, seg |-> p.seg, blk |-> p.blk]
          /\ p.seg \in Nat /\ p.blk \in Nat
      BY <2>0 DEF WriterType
    <2>1. CASE LocateSegment(w)
      <3> DEFINE a == IF segptr = 0 THEN "init" ELSE "block"
                 q == [pc |-> a, v |-> p.v, seg |-> segptr, blk |-> 0]
      <3>1. wr' = [wr EXCEPT ![w] = q]
        <4>1. wr' = [wr EXCEPT ![w] = [wr[w] EXCEPT !.pc = a, !.seg = segptr, !.blk = 0]]
          BY <2>1, <2>0 DEF LocateSegment
        <4> HIDE DEF a
        <4>2. wr[w] \in WriterType
          BY <2>0
        <4>3. [wr[w] EXCEPT !.pc = a, !.seg = segptr, !.blk = 0] = q
          <5> DEFINE o == [wr[w] EXCEPT !.pc = a, !.seg = segptr, !.blk = 0]
          <5>1. DOMAIN wr[w] = {"pc", "v", "seg", "blk"}
            BY <4>2 DEF WriterType
          <5>2. DOMAIN o = DOMAIN wr[w] /\ o = [f \in DOMAIN o |-> o[f]]
            OBVIOUS
          <5>3. o.pc = a /\ o.v = wr[w].v /\ o.seg = segptr /\ o.blk = 0
            BY <5>1
          <5> HIDE DEF o
          <5>4. o = q
            BY <5>1, <5>2, <5>3
          <5>5. QED
            BY <5>4 DEF o
        <4> HIDE DEF q
        <4>4. QED
          BY <4>1, <4>3
      <3>2. p.v \in Vertices
        BY <2>0, <2>1 DEF WritersPast, LocateSegment
      <3>3. WritersPast(q)
        BY <1>0, <3>2 DEF WritersPast, WriterType
      <3> HIDE DEF q
      <3>4. QED
        BY <3>1, <3>3, WriterMoves
    <2>2. CASE Restart(w) \/ LockFutex(w)
      <3> DEFINE q == [pc |-> "start", v |-> p.v, seg |-> p.seg, blk |-> p.blk]
      <3>1. wr' = [wr EXCEPT ![w] = q]
        <4>1. wr' = [wr EXCEPT ![w] = [wr[w] EXCEPT !.pc = "start"]]
          BY <2>2, <2>0 DEF Restart, LockFutex
        <4>2. QED
          BY <4>1, <2>0, WriterEdit
      <3>2. p.v \in Vertices
        BY <2>0, <2>2 DEF WritersPast, Restart, LockFutex
      <3>3. WritersPast(q)
        BY <2>0, <2>f, <3>2 DEF WritersPast, WriterType
      <3> HIDE DEF q
      <3>4. QED
        BY <3>1, <3>3, WriterMoves
    <2>3. CASE Reshare(w)
      <3> DEFINE a == IF p.blk = 0 THEN "block" ELSE "table"
                 q == [pc |-> a, v |-> p.v, seg |-> p.seg, blk |-> p.blk]
      <3>1. wr' = [wr EXCEPT ![w] = q]
        <4>1. wr' = [wr EXCEPT ![w] = [wr[w] EXCEPT !.pc = a]]
          BY <2>3, <2>0 DEF Reshare
        <4> HIDE DEF a
        <4>2. QED
          BY <4>1, <2>0, WriterEdit
      <3>2. p.v \in Vertices /\ p.seg # 0
        BY <2>0, <2>3 DEF WritersPast, Reshare
      <3>3. WritersPast(q)
        BY <2>0, <2>f, <3>2 DEF WritersPast, WriterType
      <3> HIDE DEF q
      <3>4. QED
        BY <3>1, <3>3, WriterMoves
    <2>4. CASE UseBlock(w)
      <3> DEFINE b == segs[p.seg].region[p.v]
                 q == [pc |-> "table", v |-> p.v, seg |-> p.seg, blk |-> b]
      <3>1. wr' = [wr EXCEPT ![w] = q] /\ b # 0
        <4>1. wr' = [wr EXCEPT ![w] = [wr[w] EXCEPT !.pc = "table", !.blk = b]] /\ b # 0
          BY <2>4, <2>0 DEF UseBlock
        <4>2. QED
          BY <4>1, <2>0, WriterEdit
      <3>2. p.v \in Vertices /\ p.seg \in 1 .. Len(segs)
        BY <2>4, WriterAt DEF UseBlock
      <3>3. b \in 0 .. Len(blks)
        <4>1. segs[p.seg].region \in [Vertices -> 0 .. Len(blks)]
          BY <3>2, SegmentFields DEF Types
        <4>2. QED
          BY <3>2, <4>1
      <3> HIDE DEF b
      <3>4. WritersPast(q)
        BY <1>0, <2>0, <2>f, <3>1, <3>2, <3>3 DEF WritersPast, WriterType
      <3> HIDE DEF q
      <3>5. QED
        BY <3>1, <3>4, WriterMoves
    <2>5. CASE OutOfMemory(w) \/ AppendEdge(w)
      <3>1. wr' = [wr EXCEPT ![w] = IdleWriter]
        BY <2>5 DEF OutOfMemory, AppendEdge
      <3>2. QED
        BY <3>1, IdleWriterPast, WriterMoves
    <2>6. CASE \E v \in Vertices : PutEdge(w, v)
      <3>1. PICK u \in Vertices : PutEdge(w, u)
        BY <2>6
      <3> DEFINE q == [pc |-> "futex", v |-> u, seg |-> 0, blk |-> 0]
      <3>2. wr' = [wr EXCEPT ![w] = q]
        <4>1. wr' = [wr EXCEPT ![w] = [IdleWriter EXCEPT !.pc = "futex", !.v = u]]
          BY <3>1 DEF PutEdge
        <4>2. [IdleWriter EXCEPT !.pc = "futex", !.v = u] = q
          <5> DEFINE o == [IdleWriter EXCEPT !.pc = "futex", !.v = u]
          <5>1. /\ DOMAIN IdleWriter = {"pc", "v", "seg", "blk"}
                /\ IdleWriter = [f \in DOMAIN IdleWriter |-> IdleWriter[f]]
                /\ IdleWriter.seg = 0 /\ IdleWriter.blk = 0
            BY DEF IdleWriter
          <5>2. DOMAIN o = DOMAIN IdleWriter /\ o = [f \in DOMAIN o |-> o[f]]
            OBVIOUS
          <5>3. o.pc = "futex" /\ o.v = u /\ o.seg = 0 /\ o.blk = 0
            BY <5>1
          <5> HIDE DEF o
          <5>4. o = q
            BY <5>1, <5>2, <5>3
          <5>5. QED
            BY <5>4 DEF o
        <4> HIDE DEF q
        <4>3. QED
          BY <4>1, <4>2
      <3>3. WritersPast(q)
        BY <1>0 DEF WritersPast, WriterType
      <3> HIDE DEF q
      <3>4. QED
        BY <3>2, <3>3, WriterMoves
    <2>i. CASE InitFails(w)
      <3> DEFINE q == [pc |-> "dead", v |-> p.v, seg |-> p.seg, blk |-> p.blk]
      <3>1. wr' = [wr EXCEPT ![w] = q]
        <4>1. wr' = [wr EXCEPT ![w] = [wr[w] EXCEPT !.pc = "dead"]]
          BY <2>i, <2>0 DEF InitFails, InitSegment
        <4>2. QED
          BY <4>1, <2>0, WriterEdit
      <3>2. p.v \in Vertices
        BY <2>0, <2>i DEF WritersPast, InitFails, InitSegment
      <3>3. WritersPast(q)
        BY <2>0, <2>f, <3>2 DEF WritersPast, WriterType
      <3> HIDE DEF q
      <3>4. QED
        BY <3>1, <3>3, WriterMoves
    <2>7. CASE Inits(w)
      <3> DEFINE q == [pc |-> "reshare", v |-> p.v, seg |-> Len(segs) + 1, blk |-> p.blk]
      <3>1. wr' = [wr EXCEPT ![w] = q]
        <4>1. wr' = [wr EXCEPT ![w] = [wr[w] EXCEPT !.pc = "reshare", !.seg = Len(segs) + 1]]
          BY <2>7, <2>0 DEF Inits, InitSegment
        <4>2. QED
          BY <4>1, <2>0, WriterEdit
      <3>2. p.v \in Vertices /\ Len(segs') = Len(segs) + 1
        BY <2>0, <2>7, InitSegs DEF WritersPast, Inits, InitSegment
      <3>3. WritersPast(q)
        BY <1>0, <2>0, <2>f, <3>2 DEF WritersPast, WriterType
      <3> HIDE DEF q
      <3>4. QED
        BY <3>1, <3>3, WriterMoves
    <2>8. CASE GrowBlock(w)
      <3> DEFINE q == [pc |-> "table", v |-> p.v, seg |-> p.seg, blk |-> Len(blks) + 1]
      <3>1. wr' = [wr EXCEPT ![w] = q]
        <4>1. wr' = [wr EXCEPT ![w] = [wr[w] EXCEPT !.pc = "table", !.blk = Len(blks) + 1]]
          BY <2>8, <2>0 DEF GrowBlock
        <4>2. QED
          BY <4>1, <2>0, WriterEdit
      <3>2. p.v \in Vertices /\ p.seg # 0
        BY <2>0, <2>8 DEF WritersPast, GrowBlock, NeedsBlock
      <3>3. Len(blks') = Len(blks) + 1
        <4> DEFINE y == NewBlock(Region(p.seg, p.v), NewBlockOrder(Region(p.seg, p.v)))
        <4>1. blks' = Append(blks, y) /\ y \in Block /\ blks \in Seq(Block)
          BY <2>8, GrowBlocks DEF Types, BlockTypes
        <4> HIDE DEF y
        <4>2. QED
          BY <4>1
      <3>4. WritersPast(q)
        BY <1>0, <2>0, <2>f, <3>2, <3>3 DEF WritersPast, WriterType
      <3> HIDE DEF q
      <3>5. QED
        BY <3>1, <3>4, WriterMoves
    <2>9. CASE SegmentFull(w)
      <3> DEFINE q == [pc |-> "merge", v |-> p.v, seg |-> p.seg, blk |-> p.blk]
      <3>1. wr' = [wr EXCEPT ![w] = q]
        <4>1. wr' = [wr EXCEPT ![w] = [wr[w] EXCEPT !.pc = "merge"]]
          BY <2>9, <2>0 DEF SegmentFull
        <4>2. QED
          BY <4>1, <2>0, WriterEdit
      <3>2. p.v \in Vertices /\ p.seg # 0
        BY <2>0, <2>9 DEF WritersPast, SegmentFull, NeedsBlock
      <3>3. WritersPast(q)
        BY <2>0, <2>f, <3>2 DEF WritersPast, WriterType
      <3> HIDE DEF q
      <3>4. QED
        BY <3>1, <3>3, WriterMoves
    <2>10. CASE MergeSegment(w) /\ MergeCrashes(w)
      <3> DEFINE q == [pc |-> "crashed", v |-> p.v, seg |-> p.seg, blk |-> p.blk]
      <3>1. wr' = [wr EXCEPT ![w] = q]
        BY <2>10, <2>0, <2>f DEF MergeSegment, MergeCrashes
      <3>2. p.v \in Vertices
        BY <2>0, <2>10 DEF WritersPast, MergeSegment
      <3>3. WritersPast(q)
        BY <2>0, <2>f, <3>2 DEF WritersPast, WriterType
      <3> HIDE DEF q
      <3>4. QED
        BY <3>1, <3>3, WriterMoves
    <2>11. CASE MergeSegment(w) /\ ~ MergeCrashes(w)
      <3>1. PICK M, at : MergesInto(w, M, at)
        BY <2>11, MergeBlocks
      <3> DEFINE q == [pc |-> "reshare", v |-> p.v, seg |-> Len(segs) + 1, blk |-> at[p.v]]
      <3>2. wr' = [wr EXCEPT ![w] = q]
        BY <2>11, <2>0, <2>f, <3>1 DEF MergeSegment, MergeCrashes, MergesInto
      <3>3. Len(segs') = Len(segs) + 1
        BY <2>11, <3>1, MergeSegs
      <3>4. p.v \in Vertices /\ at[p.v] \in Nat /\ at[p.v] <= Len(blks')
        BY <1>0, <3>1 DEF MergesInto
      <3>5. WritersPast(q)
        BY <1>0, <2>0, <2>f, <3>3, <3>4 DEF WritersPast, WriterType
      <3> HIDE DEF q
      <3>6. QED
        BY <3>2, <3>5, WriterMoves
    <2>12. CASE CreateTable(w) \/ AppendEpoch(w)
      <3> DEFINE q == [pc |-> "edge", v |-> p.v, seg |-> p.seg, blk |-> p.blk]
      <3>1. wr' = [wr EXCEPT ![w] = q]
        BY <2>12, <2>0, <2>f DEF CreateTable, AppendEpoch
      <3>2. p.v \in Vertices /\ p.seg # 0 /\ p.blk # 0
        BY <2>0, <2>12 DEF WritersPast, CreateTable, AppendEpoch, NewEpochDue
      <3>3. WritersPast(q)
        BY <2>0, <2>f, <3>2 DEF WritersPast, WriterType
      <3> HIDE DEF q
      <3>4. QED
        BY <3>1, <3>3, WriterMoves
    <2>13. CASE ReplaceTable(w)
      <3> DEFINE q == [pc |-> "append", v |-> p.v, seg |-> p.seg, blk |-> p.blk]
      <3>1. wr' = [wr EXCEPT ![w] = q]
        <4>1. wr' = [wr EXCEPT ![w] = [wr[w] EXCEPT !.pc = "append"]]
          BY <2>13, <2>0 DEF ReplaceTable
        <4>2. QED
          BY <4>1, <2>0, WriterEdit
      <3>2. p.v \in Vertices /\ p.seg # 0 /\ p.blk # 0
        BY <2>0, <2>13 DEF WritersPast, ReplaceTable, NewEpochDue
      <3>3. WritersPast(q)
        BY <2>0, <2>f, <3>2 DEF WritersPast, WriterType
      <3> HIDE DEF q
      <3>4. QED
        BY <3>1, <3>3, WriterMoves
    <2>14. QED
      BY <1>4, <2>i, <2>1, <2>2, <2>3, <2>4, <2>5, <2>6, <2>7, <2>8, <2>9, <2>10, <2>11,
         <2>12, <2>13 DEF StoreStep, LockStep
  <1>5. QED
    BY <1>1, <1>2, <1>3, <1>4, NextCases

-----------------------------------------------------------------------------
(* The readers keep their types. *)

LEMMA ReadersStay ==
  ASSUME Types, Next, rd' = rd
  PROVE  ReaderTypes'
  <1>1. /\ Len(segs) \in Nat /\ Len(segs') \in Nat /\ Len(segs) <= Len(segs')
        /\ Len(blks) \in Nat /\ Len(blks') \in Nat /\ Len(blks) <= Len(blks')
    BY SegStep, BlockStep DEF Types, SegTypes, BlockTypes, BlocksGrow
  <1>2. \A r \in Readers : ReaderPast(rd[r])'
    <2> TAKE r \in Readers
    <2>1. ReaderPast(rd[r])
      BY DEF Types, ReaderTypes
    <2>2. rd[r].seg \in Nat /\ (rd[r].blk \in Nat \/ rd[r].blk = -1)
      BY <2>1 DEF ReaderPast, IsReader, NotLoaded
    <2>3. IsReader(rd[r])' /\ IsReader(rd[r])
      BY <2>1 DEF ReaderPast, IsReader
    <2>4. QED
      BY <1>1, <2>1, <2>2, <2>3 DEF ReaderPast
  <1>3. QED
    BY <1>2 DEF Types, ReaderTypes

LEMMA ReaderMoves ==
  ASSUME Types, NEW r \in Readers, Read(r), NEW q,
         rd' = [rd EXCEPT ![r] = q], ReaderPast(q)
  PROVE  ReaderTypes'
  <1>1. segs' = segs /\ blks' = blks
    BY ReadFrame
  <1>2. rd = [x \in Readers |-> rd[x]] /\ \A x \in Readers : ReaderPast(rd[x])
    BY DEF Types, ReaderTypes
  <1>3. rd' = [x \in Readers |-> rd'[x]] /\ \A x \in Readers : rd'[x] \in {q, rd[x]}
    BY <1>2
  <1>4. \A x \in Readers : ReaderPast(rd'[x])
    BY <1>2, <1>3
  <1>5. \A x \in Readers : ReaderPast(rd[x])'
    BY <1>1, <1>4 DEF ReaderPast, IsReader
  <1>6. QED
    BY <1>3, <1>5 DEF ReaderTypes

LEMMA IdleReaderFields ==
  /\ DOMAIN IdleReader = {"pc", "kind", "epoch", "v", "seg", "at", "base", "baseTab",
                          "blk", "low", "tab", "num", "out", "view"}
  /\ IsReader(IdleReader) /\ IdleReader.pc = "idle"
  /\ IdleReader.seg = 0 /\ IdleReader.blk = NotLoaded
  <1>1. DOMAIN IdleReader = {"pc", "kind", "epoch", "v", "seg", "at", "base", "baseTab",
                             "blk", "low", "tab", "num", "out", "view"}
    BY DEF IdleReader
  <1>2. IdleReader = [f \in DOMAIN IdleReader |-> IdleReader[f]]
    BY DEF IdleReader
  <1>3. /\ IdleReader.pc = "idle" /\ IdleReader.kind = "internal"
        /\ IdleReader.epoch = 0 /\ IdleReader.v = NoOne /\ IdleReader.seg = 0
        /\ IdleReader.at = 0 /\ IdleReader.base = [v \in Vertices |-> 0]
        /\ IdleReader.baseTab = [v \in Vertices |-> 0]
        /\ IdleReader.blk = NotLoaded /\ IdleReader.low = 0
        /\ IdleReader.tab = NotLoaded /\ IdleReader.num = 0 /\ IdleReader.view = "fresh"
    BY DEF IdleReader
  <1>4. [v \in Vertices |-> 0] \in [Vertices -> Nat]
    OBVIOUS
  <1>5. QED
    BY <1>1, <1>2, <1>3, <1>4, SegGraphAssumption DEF IsReader

(* The fields of a reader after a step, for each kind of step. *)
LEMMA ReaderFields ==
  ASSUME Types, NEW r \in Readers
  PROVE  /\ DOMAIN rd[r] = {"pc", "kind", "epoch", "v", "seg", "at", "base", "baseTab",
                            "blk", "low", "tab", "num", "out", "view"}
         /\ ReaderPast(rd[r]) /\ IsReader(rd[r])
         /\ r \in DOMAIN rd
         /\ rd[r].seg \in 0 .. Len(segs)
         /\ Len(segs) \in Nat /\ Len(blks) \in Nat /\ segptr = Len(segs)
  <1>1. Len(segs) \in Nat /\ Len(blks) \in Nat /\ segptr = Len(segs)
    BY DEF Types, SegTypes, BlockTypes
  <1>2. rd = [x \in Readers |-> rd[x]] /\ ReaderPast(rd[r])
    BY DEF Types, ReaderTypes
  <1>3. QED
    BY <1>1, <1>2, IdleReaderFields, SMTT(30) DEF ReaderPast, IsReader

(* A read changes only its own reader. *)
LEMMA ReadMoves ==
  ASSUME NEW r \in Readers, Read(r)
  PROVE  \E q : rd' = [rd EXCEPT ![r] = q]
  <1>1. CASE \E e \in LogEpochs, kind \in {"internal", "fragment"} : OpenReader(r, e, kind)
    BY <1>1 DEF OpenReader
  <1>2. CASE \E v \in Vertices : GetEdges(r, v)
    BY <1>2 DEF GetEdges
  <1>3. CASE LoadBlock(r) \/ LoadTable(r) \/ ReadNull(r) \/ InitIterator(r)
    BY <1>3 DEF LoadBlock, LoadTable, ReadNull, InitIterator
  <1>4. CASE LoadNum(r)
    BY <1>4 DEF LoadNum
  <1>5. CASE ReadEmptyBlock(r)
    BY <1>5 DEF ReadEmptyBlock
  <1>6. CASE ReadRecycled(r)
    BY <1>6 DEF ReadRecycled
  <1>7. CASE EndRead(r) \/ CloseReader(r)
    BY <1>7 DEF EndRead, CloseReader
  <1>8. QED
    BY <1>1, <1>2, <1>3, <1>4, <1>5, <1>6, <1>7 DEF Read

LEMMA ReaderTypesStep ==
  ASSUME Types, Next
  PROVE  ReaderTypes'
  <1>1. CASE \E e \in LogEpochs : NextEpoch(e)
    BY <1>1, ReadersStay DEF NextEpoch
  <1>2. CASE Recycle
    BY <1>2, ReadersStay DEF Recycle
  <1>3. ASSUME NEW w \in Writers, LockStep(w) \/ StoreStep(w)
        PROVE  ReaderTypes'
    <2>1. rd' = rd
      <3>1. CASE LockStep(w)
        BY <3>1, LockStepFrame
      <3>2. CASE StoreStep(w)
        BY <3>2 DEF StoreStep, Inits, InitSegment, GrowBlock, SegmentFull, MergeSegment,
                    CreateTable, ReplaceTable, AppendEpoch, AppendEdge
      <3>3. QED
        BY <1>3, <3>1, <3>2
    <2>2. QED
      BY <2>1, ReadersStay
  <1>4. ASSUME NEW r \in Readers, Read(r)
        PROVE  ReaderTypes'
    <2> DEFINE p == rd[r]
    <2>0. /\ DOMAIN p = {"pc", "kind", "epoch", "v", "seg", "at", "base", "baseTab",
                         "blk", "low", "tab", "num", "out", "view"}
          /\ ReaderPast(p) /\ IsReader(p) /\ r \in DOMAIN rd
          /\ p.seg \in 0 .. Len(segs)
          /\ Len(segs) \in Nat /\ Len(blks) \in Nat /\ segptr = Len(segs)
      BY ReaderFields
    <2>1. CASE \E e \in LogEpochs, kind \in {"internal", "fragment"} :
                 OpenReader(r, e, kind)
      <3>1. PICK e \in LogEpochs, kind \in {"internal", "fragment"} :
              OpenReader(r, e, kind)
        BY <2>1
      <3> DEFINE q == [IdleReader EXCEPT !.pc = "ready", !.epoch = e, !.kind = kind]
      <3>2. rd' = [rd EXCEPT ![r] = q]
        BY <3>1 DEF OpenReader
      <3>3. ReaderPast(q)
        <4>1. DOMAIN q = DOMAIN IdleReader /\ q = [f \in DOMAIN q |-> q[f]]
          OBVIOUS
        <4>2. q.pc = "ready" /\ q.epoch = e /\ q.kind = kind
          BY IdleReaderFields
        <4>3. \A f \in DOMAIN IdleReader :
                 f \notin {"pc", "epoch", "kind"} => q[f] = IdleReader[f]
          BY IdleReaderFields
        <4>4. /\ q.v = IdleReader.v /\ q.seg = IdleReader.seg /\ q.at = IdleReader.at /\ q.base = IdleReader.base
              /\ q.baseTab = IdleReader.baseTab /\ q.blk = IdleReader.blk /\ q.low = IdleReader.low /\ q.tab = IdleReader.tab
              /\ q.num = IdleReader.num /\ q.view = IdleReader.view
          BY IdleReaderFields, <4>3
        <4> HIDE DEF q
        <4>5. IsReader(q)
          BY <2>0, <4>1, <4>2, <4>4, IdleReaderFields DEF IsReader, NotLoaded
        <4>6. QED
          BY <2>0, <4>2, <4>4, <4>5, IdleReaderFields DEF ReaderPast, NotLoaded
      <3> HIDE DEF q
      <3>4. QED
        BY <1>4, <3>2, <3>3, ReaderMoves
    <2>2. CASE \E v \in Vertices : GetEdges(r, v)
      <3>1. PICK v \in Vertices : GetEdges(r, v)
        BY <2>2
      <3>2. CASE p.kind = "internal" /\ p.seg # 0
        <4> DEFINE q == [p EXCEPT !.pc = "load", !.v = v]
        <4>1. rd' = [rd EXCEPT ![r] = q]
          BY <2>0, <3>1, <3>2 DEF GetEdges
        <4>2. ReaderPast(q)
          BY <2>0 DEF ReaderPast, IsReader
        <4> HIDE DEF q
        <4>3. QED
          BY <1>4, <4>1, <4>2, ReaderMoves
      <3>3. CASE ~ (p.kind = "internal" /\ p.seg # 0)
        <4> DEFINE base == [u \in Vertices |-> Len(Chain(Region(segptr, u)))]
                   tab == [u \in Vertices |-> EpochTableOf(segptr, u)]
                   q == [p EXCEPT !.pc = "load", !.v = v, !.seg = segptr, !.at = wepoch,
                           !.base = base, !.baseTab = tab]
        <4>1. rd' = [rd EXCEPT ![r] = q]
          BY <2>0, <3>1, <3>3 DEF GetEdges
        <4>2. base \in [Vertices -> Nat] /\ tab \in [Vertices -> Nat]
          <5>1. ASSUME NEW u \in Vertices
                PROVE  /\ Region(segptr, u) \in 0 .. Len(blks)
                       /\ EpochTableOf(segptr, u) \in Nat
            <6>1. segptr \in 0 .. Len(segs) /\ Len(tabs[u]) \in Nat
              BY <2>0 DEF Types, ListTypes
            <6>2. QED
              BY <6>1, RegionAt
          <5>2. \A b \in 0 .. Len(blks) : Len(Chain(b)) \in Nat
            BY ChainType DEF Types
          <5>3. QED
            BY <5>1, <5>2
        <4>3. wepoch \in LogEpochs
          BY DEF Types, ListTypes
        <4> HIDE DEF base, tab
        <4>4. ReaderPast(q)
          <5>1. DOMAIN q = DOMAIN p /\ q = [f \in DOMAIN q |-> q[f]]
            OBVIOUS
          <5>2. q.pc = "load" /\ q.v = v /\ q.seg = segptr /\ q.at = wepoch /\ q.base = base /\ q.baseTab = tab
            BY <2>0
          <5>3. \A f \in DOMAIN p :
                   f \notin {"pc", "v", "seg", "at", "base", "baseTab"} => q[f] = p[f]
            BY <2>0
          <5>4. /\ q.kind = p.kind /\ q.epoch = p.epoch /\ q.blk = p.blk /\ q.low = p.low
                /\ q.tab = p.tab /\ q.num = p.num /\ q.view = p.view
            BY <2>0, <5>3
          <5> HIDE DEF q
          <5>5. IsReader(q)
            <6>1. q = [f \in DOMAIN IdleReader |-> q[f]]
              BY <2>0, <5>1, IdleReaderFields
            <6>2. segptr \in Nat
              BY <2>0
            <6>3. QED
              BY <2>0, <4>2, <4>3, <5>2, <5>4, <6>1, <6>2 DEF IsReader
          <5>6. QED
            BY <2>0, <4>2, <4>3, <5>2, <5>4, <5>5, IdleReaderFields DEF ReaderPast
        <4> HIDE DEF q
        <4>5. QED
          BY <1>4, <4>1, <4>4, ReaderMoves
      <3>4. QED
        BY <3>2, <3>3
    <2>3. CASE LoadBlock(r)
      <3> DEFINE b == Region(p.seg, p.v)
                 n == Len(Chain(b))
                 q == [p EXCEPT !.blk = b, !.low = n]
      <3>1. rd' = [rd EXCEPT ![r] = q] /\ p.pc = "load"
        BY <2>0, <2>3 DEF LoadBlock
      <3>2. b \in 0 .. Len(blks)
        BY <2>0, <3>1, RegionAt DEF ReaderPast
      <3>3. n \in Nat
        BY <3>2, ChainType DEF Types
      <3> HIDE DEF b, n
      <3>4. ReaderPast(q)
        <4>1. DOMAIN q = DOMAIN p /\ q = [f \in DOMAIN q |-> q[f]]
          OBVIOUS
        <4>2. q.blk = b /\ q.low = n
          BY <2>0
        <4>3. \A f \in DOMAIN p : f \notin {"blk", "low"} => q[f] = p[f]
          BY <2>0
        <4>4. /\ q.pc = p.pc /\ q.kind = p.kind /\ q.epoch = p.epoch /\ q.v = p.v
              /\ q.seg = p.seg /\ q.at = p.at /\ q.base = p.base /\ q.baseTab = p.baseTab
              /\ q.tab = p.tab /\ q.num = p.num /\ q.view = p.view
          BY <2>0, <4>3
        <4> HIDE DEF q
        <4>5. IsReader(q)
          BY <2>0, <3>1, <3>2, <4>1, <4>2, <4>4, <3>3, IdleReaderFields, SMTT(30) DEF IsReader
        <4>6. QED
          BY <2>0, <3>1, <3>2, <4>2, <4>4, <4>5 DEF ReaderPast
      <3> HIDE DEF q
      <3>5. QED
        BY <1>4, <3>1, <3>4, ReaderMoves
    <2>4. CASE LoadTable(r)
      <3> DEFINE t == EpochTableOf(p.seg, p.v)
                 q == [p EXCEPT !.tab = t]
      <3>1. rd' = [rd EXCEPT ![r] = q] /\ p.pc = "load"
        BY <2>0, <2>4 DEF LoadTable
      <3>2. t \in Nat
        <4>1. p.v \in Vertices
          BY <2>0, <3>1 DEF ReaderPast
        <4>2. Len(tabs[p.v]) \in Nat
          BY <4>1 DEF Types, ListTypes
        <4>3. QED
          BY <2>0, <4>1, <4>2, RegionAt
      <3> HIDE DEF t
      <3>4. ReaderPast(q)
        BY <2>0, <3>1, <3>2 DEF ReaderPast, IsReader
      <3> HIDE DEF q
      <3>5. QED
        BY <1>4, <3>1, <3>4, ReaderMoves
    <2>5. CASE LoadNum(r)
      <3> DEFINE n == blks[p.blk].prevnum + Len(blks[p.blk].ents)
                 a == IF p.tab = EpochTableOf(segptr, p.v) THEN "fresh" ELSE "stale"
                 q == [p EXCEPT !.pc = "init", !.num = n, !.view = a]
      <3>1. rd' = [rd EXCEPT ![r] = q]
        BY <2>0, <2>5 DEF LoadNum
      <3>2. /\ p.pc = "load" /\ p.blk \in Nat \ {0} /\ p.tab \in Nat \ {0}
            /\ p.blk <= Len(blks)
        BY <2>0, <2>5 DEF LoadNum, Loaded, ReaderPast, IsReader
      <3>3. n \in Nat
        <4>1. p.blk \in 1 .. Len(blks)
          BY <2>0, <3>2
        <4>2. blks[p.blk].prevnum \in Nat /\ Len(blks[p.blk].ents) \in Nat
          BY <4>1, BlockFields DEF Types
        <4>3. \A x, y \in Nat : x + y \in Nat
          OBVIOUS
        <4>4. QED
          BY <4>2, <4>3
      <3>4. a \in {"fresh", "stale"}
        OBVIOUS
      <3> HIDE DEF n, a
      <3>5. ReaderPast(q)
        <4>1. DOMAIN q = DOMAIN p /\ q = [f \in DOMAIN q |-> q[f]]
          OBVIOUS
        <4>2. q.pc = "init" /\ q.num = n /\ q.view = a
          BY <2>0
        <4>3. \A f \in DOMAIN p :
                 f \notin {"pc", "num", "view"} => q[f] = p[f]
          BY <2>0
        <4>4. /\ q.kind = p.kind /\ q.epoch = p.epoch /\ q.v = p.v /\ q.seg = p.seg
              /\ q.at = p.at /\ q.base = p.base /\ q.baseTab = p.baseTab /\ q.blk = p.blk
              /\ q.low = p.low /\ q.tab = p.tab
          BY <2>0, <4>3
        <4> HIDE DEF q
        <4>5. IsReader(q)
          BY <2>0, <3>2, <3>3, <3>4, <4>1, <4>2, <4>4, IdleReaderFields, SMTT(30) DEF IsReader
        <4>6. QED
          BY <2>0, <3>2, <3>3, <3>4, <4>2, <4>4, <4>5, IdleReaderFields DEF ReaderPast
      <3> HIDE DEF q
      <3>6. QED
        BY <1>4, <3>1, <3>5, ReaderMoves
    <2>6. CASE ReadNull(r) \/ InitIterator(r)
      <3> DEFINE O == IF ReadNull(r) THEN << >>
                      ELSE Reached(p.blk, p.num, tabs[p.v][p.tab], p.epoch)
                 q == [p EXCEPT !.pc = "done", !.out = O]
      <3>1. /\ rd' = [rd EXCEPT ![r] = q]
            /\ p.pc \in {"load", "init"}
        BY <2>0, <2>6 DEF ReadNull, InitIterator, Loaded
      <3> HIDE DEF O
      <3>2. ReaderPast(q)
        BY <2>0, <3>1 DEF ReaderPast, IsReader
      <3> HIDE DEF q
      <3>3. QED
        BY <1>4, <3>1, <3>2, ReaderMoves
    <2>7. CASE ReadEmptyBlock(r) \/ ReadRecycled(r)
      <3>1. \E o, a : /\ a \in {"fresh", "stale"} /\ p.pc \in {"load", "init"}
                      /\ rd' = [rd EXCEPT ![r].pc = "done", ![r].out = o, ![r].view = a]
        <4>1. CASE ReadEmptyBlock(r)
          <5> DEFINE c == IF p.low = 0 THEN "fresh" ELSE "stale"
          <5>1. c \in {"fresh", "stale"}
            OBVIOUS
          <5>2. p.pc \in {"load", "init"}
            BY <4>1 DEF ReadEmptyBlock, Loaded
          <5>3. rd' = [rd EXCEPT ![r].pc = "done", ![r].out = << >>, ![r].view = c]
            BY <4>1, Zenon DEF ReadEmptyBlock
          <5> HIDE DEF c
          <5>4. QED
            BY <5>1, <5>2, <5>3, Zenon
        <4>2. CASE ReadRecycled(r)
          <5>1. p.pc \in {"load", "init"}
            BY <4>2 DEF ReadRecycled
          <5>2. \E n \in 0 .. 1 :
                  rd' = [rd EXCEPT ![r].pc = "done", ![r].out = [i \in 1 .. n |-> 0],
                                   ![r].view = "stale"]
            BY <4>2, Zenon DEF ReadRecycled
          <5>3. PICK n \in 0 .. 1 :
                  rd' = [rd EXCEPT ![r].pc = "done", ![r].out = [i \in 1 .. n |-> 0],
                                   ![r].view = "stale"]
            BY <5>2, Zenon
          <5> DEFINE o == [i \in 1 .. n |-> 0]
          <5>4. rd' = [rd EXCEPT ![r].pc = "done", ![r].out = o, ![r].view = "stale"]
            BY <5>3, Zenon
          <5> HIDE DEF o
          <5>5. QED
            BY <5>1, <5>4, Zenon
        <4>3. QED
          BY <2>7, <4>1, <4>2
      <3>2. PICK o, a : /\ a \in {"fresh", "stale"} /\ p.pc \in {"load", "init"}
                        /\ rd' = [rd EXCEPT ![r].pc = "done", ![r].out = o, ![r].view = a]
        BY <3>1
      <3> DEFINE q == [p EXCEPT !.pc = "done", !.out = o, !.view = a]
      <3>3. rd' = [rd EXCEPT ![r] = q]
        BY <2>0, <3>2
      <3>4. ReaderPast(q)
        BY <2>0, <3>2 DEF ReaderPast, IsReader
      <3> HIDE DEF q
      <3>5. QED
        BY <1>4, <3>3, <3>4, ReaderMoves
    <2>8. CASE EndRead(r)
      <3> DEFINE q == [IdleReader EXCEPT !.pc = "ready", !.kind = p.kind,
                 !.epoch = p.epoch, !.seg = p.seg, !.at = p.at,
                 !.base = p.base, !.baseTab = p.baseTab]
      <3>1. rd' = [rd EXCEPT ![r] = q]
        BY <2>8 DEF EndRead
      <3>2. ReaderPast(q)
        <4>1. DOMAIN q = DOMAIN IdleReader /\ q = [f \in DOMAIN q |-> q[f]]
          OBVIOUS
        <4>2. q.pc = "ready" /\ q.kind = p.kind /\ q.epoch = p.epoch /\ q.seg = p.seg /\ q.at = p.at /\ q.base = p.base /\ q.baseTab = p.baseTab
          BY IdleReaderFields
        <4>3. \A f \in DOMAIN IdleReader :
                 f \notin {"pc", "kind", "epoch", "seg", "at", "base", "baseTab"} => q[f] = IdleReader[f]
          BY IdleReaderFields
        <4>4. /\ q.v = IdleReader.v /\ q.blk = IdleReader.blk /\ q.low = IdleReader.low /\ q.tab = IdleReader.tab
              /\ q.num = IdleReader.num /\ q.view = IdleReader.view
          BY IdleReaderFields, <4>3
        <4> HIDE DEF q
        <4>5. IsReader(q)
          BY <2>0, <4>1, <4>2, <4>4, IdleReaderFields DEF IsReader, NotLoaded
        <4>6. QED
          BY <2>0, <4>2, <4>4, <4>5, IdleReaderFields DEF ReaderPast, NotLoaded
      <3> HIDE DEF q
      <3>3. QED
        BY <1>4, <3>1, <3>2, ReaderMoves
    <2>9. CASE CloseReader(r)
      <3>1. rd' = [rd EXCEPT ![r] = IdleReader]
        BY <2>9 DEF CloseReader
      <3>2. ReaderPast(IdleReader)
        BY <2>0, IdleReaderFields DEF ReaderPast, NotLoaded
      <3>3. QED
        BY <1>4, <3>1, <3>2, ReaderMoves
    <2>10. QED
      BY <1>4, <2>1, <2>2, <2>3, <2>4, <2>5, <2>6, <2>7, <2>8, <2>9 DEF Read
  <1>5. QED
    BY <1>1, <1>2, <1>3, <1>4, NextCases

-----------------------------------------------------------------------------
(* The types, for any number of writers. *)

LEMMA InitTypes == Init => Types
  <1> SUFFICES ASSUME Init PROVE Types
    OBVIOUS
  <1>1. /\ wepoch = 0 /\ segptr = 0 /\ segs = << >> /\ blks = << >>
        /\ recycle = {} /\ freed = {} /\ shared = {} /\ excl = NoOne
        /\ hist = [v \in Vertices |-> << >>] /\ tabs = [v \in Vertices |-> << >>]
        /\ futex = [v \in Vertices |-> NoOne]
        /\ wr = [w \in Writers |-> IdleWriter]
        /\ rd = [r \in Readers |-> IdleReader]
    BY DEF Init
  <1>2. ListTypes
    <2>1. 0 \in LogEpochs
      BY SegGraphAssumption
    <2>2. << >> \in Seq(LogEpochs) /\ << >> \in Seq(Seq(EpochEntry))
      OBVIOUS
    <2>3. QED
      BY <1>1, <2>1, <2>2 DEF ListTypes
  <1>3. BlockTypes
    BY <1>1 DEF BlockTypes
  <1>4. SegTypes
    <2>1. << >> \in Seq(Segment) /\ Len(<< >>) = 0
      OBVIOUS
    <2>2. QED
      BY <1>1, <2>1 DEF SegTypes
  <1>5. RecycleTypes /\ LockTypes
    BY <1>1 DEF RecycleTypes, LockTypes
  <1>6. WriterTypes
    <2>1. Len(segs) = 0 /\ Len(blks) = 0
      BY <1>1
    <2>2. IdleWriter \in WriterType
      BY DEF IdleWriter, WriterType
    <2>3. QED
      BY <1>1, <2>1, <2>2 DEF WriterTypes, WriterPlace, IdleWriter
  <1>7. ReaderTypes
    <2>1. Len(segs) = 0 /\ Len(blks) = 0
      BY <1>1
    <2>2. ReaderPast(IdleReader)
      BY <2>1, IdleReaderFields DEF ReaderPast, NotLoaded
    <2>3. QED
      BY <1>1, <2>2 DEF ReaderTypes
  <1>8. QED
    BY <1>2, <1>3, <1>4, <1>5, <1>6, <1>7 DEF Types

LEMMA TypesStep ==
  ASSUME Types, [Next]_vars
  PROVE  Types'
  <1>1. CASE Next
    <2>1. ListTypes'
      BY <1>1, ListStep
    <2>2. BlockTypes'
      BY <1>1, BlockStep
    <2>3. SegTypes'
      BY <1>1, SegStep
    <2>4. RecycleTypes' /\ LockTypes' /\ WriterTypes' /\ ReaderTypes'
      BY <1>1, RecycleStep, LockTypesStep, WriterTypesStep, ReaderTypesStep
    <2>5. QED
      BY <2>1, <2>2, <2>3, <2>4 DEF Types
  <1>2. CASE UNCHANGED vars
    <2> /\ wepoch' = wepoch /\ hist' = hist /\ tabs' = tabs /\ segptr' = segptr
        /\ segs' = segs /\ blks' = blks /\ recycle' = recycle /\ freed' = freed
        /\ futex' = futex /\ shared' = shared /\ excl' = excl /\ wr' = wr /\ rd' = rd
      BY <1>2 DEF vars, store, locks
    <2>1. ListTypes' /\ BlockTypes' /\ RecycleTypes' /\ LockTypes'
      BY DEF Types, ListTypes, BlockTypes, RecycleTypes, LockTypes
    <2>2. SegTypes'
      BY DEF Types, SegTypes, Segment
    <2>3. WriterTypes'
      BY DEF Types, WriterTypes, WriterType, WriterPlace
    <2>4. ReaderTypes'
      BY DEF Types, ReaderTypes, ReaderPast, IsReader
    <2>5. QED
      BY <2>1, <2>2, <2>3, <2>4 DEF Types
  <1>3. QED
    BY <1>1, <1>2

LEMMA TypesMeanTypeOK == Types => TypeOK
  <1> SUFFICES ASSUME Types PROVE TypeOK
    OBVIOUS
  <1>1. Len(segs) \in Nat /\ segptr = Len(segs)
    BY DEF Types, SegTypes
  <1>2. wepoch \in LogEpochs /\ \A v \in Vertices : hist[v] \in Seq(LogEpochs)
    BY DEF Types, ListTypes
  <1>3. \A s \in 1 .. Len(segs), v \in Vertices :
          segs[s].region[v] \in 0 .. Len(blks) /\ segs[s].etab[v] \in 0 .. Len(tabs[v])
    BY <1>1, RegionAt DEF Region, EpochTableOf
  <1>4. \A b \in 1 .. Len(blks) : blks[b].prev \in 0 .. b - 1
    BY BlockFields DEF Types
  <1>5. freed \subseteq 1 .. Len(segs)
    BY DEF Types, RecycleTypes
  <1>6. \A w \in Writers : wr[w] \in WriterType
    BY WriterAt
  <1>7. \A r \in Readers : IsReader(rd[r])
    BY DEF Types, ReaderTypes, ReaderPast
  <1>8. segptr \in 0 .. Len(segs)
    BY <1>1
  <1>9. \A w \in Writers : wr[w].pc \in {"idle", "futex", "start", "init", "reshare",
                                       "block", "merge", "table", "append", "edge",
                                       "crashed", "dead"}
    BY <1>6 DEF WriterType
  <1>10. \A r \in Readers : rd[r].pc \in {"idle", "ready", "load", "init", "done"}
    BY <1>7 DEF IsReader
  <1>11. /\ futex \in [Vertices -> Writers \cup {NoOne}]
         /\ shared \subseteq Writers /\ excl \in Writers \cup {NoOne}
    BY DEF Types, LockTypes
  <1>12. QED
    BY <1>2, <1>3, <1>4, <1>5, <1>8, <1>9, <1>10, <1>11, Zenon DEF TypeOK

(* TypeOK holds for any number of writers and readers and any segment       *)
(* sizes: the pointers of labels, segments, blocks and tables lead to what  *)
(* has been allocated, and blocks are linked to older blocks.               *)
THEOREM TypeCorrect == Spec => []TypeOK
  <1>1. Init => Types
    BY InitTypes
  <1>2. Types /\ [Next]_vars => Types'
    BY TypesStep
  <1>3. QED
    BY <1>1, <1>2, TypesMeanTypeOK, PTL DEF Spec

-----------------------------------------------------------------------------
(* A reader's segment is recycled only after its lag. *)

(* A segment is queued with an epoch that is not before the one in which    *)
(* any reader that still holds it located it.                               *)
LagOf(r) ==
  rd[r].pc # "idle" /\ rd[r].seg # 0 =>
    /\ rd[r].at <= wepoch
    /\ \A x \in recycle : x[1] = rd[r].seg => rd[r].at <= x[2]
    /\ rd[r].seg \in freed => rd[r].at + LAG_EPOCH_NUMBER < wepoch

LagInv == \A r \in Readers : LagOf(r)

(* A reader that holds what it held, or nothing, or the newest segment. *)
LEMMA LagReads ==
  ASSUME Types, LagInv, NEW r \in Readers, Read(r)
  PROVE  LagInv'
  <1> DEFINE p == rd[r]
  <1>0. /\ DOMAIN p = {"pc", "kind", "epoch", "v", "seg", "at", "base", "baseTab",
                       "blk", "low", "tab", "num", "out", "view"}
        /\ r \in DOMAIN rd /\ segptr = Len(segs)
    BY ReaderFields
  <1>1. wepoch' = wepoch /\ recycle' = recycle /\ freed' = freed
    BY ReadFrame
  <1>2. \/ rd'[r].seg = 0
        \/ p.pc # "idle" /\ rd'[r].seg = p.seg /\ rd'[r].at = p.at
        \/ rd'[r].seg = segptr /\ rd'[r].at = wepoch
    <2>1. CASE \E e \in LogEpochs, kind \in {"internal", "fragment"} :
                 OpenReader(r, e, kind)
      <3>1. PICK e \in LogEpochs, kind \in {"internal", "fragment"} :
              OpenReader(r, e, kind)
        BY <2>1
      <3>2. rd' = [rd EXCEPT ![r] = [IdleReader EXCEPT !.pc = "ready", !.epoch = e,
                                                       !.kind = kind]]
        BY <3>1 DEF OpenReader
      <3>3. QED
        BY <1>0, <3>2, IdleReaderFields
    <2>2. CASE \E v \in Vertices : GetEdges(r, v)
      BY <1>0, <2>2 DEF GetEdges
    <2>3. CASE LoadBlock(r) \/ LoadTable(r) \/ ReadNull(r) \/ InitIterator(r)
      BY <1>0, <2>3 DEF LoadBlock, LoadTable, ReadNull, InitIterator, Loaded
    <2>4. CASE LoadNum(r) \/ ReadEmptyBlock(r) \/ ReadRecycled(r)
      <3>1. CASE LoadNum(r)
        BY <1>0, <3>1 DEF LoadNum, Loaded
      <3>2. CASE ReadEmptyBlock(r)
        BY <1>0, <3>2 DEF ReadEmptyBlock, Loaded
      <3>3. CASE ReadRecycled(r)
        BY <1>0, <3>3 DEF ReadRecycled
      <3>4. QED
        BY <2>4, <3>1, <3>2, <3>3
    <2>5. CASE EndRead(r)
      <3>1. p.pc = "done"
        BY <2>5 DEF EndRead
      <3>2. rd' = [rd EXCEPT ![r] =
               [IdleReader EXCEPT !.pc = "ready", !.kind = rd[r].kind,
                 !.epoch = rd[r].epoch, !.seg = rd[r].seg, !.at = rd[r].at,
                 !.base = rd[r].base, !.baseTab = rd[r].baseTab]]
        BY <2>5 DEF EndRead
      <3>3. QED
        BY <1>0, <3>1, <3>2, IdleReaderFields
    <2>6. CASE CloseReader(r)
      BY <1>0, <2>6, IdleReaderFields DEF CloseReader
    <2>7. QED
      BY <2>1, <2>2, <2>3, <2>4, <2>5, <2>6 DEF Read
  <1>3. \A x \in Readers : x # r => rd'[x] = rd[x]
    <2>1. \E q : rd' = [rd EXCEPT ![r] = q]
      BY ReadMoves
    <2>2. QED
      BY <2>1 DEF Types, ReaderTypes
  <1>4. /\ wepoch \in Nat /\ segptr \notin freed
        /\ \A x \in recycle : x[1] # segptr
    BY SegGraphAssumption DEF Types, ListTypes, RecycleTypes
  <1>5. LagOf(r)'
    BY <1>1, <1>2, <1>4 DEF LagInv, LagOf
  <1>6. ASSUME NEW x \in Readers, x # r PROVE LagOf(x)'
    BY <1>1, <1>3, <1>6 DEF LagInv, LagOf
  <1>7. QED
    BY <1>5, <1>6 DEF LagInv

LEMMA InitLag == Init => LagInv
  BY IdleReaderFields DEF Init, LagInv, LagOf

LEMMA LagStep ==
  ASSUME Types, LagInv, [Next]_vars
  PROVE  LagInv'
  <1>0. /\ wepoch \in Nat /\ LAG_EPOCH_NUMBER \in Nat
        /\ \A r \in Readers : rd[r].at \in Nat
        /\ \A x \in recycle : x[2] \in Nat
    <2>1. \A r \in Readers : IsReader(rd[r])
      BY DEF Types, ReaderTypes, ReaderPast
    <2>2. QED
      BY <2>1, SegGraphAssumption DEF Types, ListTypes, RecycleTypes, IsReader
  <1>1. CASE \E e \in LogEpochs : NextEpoch(e)
    <2>1. /\ wepoch' \in Nat /\ wepoch' > wepoch
          /\ recycle' = recycle /\ freed' = freed /\ rd' = rd
      BY <1>1, SegGraphAssumption DEF NextEpoch, store
    <2>2. QED
      BY <1>0, <2>1 DEF LagInv, LagOf
  <1>2. CASE Recycle
    <2>1. PICK old : /\ old = {x \in recycle : x[2] + LAG_EPOCH_NUMBER < wepoch}
                     /\ recycle' = recycle \ old
                     /\ freed' = freed \cup {x[1] : x \in old}
      BY <1>2 DEF Recycle
    <2>2. wepoch' = wepoch /\ rd' = rd
      BY <1>2 DEF Recycle
    <2>3. ASSUME NEW r \in Readers PROVE LagOf(r)'
      <3>1. LagOf(r)
        BY DEF LagInv
      <3> SUFFICES ASSUME rd[r].pc # "idle", rd[r].seg # 0
                   PROVE  /\ rd[r].at <= wepoch
                          /\ \A x \in recycle' : x[1] = rd[r].seg => rd[r].at <= x[2]
                          /\ rd[r].seg \in freed' => rd[r].at + LAG_EPOCH_NUMBER < wepoch
        BY <2>2 DEF LagOf
      <3>2. ASSUME NEW x \in old, x[1] = rd[r].seg
            PROVE  rd[r].at + LAG_EPOCH_NUMBER < wepoch
        <4>1. rd[r].at <= x[2] /\ x[2] + LAG_EPOCH_NUMBER < wepoch /\ x \in recycle
          BY <2>1, <3>1, <3>2 DEF LagOf
        <4>2. QED
          BY <1>0, <4>1
      <3>3. QED
        BY <2>1, <3>1, <3>2 DEF LagOf
    <2>4. QED
      BY <2>3 DEF LagInv
  <1>3. CASE \E r \in Readers : Read(r)
    BY <1>3, LagReads
  <1>4. ASSUME NEW w \in Writers, LockStep(w)
        PROVE  LagInv'
    BY <1>4, LockStepFrame DEF LagInv, LagOf
  <1>5. ASSUME NEW w \in Writers, StoreStep(w)
        PROVE  LagInv'
    <2>1. /\ wepoch' = wepoch /\ freed' = freed /\ rd' = rd
          /\ \A x \in recycle' : x \in recycle \/ x[2] = wepoch
      <3>1. CASE MergeSegment(w)
        <4>1. recycle' = recycle \/ recycle' = recycle \cup {<<wr[w].seg, wepoch>>}
          BY <3>1 DEF MergeSegment
        <4>2. wepoch' = wepoch /\ freed' = freed /\ rd' = rd
          BY <3>1 DEF MergeSegment
        <4>3. QED
          BY <4>1, <4>2
      <3>2. CASE ~ MergeSegment(w)
        BY <1>5, <3>2 DEF StoreStep, Inits, InitSegment, GrowBlock, SegmentFull,
                          CreateTable, ReplaceTable, AppendEpoch, AppendEdge
      <3>3. QED
        BY <3>1, <3>2
    <2>2. QED
      BY <2>1 DEF LagInv, LagOf
  <1>6. CASE UNCHANGED vars
    BY <1>6 DEF vars, store, LagInv, LagOf
  <1>7. QED
    BY <1>1, <1>2, <1>3, <1>4, <1>5, <1>6, NextCases

(* The lag protects readers: whoever holds a segment that has been given    *)
(* back located it more than LAG_EPOCH_NUMBER epochs ago, however many      *)
(* writers and readers there are.                                           *)
THEOREM SegmentsLag == Spec => []RecycleLag
  <1>1. Init => Types /\ LagInv
    BY InitTypes, InitLag
  <1>2. Types /\ LagInv /\ [Next]_vars => Types' /\ LagInv'
    BY TypesStep, LagStep
  <1>3. Types /\ LagInv => RecycleLag
    BY DEF LagInv, LagOf, RecycleLag, Types, RecycleTypes
  <1>4. QED
    BY <1>1, <1>2, <1>3, PTL DEF Spec

-----------------------------------------------------------------------------
(* With one writer, the chain of the newest segment is the log. *)

OneWriter == \A w, x \in Writers : w = x

(* No two vertices share a block, in one segment or in two. *)
OwnBlocks ==
  \A s, t \in 1 .. Len(segs), u, v \in Vertices :
    segs[s].region[u] = segs[t].region[v] /\ segs[s].region[u] # 0 => u = v

(* Nothing is linked behind the block that a vertex writes to. *)
Heads ==
  \A b \in 1 .. Len(blks), v \in Vertices :
    blks[b].prev # 0 => blks[b].prev # Region(segptr, v)

(* That block ends where the history of the vertex ends. *)
ListsEnd == \A v \in Vertices : End(Region(segptr, v)) = Len(hist[v])

LogStore == BlocksSound /\ OwnBlocks /\ Heads /\ ListsEnd

HasBlock(q) == q.blk = Region(segptr, q.v) /\ HasSpace(q.blk)

(* The writer works on the newest segment, and has made room before it      *)
(* appends.                                                                 *)
WriterLog(q) ==
  /\ q.pc \in {"init", "reshare", "block", "merge", "table", "append", "edge"} =>
       q.seg = segptr
  /\ q.pc = "init" => q.seg = 0 /\ q.blk = 0
  /\ q.pc = "reshare" => q.blk = 0 \/ HasBlock(q)
  /\ q.pc \in {"table", "append", "edge"} => HasBlock(q)

LogInv == LogStore /\ \A w \in Writers : WriterLog(wr[w])

LEMMA NewestRegion ==
  ASSUME Types, NEW v \in Vertices
  PROVE  /\ Region(segptr, v) \in 0 .. Len(blks)
         /\ segptr # 0 => segptr \in 1 .. Len(segs)
         /\ segptr # 0 => Region(segptr, v) = segs[segptr].region[v]
         /\ End(Region(segptr, v)) \in Nat
         /\ Len(hist[v]) \in Nat
  <1>1. segptr = Len(segs) /\ Len(segs) \in Nat
    BY DEF Types, SegTypes
  <1>2. Region(segptr, v) \in 0 .. Len(blks)
    BY <1>1, RegionAt
  <1>3. \A b \in 0 .. Len(blks) : End(b) \in Nat
    BY BlockFields DEF Types, End
  <1>4. Len(hist[v]) \in Nat
    BY DEF Types, ListTypes
  <1>5. QED
    BY <1>1, <1>2, <1>3, <1>4 DEF Region

(* What does not touch blocks, histories and the blocks of segments. *)
LEMMA LogStoreKept ==
  ASSUME Types, LogStore, blks' = blks, hist' = hist, segptr' = segptr,
         Len(segs') = Len(segs),
         \A s \in 1 .. Len(segs) : segs'[s].region = segs[s].region
  PROVE  LogStore' /\ \A v \in Vertices : Region(segptr, v)' = Region(segptr, v)
  <1>1. \A v \in Vertices : Region(segptr, v)' = Region(segptr, v)
    <2>1. segptr = Len(segs) /\ Len(segs) \in Nat
      BY DEF Types, SegTypes
    <2>2. QED
      BY <2>1 DEF Region
  <1>2. BlocksSound'
    BY DEF LogStore, BlocksSound, BlockSound, End
  <1>3. OwnBlocks'
    BY DEF LogStore, OwnBlocks
  <1>4. Heads'
    BY <1>1 DEF LogStore, Heads
  <1>5. ListsEnd'
    BY <1>1 DEF LogStore, ListsEnd, End
  <1>6. QED
    BY <1>1, <1>2, <1>3, <1>4, <1>5 DEF LogStore

(* The block put_edge adds goes on where the old one ends, and has room. *)
LEMMA NewBlockSound ==
  ASSUME BlockTypes, BlocksSound, NEW b \in 0 .. Len(blks)
  PROVE  LET y == NewBlock(b, NewBlockOrder(b)) IN
         /\ y.prev \in {0, b}
         /\ y.prevnum = End(y.prev)
         /\ y.prev # 0 => y.order >= COPY_THRESHOLD_ORDER
         /\ Len(y.ents) < Pow2[y.order]
         /\ \A i \in 1 .. Len(y.ents) : y.ents[i] = y.prevnum + i
         /\ y.prevnum + Len(y.ents) = End(b)
  <1> DEFINE o == NewBlockOrder(b)
             y == NewBlock(b, o)
  <1>0. o \in Nat /\ Pow2[o] \in Nat /\ Pow2[o] > 0 /\ COPY_THRESHOLD_ORDER \in Nat
    <2>1. o \in Nat /\ COPY_THRESHOLD_ORDER \in Nat
      BY NewOrderType, SegGraphAssumption
    <2> HIDE DEF o
    <2>2. Pow2[o] \in Nat /\ Pow2[o] > o
      BY <2>1, Pow2Facts
    <2>3. QED
      BY <2>1, <2>2
  <1> DEFINE Sound == /\ y.prev \in {0, b}
                      /\ y.prevnum = End(y.prev)
                      /\ y.prev # 0 => y.order >= COPY_THRESHOLD_ORDER
                      /\ Len(y.ents) < Pow2[y.order]
                      /\ \A i \in 1 .. Len(y.ents) : y.ents[i] = y.prevnum + i
                      /\ y.prevnum + Len(y.ents) = End(b)
  <1>e. End(0) = 0
    BY DEF End
  <1>1. ASSUME b = 0 PROVE Sound
    <2>1. y.order = o /\ y.prev = 0 /\ y.prevnum = 0 /\ y.ents = << >>
      BY <1>1 DEF NewBlock
    <2> HIDE DEF o, y
    <2>2. Len(y.ents) = 0 /\ Pow2[o] > 0
      BY <1>0, <2>1
    <2>3. QED
      BY <1>0, <1>1, <1>e, <2>1, <2>2
  <1>2. ASSUME b # 0 PROVE Sound
    <2>1. /\ b \in 1 .. Len(blks) /\ BlockSound(b)
          /\ blks[b].prevnum \in Nat /\ Len(blks[b].ents) \in Nat
          /\ blks[b].ents \in Seq(Nat) /\ blks[b].order \in Nat
      BY <1>2, BlockFields, SMTT(30) DEF BlocksSound
    <2>2. o = blks[b].order + 1
      BY <1>2 DEF NewBlockOrder
    <2>e. End(b) = blks[b].prevnum + Len(blks[b].ents)
      BY <1>2 DEF End
    <2>3. CASE o >= COPY_THRESHOLD_ORDER
      <3>1. /\ y.order = o /\ y.prev = b /\ y.ents = << >>
            /\ y.prevnum = blks[b].prevnum + Len(blks[b].ents)
        BY <1>2, <2>3 DEF NewBlock
      <3> HIDE DEF o, y
      <3>2. Len(y.ents) = 0 /\ Pow2[o] > 0
        BY <1>0, <3>1
      <3>3. QED
        BY <1>0, <1>2, <2>1, <2>3, <2>e, <3>1, <3>2
    <2>4. CASE ~ (o >= COPY_THRESHOLD_ORDER)
      <3>1. y.order = o /\ y.prev = 0 /\ y.prevnum = 0 /\ y.ents = blks[b].ents
        BY <1>2, <2>4 DEF NewBlock
      <3> HIDE DEF o, y
      <3>2. blks[b].prev = 0 /\ blks[b].prevnum = 0
        <4>1. blks[b].prev = 0
          BY <1>0, <2>1, <2>2, <2>4 DEF BlockSound
        <4>2. QED
          BY <1>e, <2>1, <4>1 DEF BlockSound
      <3>3. Len(blks[b].ents) < Pow2[o]
        <4>1. blks[b].order \in Nat /\ Len(blks[b].ents) <= Pow2[blks[b].order]
          BY <2>1 DEF BlockSound
        <4>2. /\ Pow2[blks[b].order + 1] = 2 * Pow2[blks[b].order]
              /\ Pow2[blks[b].order] \in Nat /\ Pow2[blks[b].order] > blks[b].order
          BY <4>1, Pow2Facts
        <4>3. QED
          BY <2>1, <2>2, <4>1, <4>2
      <3>4. \A i \in 1 .. Len(blks[b].ents) : blks[b].ents[i] = i
        BY <2>1, <3>2 DEF BlockSound
      <3>5. QED
        BY <1>0, <1>e, <2>1, <2>e, <3>1, <3>2, <3>3, <3>4
    <2>5. QED
      BY <2>3, <2>4
  <1> HIDE DEF o, y
  <1>3. Sound
    BY <1>1, <1>2
  <1>4. QED
    BY <1>3 DEF o, y

(* Blocks that are not touched end where they ended. *)
LEMMA EndKept ==
  ASSUME NEW n, \A i \in 1 .. n : blks'[i] = blks[i], NEW b \in 0 .. n
  PROVE  End(b)' = End(b)
  BY DEF End

(* The first segment: nothing has been put yet. *)
LEMMA LogInit ==
  ASSUME Types, LogInv, Next, NEW w \in Writers, Inits(w)
  PROVE  LogStore'
  <1>1. segptr = 0 /\ Len(segs) = 0
    <2>1. wr[w].seg = 0 /\ segptr = wr[w].seg
      BY DEF Inits, InitSegment, LogInv, WriterLog
    <2>2. QED
      BY <2>1 DEF Types, SegTypes
  <1>2. /\ segptr' = 1 /\ Len(segs') = 1
        /\ segs'[1].region = [v \in Vertices |-> 0]
        /\ blks' = blks /\ hist' = hist
    <2>1. /\ Len(segs') = Len(segs) + 1 /\ segptr' = Len(segs) + 1
          /\ segs'[Len(segs) + 1].region = [v \in Vertices |-> 0]
      BY InitSegs
    <2>2. Len(segs) + 1 = 1
      BY <1>1
    <2>3. blks' = blks /\ hist' = hist
      BY DEF Inits, InitSegment
    <2>4. QED
      BY <2>1, <2>2, <2>3
  <1>3. \A v \in Vertices : Region(segptr, v) = 0 /\ Region(segptr, v)' = 0
    BY <1>1, <1>2 DEF Region
  <1>4. BlocksSound'
    BY <1>2 DEF LogInv, LogStore, BlocksSound, BlockSound, End
  <1>5. OwnBlocks'
    BY <1>2 DEF OwnBlocks
  <1>6. Heads'
    BY <1>3 DEF Heads
  <1>7. ListsEnd'
    BY <1>2, <1>3 DEF LogInv, LogStore, ListsEnd, End
  <1>8. QED
    BY <1>4, <1>5, <1>6, <1>7 DEF LogStore

(* A larger block for the vertex, copied from the old one or linked to it. *)
LEMMA LogGrow ==
  ASSUME Types, LogInv, Next, NEW w \in Writers, GrowBlock(w),
         NEW v, v = wr[w].v, NEW n, n = Len(blks) + 1
  PROVE  /\ LogStore'
         /\ Region(segptr, v)' = n
         /\ HasSpace(n)'
  <1> DEFINE s == wr[w].seg
             b == Region(s, v)
  <1>0. PICK y : y = NewBlock(b, NewBlockOrder(b))
    OBVIOUS
  <1>1. /\ b \in 0 .. Len(blks) /\ blks' = Append(blks, y) /\ y \in Block
        /\ blks \in Seq(Block) /\ Len(blks) \in Nat
    BY <1>0, GrowBlocks DEF Types, BlockTypes
  <1>2. /\ s \in 1 .. Len(segs) /\ v \in Vertices
        /\ segs'[s].region = [segs[s].region EXCEPT ![v] = n]
        /\ Len(segs') = Len(segs)
        /\ \A t \in 1 .. Len(segs) : t # s => segs'[t] = segs[t]
    BY GrowSegs DEF OtherSegsKept
  <1>3. /\ s = segptr /\ segptr' = segptr /\ hist' = hist
        /\ segptr = Len(segs) /\ segptr # 0 /\ Len(segs) \in Nat
    <2>1. s = segptr /\ hist' = hist /\ segptr' = segptr
      BY DEF GrowBlock, NeedsBlock, LogInv, WriterLog
    <2>2. segptr = Len(segs) /\ Len(segs) \in Nat
      BY DEF LogInv, Types, SegTypes
    <2>3. QED
      BY <2>1, <2>2, <1>2
  <1>4. /\ y.prev \in {0, b}
        /\ y.prevnum = End(y.prev)
        /\ y.prev # 0 => y.order >= COPY_THRESHOLD_ORDER
        /\ Len(y.ents) < Pow2[y.order]
        /\ \A i \in 1 .. Len(y.ents) : y.ents[i] = y.prevnum + i
        /\ y.prevnum + Len(y.ents) = End(b)
    BY <1>0, <1>1, NewBlockSound DEF Types, LogInv, LogStore
  <1>y. Len(y.ents) \in Nat /\ y.order \in Nat
    BY <1>1 DEF Block
  <1>5. /\ Len(blks') = n /\ blks'[n] = y
        /\ \A i \in 1 .. Len(blks) : blks'[i] = blks[i]
    BY <1>1
  <1>6. \A t \in 1 .. Len(segs), u \in Vertices :
          segs[t].region[u] \in 0 .. Len(blks)
    BY SegmentFields DEF Types
  <1>r. \A t \in 1 .. Len(segs) : segs[t].region \in [Vertices -> 0 .. Len(blks)]
    BY SegmentFields DEF Types
  <1>7. \A t \in 1 .. Len(segs), u \in Vertices :
          segs'[t].region[u] = IF t = s /\ u = v THEN n ELSE segs[t].region[u]
    BY <1>2, <1>r
  <1>8. \A u \in Vertices :
          Region(segptr, u)' = IF u = v THEN n ELSE Region(segptr, u)
    BY <1>2, <1>3, <1>7 DEF Region
  <1>9. \A i \in 0 .. Len(blks) : End(i)' = End(i)
    BY <1>5, EndKept
  <1>10. BlocksSound'
    <2> SUFFICES ASSUME NEW i \in 1 .. n PROVE BlockSound(i)'
      BY <1>5 DEF BlocksSound
    <2>1. CASE i \in 1 .. Len(blks)
      <3>1. BlockSound(i) /\ blks'[i] = blks[i]
        BY <1>5, <2>1 DEF LogInv, LogStore, BlocksSound
      <3>2. blks[i].prev \in 0 .. Len(blks)
        BY <2>1, BlockFields DEF Types
      <3>3. QED
        BY <1>9, <3>1, <3>2 DEF BlockSound
    <2>2. CASE i = n
      <3>1. End(y.prev)' = End(y.prev)
        BY <1>1, <1>4, <1>9
      <3>2. Pow2[y.order] \in Nat
        BY <1>y, Pow2Nat
      <3>3. QED
        BY <1>4, <1>5, <1>y, <2>2, <3>1, <3>2 DEF BlockSound
    <2>3. QED
      BY <1>1, <2>1, <2>2
  <1>11. OwnBlocks'
    <2> SUFFICES ASSUME NEW t \in 1 .. Len(segs), NEW t2 \in 1 .. Len(segs),
                        NEW u \in Vertices, NEW u2 \in Vertices,
                        segs'[t].region[u] = segs'[t2].region[u2],
                        segs'[t].region[u] # 0
                 PROVE  u = u2
      BY <1>2 DEF OwnBlocks
    <2>1. segs[t].region[u] # n /\ segs[t2].region[u2] # n
      BY <1>1, <1>6, SMTT(30)
    <2>2. QED
      BY <1>7, <2>1 DEF LogInv, LogStore, OwnBlocks
  <1>b. b = Region(segptr, v) /\ \A u \in Vertices : Region(segptr, u) \in 0 .. Len(blks)
    BY <1>3, NewestRegion
  <1>12. Heads'
    <2> SUFFICES ASSUME NEW i \in 1 .. n, NEW u \in Vertices, blks'[i].prev # 0
                 PROVE  blks'[i].prev # Region(segptr, u)'
      BY <1>5 DEF Heads
    <2>1. CASE i \in 1 .. Len(blks)
      <3>1. blks[i].prev \in 0 .. Len(blks) /\ blks'[i] = blks[i]
        BY <1>5, <2>1, BlockFields DEF Types
      <3>2. blks[i].prev # Region(segptr, u)
        BY <2>1, <3>1 DEF LogInv, LogStore, Heads
      <3>3. QED
        BY <1>1, <1>8, <3>1, <3>2
    <2>2. CASE i = n
      <3>1. y.prev = b /\ b # 0
        BY <1>4, <1>5, <2>2
      <3>2. b # n
        BY <1>1
      <3>3. u # v => Region(segptr, u) # b
        BY <1>2, <1>3, <1>b, <3>1 DEF Region, LogInv, LogStore, OwnBlocks
      <3>4. QED
        BY <1>5, <1>8, <2>2, <3>1, <3>2, <3>3
    <2>3. QED
      BY <1>1, <2>1, <2>2
  <1>13. ListsEnd'
    <2> SUFFICES ASSUME NEW u \in Vertices
                 PROVE  End(Region(segptr, u))' = Len(hist[u])
      BY <1>3 DEF ListsEnd
    <2>1. End(Region(segptr, u)) = Len(hist[u])
      BY DEF LogInv, LogStore, ListsEnd
    <2>2. CASE u = v
      <3>1. Region(segptr, u)' = n /\ n # 0
        BY <1>1, <1>8, <2>2
      <3>2. End(Region(segptr, u))' = End(b)
        BY <1>4, <1>5, <3>1 DEF End
      <3>3. QED
        BY <1>b, <2>1, <2>2, <3>2
    <2>3. CASE u # v
      <3>1. Region(segptr, u)' = Region(segptr, u)
        BY <1>8, <2>3
      <3>2. End(Region(segptr, u))' = End(Region(segptr, u))
        BY <1>5, <1>b, <3>1 DEF End
      <3>3. QED
        BY <2>1, <3>2
    <2>4. QED
      BY <2>2, <2>3
  <1>14. Region(segptr, v)' = n
    BY <1>2, <1>8
  <1>15. HasSpace(n)'
    BY <1>4, <1>5 DEF HasSpace
  <1>16. QED
    BY <1>10, <1>11, <1>12, <1>13, <1>14, <1>15 DEF LogStore

(* The edge goes into the block that the newest segment holds. *)
LEMMA LogAppend ==
  ASSUME Types, LogInv, Next, NEW w \in Writers, AppendEdge(w)
  PROVE  LogStore'
  <1>0. PICK v, b, o : v = wr[w].v /\ b = wr[w].blk /\ o = blks[b].prev
    OBVIOUS
  <1> DEFINE n == Len(hist[v]) + 1
             e == Append(blks[b].ents, n)
             y == [blks[b] EXCEPT !.ents = e]
  <1>1. /\ v \in Vertices /\ b = Region(segptr, v) /\ HasSpace(b)
        /\ b \in 1 .. Len(blks) /\ Len(hist[v]) \in Nat /\ n \in Nat
        /\ \A u \in Vertices : Region(segptr, u) \in 0 .. Len(blks)
    <2>1. wr[w].pc \in {"table", "edge"}
      BY DEF AppendEdge
    <2>2. v \in Vertices /\ b \in 1 .. Len(blks)
      BY <1>0, <2>1, WriterAt
    <2>3. HasBlock(wr[w])
      BY <2>1 DEF LogInv, WriterLog
    <2>4. QED
      BY <1>0, <2>2, <2>3, NewestRegion DEF HasBlock
  <1>2. /\ blks' = [blks EXCEPT ![b] = y] /\ blks \in Seq(Block)
        /\ segptr' = segptr /\ segs' = segs
        /\ hist' = [hist EXCEPT ![v] = Append(hist[v], wepoch)]
        /\ hist \in [Vertices -> Seq(LogEpochs)] /\ wepoch \in LogEpochs
    BY <1>0, <1>1, AppendBlocks DEF AppendEdge, Types, BlockTypes, ListTypes
  <1>3. /\ blks[b] \in Block /\ blks[b].order \in Nat /\ blks[b].prev \in 0 .. b - 1
        /\ blks[b].prevnum \in Nat /\ blks[b].ents \in Seq(Nat)
        /\ Len(blks[b].ents) \in Nat /\ Len(blks) \in Nat
    BY <1>1, BlockFields DEF Types
  <1>4. /\ e \in Seq(Nat) /\ Len(e) = Len(blks[b].ents) + 1
        /\ e[Len(e)] = n
        /\ \A i \in 1 .. Len(blks[b].ents) : e[i] = blks[b].ents[i]
    <2>1. PICK t : t = blks[b].ents
      OBVIOUS
    <2>2. t \in Seq(Nat) /\ Len(t) \in Nat /\ n \in Nat /\ e = Append(t, n)
      BY <1>1, <1>3, <2>1
    <2> HIDE DEF n, e
    <2>3. e \in Seq(Nat) /\ Len(e) = Len(t) + 1 /\ e[Len(t) + 1] = n
      BY <2>2
    <2>4. \A i \in 1 .. Len(t) : e[i] = t[i]
      BY <2>2
    <2>5. QED
      BY <2>1, <2>3, <2>4
  <1>5. /\ y.order = blks[b].order /\ y.prev = blks[b].prev
        /\ y.prevnum = blks[b].prevnum /\ y.ents = e
    BY <1>3 DEF Block
  <1> HIDE DEF e, y
  <1>6. /\ Len(blks') = Len(blks) /\ blks'[b] = y
        /\ \A c \in 1 .. Len(blks) : c # b => blks'[c] = blks[c]
    BY <1>1, <1>2
  <1>7. \A u \in Vertices : Region(segptr, u)' = Region(segptr, u)
    BY <1>2 DEF Region
  <1>8. \A c \in 0 .. Len(blks) : c # b => End(c)' = End(c)
    BY <1>6 DEF End
  <1>9. End(b) = Len(hist[v]) /\ End(b) = blks[b].prevnum + Len(blks[b].ents) /\ b # 0
    BY <1>1 DEF LogInv, LogStore, ListsEnd, End
  <1>n. Len(e) \in Nat /\ n = blks[b].prevnum + Len(e)
    <2>1. /\ Len(e) = Len(blks[b].ents) + 1 /\ n = End(b) + 1
          /\ End(b) = blks[b].prevnum + Len(blks[b].ents)
          /\ Len(blks[b].ents) \in Nat /\ blks[b].prevnum \in Nat
      BY <1>3, <1>4, <1>9
    <2> HIDE DEF n
    <2>2. QED
      BY <2>1
  <1>10. \A c \in 1 .. Len(blks) : blks[c].prev \in 0 .. Len(blks) /\ blks[c].prev # b
    <2> TAKE c \in 1 .. Len(blks)
    <2>1. blks[c].prev \in 0 .. Len(blks)
      BY BlockFields DEF Types
    <2>2. blks[c].prev # 0 => blks[c].prev # Region(segptr, v)
      BY <1>1 DEF LogInv, LogStore, Heads
    <2>3. QED
      BY <1>1, <1>9, <2>1, <2>2
  <1>11. BlocksSound'
    <2> SUFFICES ASSUME NEW c \in 1 .. Len(blks) PROVE BlockSound(c)'
      BY <1>6 DEF BlocksSound
    <2>1. BlockSound(c)
      BY DEF LogInv, LogStore, BlocksSound
    <2>2. CASE c # b
      <3>1. blks'[c] = blks[c]
        BY <1>6, <2>2
      <3>2. QED
        BY <1>8, <1>10, <2>1, <3>1 DEF BlockSound
    <2>3. CASE c = b
      <3>1. End(o)' = End(o)
        BY <1>0, <1>1, <1>8, <1>10
      <3>2. Pow2[blks[b].order] \in Nat
        BY <1>3, Pow2Nat
      <3>3. Len(blks[b].ents) < Pow2[blks[b].order]
        BY <1>1 DEF HasSpace
      <3>4. \A i \in 1 .. Len(e) : e[i] = blks[b].prevnum + i
        <4> TAKE i \in 1 .. Len(e)
        <4>1. CASE i = Len(e)
          <5>1. e[i] = n
            BY <1>4, <4>1
          <5> HIDE DEF n
          <5>2. QED
            BY <1>n, <4>1, <5>1
        <4>2. CASE i \in 1 .. Len(blks[b].ents)
          BY <1>4, <2>1, <2>3, <4>2 DEF BlockSound
        <4>3. i = Len(e) \/ i \in 1 .. Len(blks[b].ents)
          <5>1. Len(e) = Len(blks[b].ents) + 1 /\ Len(blks[b].ents) \in Nat
            BY <1>3, <1>4
          <5>2. QED
            BY <5>1
        <4>4. QED
          BY <4>1, <4>2, <4>3
      <3>5. QED
        <4>1. /\ blks'[b].prevnum = End(o)' /\ blks'[b].prev = o
              /\ o # 0 => blks'[b].order >= COPY_THRESHOLD_ORDER
          BY <1>0, <1>5, <1>6, <2>1, <2>3, <3>1 DEF BlockSound
        <4>2. Len(e) <= Pow2[blks[b].order]
          BY <1>3, <1>4, <3>2, <3>3
        <4>3. QED
          BY <1>5, <1>6, <2>3, <3>4, <4>1, <4>2 DEF BlockSound
    <2>4. QED
      BY <2>2, <2>3
  <1>12. OwnBlocks'
    BY <1>2 DEF LogInv, LogStore, OwnBlocks
  <1>13. Heads'
    <2> SUFFICES ASSUME NEW c \in 1 .. Len(blks), NEW u \in Vertices, blks'[c].prev # 0
                 PROVE  blks'[c].prev # Region(segptr, u)
      BY <1>6, <1>7 DEF Heads
    <2>1. blks'[c].prev = blks[c].prev
      BY <1>5, <1>6
    <2>2. QED
      BY <2>1 DEF LogInv, LogStore, Heads
  <1>14. ListsEnd'
    <2> SUFFICES ASSUME NEW u \in Vertices
                 PROVE  End(Region(segptr, u))' = Len(hist'[u])
      BY DEF ListsEnd
    <2>1. CASE u = v
      <3>1. Len(hist'[v]) = n
        BY <1>1, <1>2
      <3>2. End(Region(segptr, u))' = blks'[b].prevnum + Len(blks'[b].ents)
        BY <1>1, <1>7, <1>9, <2>1 DEF End
      <3>3. blks'[b].prevnum = blks[b].prevnum /\ blks'[b].ents = e
        BY <1>5, <1>6
      <3> HIDE DEF n
      <3>4. QED
        BY <1>n, <2>1, <3>1, <3>2, <3>3
    <2>2. CASE u # v
      <3>1. hist'[u] = hist[u]
        BY <1>2, <2>2
      <3>2. Region(segptr, u) # b
        <4>1. segptr # 0 => segptr \in 1 .. Len(segs)
          BY NewestRegion, <1>1
        <4>2. QED
          BY <1>1, <1>9, <2>2, <4>1 DEF LogInv, LogStore, OwnBlocks, Region
      <3>3. End(Region(segptr, u))' = End(Region(segptr, u))
        <4>1. Region(segptr, u) \in 0 .. Len(blks)
          BY <1>1
        <4>2. Region(segptr, u)' = Region(segptr, u)
          BY <1>7
        <4>3. QED
          BY <1>6, <3>2, <4>1, <4>2 DEF End
      <3>4. QED
        BY <3>1, <3>3 DEF LogInv, LogStore, ListsEnd
    <2>3. QED
      BY <2>1, <2>2
  <1>15. QED
    BY <1>11, <1>12, <1>13, <1>14 DEF LogStore

LEMMA IotaFacts ==
  ASSUME NEW n \in Nat
  PROVE  /\ Iota(n) \in Seq(Nat) /\ Len(Iota(n)) = n
         /\ \A i \in 1 .. n : Iota(n)[i] = i
  BY DEF Iota

(* A merged block holds the whole list, and the writer's one more entry. *)
LEMMA MergedBlockSound ==
  ASSUME Types, LogStore, segptr # 0, NEW u \in Vertices, NEW v \in Vertices
  PROVE  LET y == MergedBlock(segptr, u, v) IN
         /\ y.prev = 0 /\ y.prevnum = 0 /\ y.order \in Nat
         /\ Len(y.ents) = Len(hist[u])
         /\ \A i \in 1 .. Len(y.ents) : y.ents[i] = i
         /\ Len(y.ents) <= Pow2[y.order]
         /\ u = v => Len(y.ents) < Pow2[y.order]
  <1> DEFINE c == Chain(segs[segptr].region[u])
             n == Len(hist[u])
             o == MergedOrder(segptr, u, v)
  <1>1. n \in Nat /\ c = Iota(n)
    <2>1. /\ Region(segptr, u) \in 0 .. Len(blks)
          /\ Region(segptr, u) = segs[segptr].region[u] /\ n \in Nat
      BY NewestRegion
    <2>2. Chain(Region(segptr, u)) = Iota(End(Region(segptr, u)))
      BY <2>1, ChainIsIota DEF Types, LogStore
    <2>3. End(Region(segptr, u)) = n
      BY DEF LogStore, ListsEnd
    <2>4. QED
      BY <2>1, <2>2, <2>3
  <1>2. Len(c) = n /\ \A i \in 1 .. n : c[i] = i
    BY <1>1, IotaFacts
  <1>3. o = SizeToOrder(IF u = v THEN n + 1 ELSE n)
    BY <1>2 DEF MergedOrder
  <1>4. MergedBlock(segptr, u, v) = [order |-> o, prev |-> 0, prevnum |-> 0, ents |-> c]
    BY DEF MergedBlock
  <1> HIDE DEF c, n, o
  <1>5. /\ o \in Nat /\ Pow2[o] \in Nat
        /\ Pow2[o] >= n /\ (u = v => Pow2[o] >= n + 1)
    <2>1. CASE u = v
      <3>1. o = SizeToOrder(n + 1) /\ n + 1 \in Nat
        BY <1>1, <1>3, <2>1
      <3>2. o \in 0 .. n + 1 /\ Pow2[o] >= n + 1
        BY <3>1, OrderHolds
      <3>3. o \in Nat /\ Pow2[o] \in Nat
        BY <1>1, <3>2, Pow2Nat
      <3>4. QED
        BY <1>1, <3>2, <3>3
    <2>2. CASE u # v
      <3>1. o = SizeToOrder(n)
        BY <1>3, <2>2
      <3>2. o \in 0 .. n /\ Pow2[o] >= n
        BY <1>1, <3>1, OrderHolds
      <3>3. o \in Nat /\ Pow2[o] \in Nat
        BY <1>1, <3>2, Pow2Nat
      <3>4. QED
        BY <2>2, <3>2, <3>3
    <2>3. QED
      BY <2>1, <2>2
  <1>6. QED
    BY <1>1, <1>2, <1>4, <1>5 DEF n

(* Every list is copied into a block of its own. *)
LEMMA LogMerge ==
  ASSUME Types, LogInv, Next, NEW w \in Writers, MergeSegment(w), ~ MergeCrashes(w),
         NEW M, NEW at, MergesInto(w, M, at), NEW v, v = wr[w].v
  PROVE  /\ LogStore'
         /\ Region(segptr, v)' = at[v]
         /\ HasSpace(at[v])'
  <1> DEFINE s == wr[w].seg
             n == Len(blks)
             k == Len(segs) + 1
  <1>1. /\ M = Merged(s, v) /\ M \subseteq Vertices /\ v \in M
        /\ at \in [M -> n + 1 .. Len(blks')]
        /\ \A x, y \in M : x # y => at[x] # at[y]
        /\ \A i \in n + 1 .. Len(blks') :
             \E u \in M : at[u] = i /\ blks'[i] = MergedBlock(s, u, v)
    BY DEF MergesInto
  <1>2. /\ s = segptr /\ s \in 1 .. Len(segs)
        /\ Len(segs') = k /\ segptr' = k
        /\ \A t \in 1 .. Len(segs) : segs'[t] = segs[t]
        /\ \A u \in Vertices : segs'[k].region[u] = IF u \in M THEN at[u] ELSE 0
    <2>1. /\ s = segptr /\ s \in 1 .. Len(segs)
          /\ Len(segs') = k /\ segptr' = k
          /\ \A t \in 1 .. Len(segs) : segs'[t] = segs[t]
      BY MergeSegs
    <2>2. /\ \A u \in M : segs'[Len(segs) + 1].region[u] = at[u]
          /\ \A u \in Vertices \ M : segs'[Len(segs) + 1].region[u] = 0
      BY MergeSegs
    <2> HIDE DEF s
    <2>3. QED
      BY <2>1, <2>2
  <1>3. /\ n \in Nat /\ Len(segs) \in Nat /\ Len(blks') \in Nat /\ Len(blks') >= n
        /\ \A i \in 1 .. n : blks'[i] = blks[i]
        /\ hist' = hist /\ segptr # 0 /\ v \in Vertices
    <2>1. n \in Nat /\ Len(segs) \in Nat
      BY DEF Types, BlockTypes, SegTypes
    <2>2. Len(blks') \in Nat /\ Len(blks') >= n /\ \A i \in 1 .. n : blks'[i] = blks[i]
      BY MergeBlocks
    <2>3. QED
      BY <1>1, <1>2, <2>1, <2>2 DEF MergeSegment
  <1>4. ASSUME NEW u \in Vertices
        PROVE  /\ MergedBlock(segptr, u, v).prev = 0
               /\ MergedBlock(segptr, u, v).prevnum = 0
               /\ MergedBlock(segptr, u, v).order \in Nat
               /\ Len(MergedBlock(segptr, u, v).ents) = Len(hist[u])
               /\ \A i \in 1 .. Len(MergedBlock(segptr, u, v).ents) :
                    MergedBlock(segptr, u, v).ents[i] = i
               /\ Len(MergedBlock(segptr, u, v).ents) <= Pow2[MergedBlock(segptr, u, v).order]
               /\ u = v => Len(MergedBlock(segptr, u, v).ents)
                             < Pow2[MergedBlock(segptr, u, v).order]
    BY <1>3, MergedBlockSound DEF LogInv
  <1> HIDE DEF s, n, k
  <1>5. \A u \in Vertices : Region(segptr, u)' = IF u \in M THEN at[u] ELSE 0
    BY <1>2, <1>3 DEF Region, k
  <1>6. ASSUME NEW u \in M
        PROVE  at[u] \in n + 1 .. Len(blks') /\ blks'[at[u]] = MergedBlock(segptr, u, v)
    <2>1. at[u] \in n + 1 .. Len(blks')
      BY <1>1
    <2>2. PICK x \in M : at[x] = at[u] /\ blks'[at[u]] = MergedBlock(segptr, x, v)
      BY <1>1, <1>2, <2>1
    <2>3. x = u
      BY <1>1, <2>2
    <2>4. QED
      BY <2>1, <2>2, <2>3
  <1>7. ASSUME NEW i \in n + 1 .. Len(blks')
        PROVE  \E u \in M : at[u] = i /\ blks'[i] = MergedBlock(segptr, u, v)
    BY <1>1, <1>2
  <1>8. \A i \in 0 .. n : End(i)' = End(i)
    BY <1>3, EndKept
  <1>9. BlocksSound'
    <2> SUFFICES ASSUME NEW i \in 1 .. Len(blks') PROVE BlockSound(i)'
      BY DEF BlocksSound
    <2>1. CASE i \in 1 .. n
      <3>1. BlockSound(i) /\ blks'[i] = blks[i]
        BY <1>3, <2>1 DEF LogInv, LogStore, BlocksSound, n
      <3>2. blks[i].prev \in 0 .. n
        BY <2>1, BlockFields DEF Types, n
      <3>3. QED
        BY <1>8, <3>1, <3>2 DEF BlockSound
    <2>2. CASE i \in n + 1 .. Len(blks')
      <3>1. PICK u \in M : at[u] = i /\ blks'[i] = MergedBlock(segptr, u, v)
        BY <1>7, <2>2
      <3>2. u \in Vertices
        BY <1>1
      <3>3. QED
        BY <1>4, <3>1, <3>2 DEF BlockSound, End
    <2>3. QED
      BY <1>3, <2>1, <2>2
  <1>10. \A t \in 1 .. Len(segs), u \in Vertices : segs'[t].region[u] \in 0 .. n
    BY <1>2, SegmentFields DEF Types, n
  <1>11. OwnBlocks'
    <2> SUFFICES ASSUME NEW t1 \in 1 .. k, NEW t2 \in 1 .. k,
                        NEW u1 \in Vertices, NEW u2 \in Vertices,
                        segs'[t1].region[u1] = segs'[t2].region[u2],
                        segs'[t1].region[u1] # 0
                 PROVE  u1 = u2
      BY <1>2 DEF OwnBlocks
    <2>0. \A u \in M : at[u] \in Int /\ at[u] > n
      BY <1>3, <1>6
    <2>1. CASE t1 \in 1 .. Len(segs) /\ t2 \in 1 .. Len(segs)
      BY <1>2, <2>1 DEF LogInv, LogStore, OwnBlocks
    <2>2. CASE t1 = k /\ t2 = k
      <3>1. u1 \in M /\ u2 \in M /\ at[u1] = at[u2]
        BY <1>2, <2>2
      <3>2. QED
        BY <1>1, <3>1
    <2>3. CASE t1 = k /\ t2 \in 1 .. Len(segs)
      <3>1. u1 \in M /\ segs'[t1].region[u1] = at[u1]
        BY <1>2, <2>3
      <3>2. QED
        BY <1>3, <1>10, <2>0, <2>3, <3>1
    <2>4. CASE t2 = k /\ t1 \in 1 .. Len(segs)
      <3>1. u2 \in M /\ segs'[t2].region[u2] = at[u2]
        BY <1>2, <2>4
      <3>2. QED
        BY <1>3, <1>10, <2>0, <2>4, <3>1
    <2>5. QED
      BY <1>3, <2>1, <2>2, <2>3, <2>4 DEF k
  <1>12. Heads'
    <2> SUFFICES ASSUME NEW i \in 1 .. Len(blks'), NEW u \in Vertices, blks'[i].prev # 0
                 PROVE  blks'[i].prev # Region(segptr, u)'
      BY DEF Heads
    <2>1. i \in 1 .. n
      <3>1. CASE i \in n + 1 .. Len(blks')
        <4>1. PICK x \in M : blks'[i] = MergedBlock(segptr, x, v)
          BY <1>7, <3>1
        <4>2. x \in Vertices
          BY <1>1
        <4>3. QED
          BY <1>4, <4>1, <4>2
      <3>2. QED
        BY <1>3, <3>1
    <2>2. blks'[i].prev \in 0 .. n
      <3>1. blks[i].prev \in 0 .. i - 1
        BY <2>1, BlockFields DEF Types, n
      <3>2. QED
        BY <1>3, <2>1, <3>1
    <2>3. CASE u \in M
      BY <1>3, <1>5, <1>6, <2>2, <2>3
    <2>4. CASE u \notin M
      BY <1>5, <2>4
    <2>5. QED
      BY <2>3, <2>4
  <1>13. ListsEnd'
    <2> SUFFICES ASSUME NEW u \in Vertices
                 PROVE  End(Region(segptr, u))' = Len(hist[u])
      BY <1>3 DEF ListsEnd
    <2>1. CASE u \in M
      <3>1. Region(segptr, u)' = at[u] /\ at[u] # 0
        BY <1>3, <1>5, <1>6, <2>1
      <3>2. Len(hist[u]) \in Nat
        BY DEF Types, ListTypes
      <3>3. QED
        BY <1>4, <1>6, <2>1, <3>1, <3>2 DEF End
    <2>2. CASE u \notin M
      <3>1. Chain(segs[segptr].region[u]) = << >>
        BY <1>1, <1>2, <2>2 DEF Merged
      <3>2. Len(hist[u]) = Len(MergedBlock(segptr, u, v).ents)
        BY <1>4
      <3>3. Len(hist[u]) = 0
        BY <3>1, <3>2 DEF MergedBlock
      <3>4. Region(segptr, u)' = 0
        BY <1>5, <2>2
      <3>5. QED
        BY <3>3, <3>4 DEF End
    <2>3. QED
      BY <2>1, <2>2
  <1>14. Region(segptr, v)' = at[v]
    BY <1>1, <1>3, <1>5
  <1>15. HasSpace(at[v])'
    BY <1>1, <1>3, <1>4, <1>6 DEF HasSpace
  <1>16. QED
    BY <1>9, <1>11, <1>12, <1>13, <1>14, <1>15 DEF LogStore

(* The lists stay complete, and writers where the lists are. *)
LEMMA LogStep ==
  ASSUME OneWriter, Types, LogInv, [Next]_vars
  PROVE  LogInv'
  <1>0. LogStore /\ \A w \in Writers : WriterLog(wr[w])
    BY DEF LogInv
  <1>1. ASSUME UNCHANGED <<hist, segptr, segs, blks>>
        PROVE  /\ LogStore'
               /\ \A q : WriterLog(q)' = WriterLog(q)
    <2>1. LogStore'
      BY <1>0, <1>1, LogStoreKept
    <2>2. QED
      BY <1>1, <2>1 DEF WriterLog, HasBlock, HasSpace, Region
  <1>2. CASE \/ \E e \in LogEpochs : NextEpoch(e)
             \/ Recycle
             \/ \E r \in Readers : Read(r)
             \/ UNCHANGED vars
    <2>1. UNCHANGED <<hist, segptr, segs, blks, wr>>
      <3>1. CASE \E e \in LogEpochs : NextEpoch(e)
        BY <3>1 DEF NextEpoch, store
      <3>2. CASE Recycle
        BY <3>2 DEF Recycle
      <3>3. CASE \E r \in Readers : Read(r)
        BY <3>3, ReadFrame
      <3>4. CASE UNCHANGED vars
        BY <3>4 DEF vars, store
      <3>5. QED
        BY <1>2, <3>1, <3>2, <3>3, <3>4
    <2>2. LogStore' /\ \A w \in Writers : WriterLog(wr[w])'
      BY <1>0, <1>1, <2>1
    <2>3. QED
      BY <2>1, <2>2 DEF LogInv
  <1>3. ASSUME NEW w \in Writers, LockStep(w) \/ StoreStep(w), Next
        PROVE  LogInv'
    <2> DEFINE p == wr[w]
               q == wr'[w]
    <2>0. /\ p \in WriterType /\ wr \in [Writers -> WriterType]
          /\ p.seg \in 0 .. Len(segs) /\ WriterLog(p)
          /\ \A x \in Writers : x = w
      BY <1>0, WriterAt DEF Types, WriterTypes, OneWriter
    <2>g. /\ wr[w].pc \in {"reshare", "block", "merge", "table", "append", "edge"} =>
               wr[w].seg \in 1 .. Len(segs)
          /\ wr[w].pc # "idle" => wr[w].v \in Vertices
      BY WriterAt
    <2>s. SUFFICES LogStore' /\ WriterLog(wr[w])'
      BY <2>0 DEF LogInv
    <2>t. segptr = Len(segs) /\ Len(segs) \in Nat
      BY DEF Types, SegTypes
    <2>1. CASE LockStep(w)
      <3>1. UNCHANGED <<hist, segptr, segs, blks>>
        BY <2>1, LockStepFrame
      <3>2. LogStore'
        BY <1>1, <3>1
      <3>3. WriterLog(q)
        <4>1. CASE LocateSegment(w)
          BY <2>0, <4>1 DEF LocateSegment, WriterLog, WriterType
        <4>2. CASE Restart(w)
          BY <2>0, <4>2 DEF Restart, WriterLog
        <4>3. CASE Reshare(w)
          BY <2>0, <4>3 DEF Reshare, WriterLog, WriterType, HasBlock
        <4>4. CASE UseBlock(w)
          <5>1. /\ q.pc = "table" /\ q.v = p.v /\ q.seg = p.seg
                /\ q.blk = segs[p.seg].region[p.v] /\ HasSpace(q.blk)
            BY <2>0, <4>4 DEF UseBlock, WriterType
          <5>2. p.seg = segptr /\ p.seg # 0
            BY <2>0, <2>g, <4>4 DEF UseBlock, WriterLog
          <5>3. QED
            BY <5>1, <5>2 DEF WriterLog, HasBlock, Region
        <4>5. CASE OutOfMemory(w)
          BY <2>0, <4>5 DEF OutOfMemory, IdleWriter, WriterLog
        <4>6. CASE \E u \in Vertices : PutEdge(w, u)
          BY <2>0, <4>6 DEF PutEdge, IdleWriter, WriterLog
        <4>7. CASE LockFutex(w)
          BY <2>0, <4>7 DEF LockFutex, WriterLog
        <4>8. CASE InitFails(w)
          <5>1. q.pc = "dead"
            BY <2>0, <4>8 DEF InitFails, InitSegment, WriterType
          <5>2. QED
            BY <5>1 DEF WriterLog
        <4>9. QED
          BY <2>1, <4>1, <4>2, <4>3, <4>4, <4>5, <4>6, <4>7, <4>8 DEF LockStep
      <3>4. QED
        BY <3>1, <3>2, <3>3 DEF WriterLog, HasBlock, HasSpace, Region
    <2>2. CASE Inits(w)
      <3>1. LogStore'
        BY <1>3, <2>2, LogInit
      <3>2. q.pc = "reshare" /\ q.seg = segptr' /\ q.blk = 0
        BY <2>0, <2>2 DEF Inits, InitSegment, WriterType, WriterLog
      <3>3. QED
        BY <3>1, <3>2 DEF WriterLog
    <2>3. CASE GrowBlock(w)
      <3>0. PICK v, n : v = wr[w].v /\ n = Len(blks) + 1
        OBVIOUS
      <3>1. LogStore' /\ Region(segptr, v)' = n /\ HasSpace(n)'
        BY <1>3, <2>3, <3>0, LogGrow
      <3>2. /\ q.pc = "table" /\ q.v = v /\ q.seg = p.seg
            /\ q.blk = n /\ segptr' = segptr /\ p.seg = segptr
        BY <2>0, <2>3, <3>0 DEF GrowBlock, NeedsBlock, WriterType, WriterLog
      <3>3. QED
        BY <3>1, <3>2 DEF WriterLog, HasBlock, HasSpace, Region
    <2>4. CASE SegmentFull(w)
      <3>1. /\ Len(segs') = Len(segs) /\ segptr' = segptr /\ blks' = blks /\ hist' = hist
            /\ \A s \in 1 .. Len(segs) : segs'[s].region = segs[s].region
        BY <1>3, <2>4, FullSegs DEF OtherSegsKept, SegmentFull
      <3>2. LogStore'
        BY <1>0, <3>1, LogStoreKept
      <3>3. q.pc = "merge" /\ q.seg = p.seg /\ p.seg = segptr
        BY <2>0, <2>4 DEF SegmentFull, NeedsBlock, WriterType, WriterLog
      <3>4. QED
        BY <3>1, <3>2, <3>3 DEF WriterLog
    <2>5. CASE MergeSegment(w) /\ ~ MergeCrashes(w)
      <3>1. PICK M, at : MergesInto(w, M, at)
        BY <2>5, MergeBlocks
      <3>0. PICK v : v = wr[w].v
        OBVIOUS
      <3>2. LogStore' /\ Region(segptr, v)' = at[v] /\ HasSpace(at[v])'
        BY <1>3, <2>5, <3>0, <3>1, LogMerge
      <3>3. /\ q.pc = "reshare" /\ q.v = v /\ q.seg = segptr' /\ q.blk = at[v]
        BY <2>0, <2>5, <3>0, <3>1 DEF MergeSegment, MergeCrashes, MergesInto, WriterType
      <3>4. QED
        BY <3>2, <3>3 DEF WriterLog, HasBlock, HasSpace, Region
    <2>6. CASE MergeSegment(w) /\ MergeCrashes(w)
      <3>1. UNCHANGED <<hist, segptr, segs, blks>> /\ q.pc = "crashed"
        BY <2>0, <2>6 DEF MergeSegment, MergeCrashes, WriterType
      <3>2. LogStore'
        BY <1>1, <3>1
      <3>3. QED
        BY <3>1, <3>2 DEF WriterLog
    <2>7. CASE CreateTable(w) \/ ReplaceTable(w)
      <3>1. /\ Len(segs') = Len(segs) /\ segptr' = segptr /\ blks' = blks /\ hist' = hist
            /\ \A s \in 1 .. Len(segs) : segs'[s].region = segs[s].region
        BY <1>3, <2>7, TableSegs DEF OtherSegsKept, CreateTable, ReplaceTable
      <3>2. LogStore' /\ \A v \in Vertices : Region(segptr, v)' = Region(segptr, v)
        BY <1>0, <3>1, LogStoreKept
      <3>3. /\ q.pc \in {"edge", "append"} /\ q.v = p.v /\ q.seg = p.seg /\ q.blk = p.blk
            /\ p.seg = segptr /\ HasBlock(p) /\ p.v \in Vertices
        BY <2>0, <2>g, <2>7 DEF CreateTable, ReplaceTable, NewEpochDue, WriterType, WriterLog
      <3>4. QED
        BY <3>1, <3>2, <3>3 DEF WriterLog, HasBlock, HasSpace
    <2>8. CASE AppendEpoch(w)
      <3>1. UNCHANGED <<hist, segptr, segs, blks>>
        BY <2>8 DEF AppendEpoch
      <3>2. LogStore'
        BY <1>1, <3>1
      <3>3. /\ q.pc = "edge" /\ q.v = p.v /\ q.seg = p.seg /\ q.blk = p.blk
            /\ p.seg = segptr /\ HasBlock(p)
        BY <2>0, <2>8 DEF AppendEpoch, NewEpochDue, WriterType, WriterLog
      <3>4. QED
        BY <3>1, <3>2, <3>3 DEF WriterLog, HasBlock, HasSpace, Region
    <2>9. CASE AppendEdge(w)
      <3>1. LogStore'
        BY <1>3, <2>9, LogAppend
      <3>2. q.pc = "idle"
        BY <2>0, <2>9 DEF AppendEdge, IdleWriter
      <3>3. QED
        BY <3>1, <3>2 DEF WriterLog
    <2>10. QED
      BY <1>3, <2>1, <2>2, <2>3, <2>4, <2>5, <2>6, <2>7, <2>8, <2>9 DEF StoreStep
  <1>4. QED
    BY <1>2, <1>3, NextCases

LEMMA LogInit0 == Init => LogInv
  <1> SUFFICES ASSUME Init PROVE LogInv
    OBVIOUS
  <1>1. /\ segptr = 0 /\ segs = << >> /\ blks = << >>
        /\ hist = [v \in Vertices |-> << >>]
        /\ wr = [w \in Writers |-> IdleWriter]
    BY DEF Init
  <1>2. Len(segs) = 0 /\ Len(blks) = 0 /\ \A v \in Vertices : Len(hist[v]) = 0
    BY <1>1
  <1>3. QED
    BY <1>1, <1>2 DEF LogInv, LogStore, BlocksSound, OwnBlocks, Heads, ListsEnd, Region,
                      End, WriterLog, IdleWriter

(* The chain of every vertex is the log of its edges, and the offset of a   *)
(* linked block is where the chain behind it ends, through copied, linked   *)
(* and merged blocks.  The code is built for one writer by default; with    *)
(* two, the second one can append to a segment that has just been merged.   *)
THEOREM ChainCorrect ==
  ASSUME OneWriter
  PROVE  Spec => []ChainIsLog
  <1>1. Init => Types /\ LogInv
    BY InitTypes, LogInit0
  <1>2. Types /\ LogInv /\ [Next]_vars => Types' /\ LogInv'
    BY TypesStep, LogStep
  <1>3. Types /\ LogInv => ChainIsLog
    <2> SUFFICES ASSUME Types, LogInv, NEW v \in Vertices
                 PROVE  LET b == Region(segptr, v) IN
                        /\ Chain(b) = Iota(Len(hist[v]))
                        /\ b # 0 => blks[b].prevnum = Len(Chain(blks[b].prev))
      BY DEF ChainIsLog
    <2> DEFINE b == Region(segptr, v)
    <2>1. b \in 0 .. Len(blks) /\ Len(blks) \in Nat
      BY NewestRegion DEF Types, BlockTypes
    <2>2. End(b) = Len(hist[v])
      BY DEF LogInv, LogStore, ListsEnd
    <2>3. \A c \in 0 .. Len(blks) :
            End(c) \in Nat /\ Chain(c) = Iota(End(c)) /\ Len(Chain(c)) = End(c)
      BY ChainIsIota, IotaFacts DEF Types, LogInv, LogStore
    <2> HIDE DEF b
    <2>4. ASSUME b # 0 PROVE blks[b].prevnum = Len(Chain(blks[b].prev))
      <3>1. b \in 1 .. Len(blks) /\ blks[b].prev \in 0 .. b - 1
        BY <2>1, <2>4, BlockFields DEF Types
      <3>2. blks[b].prevnum = End(blks[b].prev)
        BY <3>1 DEF LogInv, LogStore, BlocksSound, BlockSound
      <3>3. QED
        BY <2>1, <2>3, <3>1, <3>2
    <2>5. QED
      BY <2>1, <2>2, <2>3, <2>4 DEF b
  <1>4. QED
    BY <1>1, <1>2, <1>3, PTL DEF Spec

-----------------------------------------------------------------------------
(* Readers of the segmented store.  For one writer and any number of       *)
(* readers, vertices, segments and blocks, a read of a published epoch     *)
(* that no writer overtook returns exactly the edges of the epochs up to   *)
(* its own.                                                                *)

(* Lists and tables as values. *)

(* Epochs grow along a list h and do not exceed e. *)
Sorted(h, e) ==
  /\ \A i \in 1 .. Len(h) : h[i] <= e
  /\ \A i, j \in 1 .. Len(h) : i <= j => h[i] <= h[j]

(* A table splits the list at each of its entries, the later ones never at  *)
(* its beginning.                                                           *)
TableEntry(t, k, h, e) ==
  /\ t[k].epoch <= e
  /\ t[k].offset <= Len(h)
  /\ k = 1 => t[k].offset = 0
  /\ k > 1 => t[k].offset > 0
  /\ \A i \in 1 .. Len(h) : i > t[k].offset => h[i] >= t[k].epoch
  /\ k > 1 => \A i \in 1 .. Len(h) : i <= t[k].offset => h[i] <= t[k - 1].epoch

TableSound(t, h, e) == Len(t) >= 1 /\ \A k \in 1 .. Len(t) : TableEntry(t, k, h, e)

(* The table reaches the end of the list. *)
Covers(t, h) == \A i \in 1 .. Len(h) : h[i] <= LastEpoch(t)

(* How a list may grow while the write epoch is e. *)
Extends(h, g, e) ==
  /\ Len(h) <= Len(g)
  /\ \A i \in 1 .. Len(h) : g[i] = h[i]
  /\ \A i \in 1 .. Len(g) : i > Len(h) => g[i] >= e

LEMMA ListFields ==
  ASSUME NEW h \in Seq(LogEpochs)
  PROVE  Len(h) \in Nat /\ \A i \in 1 .. Len(h) : h[i] \in Nat
  <1>1. Len(h) \in Nat /\ \A i \in 1 .. Len(h) : h[i] \in LogEpochs
    OBVIOUS
  <1>2. LogEpochs \subseteq Nat
    BY SegGraphAssumption
  <1>3. QED
    BY <1>1, <1>2

LEMMA TableFields ==
  ASSUME NEW t \in Seq(EpochEntry)
  PROVE  /\ Len(t) \in Nat
         /\ \A k \in 1 .. Len(t) :
              t[k] \in EpochEntry /\ t[k].epoch \in Nat /\ t[k].offset \in Nat
         /\ Len(t) >= 1 => LastEpoch(t) \in Nat
  <1>1. Len(t) \in Nat /\ \A k \in 1 .. Len(t) : t[k] \in EpochEntry
    OBVIOUS
  <1>2. \A k \in 1 .. Len(t) : t[k].epoch \in Nat /\ t[k].offset \in Nat
    BY <1>1, SegGraphAssumption DEF EpochEntry
  <1>3. Len(t) >= 1 => Len(t) \in 1 .. Len(t)
    BY <1>1
  <1>4. QED
    BY <1>1, <1>2, <1>3 DEF LastEpoch

(* A sorted list stays sorted while entries of the write epoch are added. *)
LEMMA SortedStays ==
  ASSUME NEW h \in Seq(LogEpochs), NEW g \in Seq(LogEpochs),
         NEW e \in Nat, NEW f \in Nat, e <= f,
         Sorted(h, e), Extends(h, g, e), \A i \in 1 .. Len(g) : i > Len(h) => g[i] = e
  PROVE  Sorted(g, f)
  <1>1. /\ Len(h) \in Nat /\ Len(g) \in Nat
        /\ \A i \in 1 .. Len(h) : h[i] \in Nat
        /\ \A i \in 1 .. Len(g) : g[i] \in Nat
    BY ListFields
  <1>2. \A i \in 1 .. Len(g) : i \in 1 .. Len(h) \/ g[i] = e
    BY <1>1
  <1>3. \A i \in 1 .. Len(g) : g[i] <= e
    BY <1>1, <1>2 DEF Sorted, Extends
  <1>4. ASSUME NEW i \in 1 .. Len(g), NEW j \in 1 .. Len(g), i <= j
        PROVE  g[i] <= g[j]
    <2>1. CASE g[j] = e
      BY <1>3, <2>1
    <2>2. CASE j \in 1 .. Len(h)
      <3>1. i \in 1 .. Len(h)
        BY <1>4, <2>2
      <3>2. QED
        BY <1>4, <2>2, <3>1 DEF Sorted, Extends
    <2>3. QED
      BY <1>2, <2>1, <2>2
  <1>5. \A i \in 1 .. Len(g) : g[i] <= f
    BY <1>1, <1>3
  <1>6. QED
    BY <1>4, <1>5 DEF Sorted

(* A table that is sound stays sound while the list grows. *)
LEMMA TableStays ==
  ASSUME NEW t \in Seq(EpochEntry), NEW h \in Seq(LogEpochs), NEW g \in Seq(LogEpochs),
         NEW e \in Nat, NEW f \in Nat, e <= f,
         TableSound(t, h, e), Extends(h, g, e)
  PROVE  TableSound(t, g, f)
  <1>1. /\ Len(h) \in Nat /\ Len(g) \in Nat
        /\ \A i \in 1 .. Len(h) : h[i] \in Nat
        /\ \A i \in 1 .. Len(g) : g[i] \in Nat
    BY ListFields
  <1>2. ASSUME NEW k \in 1 .. Len(t) PROVE TableEntry(t, k, g, f)
    <2>1. TableEntry(t, k, h, e) /\ t[k].epoch \in Nat /\ t[k].offset \in Nat
      BY TableFields DEF TableSound
    <2>2. /\ t[k].epoch <= f
          /\ t[k].offset <= Len(g)
          /\ k = 1 => t[k].offset = 0
          /\ k > 1 => t[k].offset > 0
      BY <1>1, <2>1 DEF TableEntry, Extends
    <2>3. ASSUME NEW i \in 1 .. Len(g), i > t[k].offset PROVE g[i] >= t[k].epoch
      <3>1. CASE i \in 1 .. Len(h)
        BY <2>1, <2>3, <3>1 DEF TableEntry, Extends
      <3>2. CASE i > Len(h)
        <4>1. g[i] >= e /\ t[k].epoch <= e
          BY <2>1, <3>2 DEF TableEntry, Extends
        <4>2. QED
          BY <1>1, <2>1, <4>1
      <3>3. QED
        BY <1>1, <3>1, <3>2
    <2>4. ASSUME k > 1, NEW i \in 1 .. Len(g), i <= t[k].offset
          PROVE  g[i] <= t[k - 1].epoch
      <3>1. i \in 1 .. Len(h)
        BY <1>1, <2>1, <2>4 DEF TableEntry
      <3>2. QED
        BY <2>1, <2>4, <3>1 DEF TableEntry, Extends
    <2>5. QED
      BY <2>2, <2>3, <2>4 DEF TableEntry
  <1>3. QED
    BY <1>2 DEF TableSound

(* The entry put_edge adds to a table that covers the list. *)
LEMMA TableGrows ==
  ASSUME NEW t \in Seq(EpochEntry), NEW h \in Seq(LogEpochs), NEW e \in Nat,
         NEW x \in EpochEntry, x.offset = Len(h), x.epoch = e,
         TableSound(t, h, e), Covers(t, h), Len(h) > 0, Sorted(h, e)
  PROVE  /\ Append(t, x) \in Seq(EpochEntry)
         /\ TableSound(Append(t, x), h, e)
         /\ Covers(Append(t, x), h)
         /\ LastEpoch(Append(t, x)) = e
  <1> DEFINE u == Append(t, x)
  <1>1. /\ u \in Seq(EpochEntry) /\ Len(u) = Len(t) + 1 /\ Len(t) \in Nat
        /\ \A k \in 1 .. Len(t) : u[k] = t[k]
        /\ u[Len(t) + 1] = x
    OBVIOUS
  <1>2. Len(h) \in Nat /\ \A i \in 1 .. Len(h) : h[i] \in Nat
    BY ListFields
  <1> HIDE DEF u
  <1>3. LastEpoch(u) = e
    BY <1>1 DEF LastEpoch
  <1>4. ASSUME NEW k \in 1 .. Len(u) PROVE TableEntry(u, k, h, e)
    <2>1. CASE k \in 1 .. Len(t)
      <3>1. TableEntry(t, k, h, e) /\ u[k] = t[k]
        BY <1>1, <2>1 DEF TableSound
      <3>2. k > 1 => u[k - 1] = t[k - 1]
        BY <1>1, <2>1
      <3>3. QED
        BY <3>1, <3>2 DEF TableEntry
    <2>2. CASE k = Len(t) + 1
      <3>1. u[k] = x /\ Len(t) >= 1 /\ k > 1
        BY <1>1, <2>2 DEF TableSound
      <3>2. u[k - 1] = t[Len(t)]
        BY <1>1, <2>2, <3>1
      <3>3. \A i \in 1 .. Len(h) : h[i] <= t[Len(t)].epoch
        BY DEF Covers, LastEpoch
      <3>4. QED
        BY <1>2, <3>1, <3>2, <3>3 DEF TableEntry
    <2>3. QED
      BY <1>1, <2>1, <2>2
  <1>5. TableSound(u, h, e)
    BY <1>1, <1>4 DEF TableSound
  <1>6. Covers(u, h)
    BY <1>3 DEF Covers, Sorted
  <1>7. QED
    BY <1>1, <1>3, <1>5, <1>6 DEF u

(* The first table of a list that is still empty. *)
LEMMA FirstTable ==
  ASSUME NEW e \in LogEpochs, NEW h, Len(h) = 0
  PROVE  LET t == <<[offset |-> 0, epoch |-> e]>> IN
         t \in Seq(EpochEntry) /\ TableSound(t, h, e) /\ Covers(t, h)
  <1> DEFINE x == [offset |-> 0, epoch |-> e]
             t == <<x>>
  <1>1. x \in EpochEntry /\ x.offset = 0 /\ x.epoch = e /\ e \in Nat
    BY SegGraphAssumption DEF EpochEntry
  <1> HIDE DEF x
  <1>2. t \in Seq(EpochEntry) /\ Len(t) = 1 /\ t[1] = x
    BY <1>1
  <1> HIDE DEF t
  <1>3. TableEntry(t, 1, h, e)
    BY <1>1, <1>2 DEF TableEntry
  <1>4. QED
    BY <1>2, <1>3 DEF TableSound, Covers, x, t

-----------------------------------------------------------------------------
(* What the iterator computes from a list and its table. *)

(* Max of a set of positions. *)
LEMMA MaxPosition ==
  ASSUME NEW n \in Nat, NEW S \in SUBSET (1 .. n), S # {}
  PROVE  Max(S) \in S /\ \A j \in S : j <= Max(S)
  <1> DEFINE D == {n - j : j \in S}
  <1>1. D \in SUBSET Nat /\ D # {}
    <2>1. \A j \in S : n - j \in Nat
      OBVIOUS
    <2>2. PICK a : a \in S
      OBVIOUS
    <2>3. QED
      BY <2>1, <2>2
  <1>2. PICK d \in D : \A y \in D : d <= y
    BY <1>1, LeastNumber
  <1>3. PICK k \in S : d = n - k
    BY <1>2
  <1>4. \A j \in S : j <= k
    <2> TAKE j \in S
    <2>1. n - j \in D /\ d <= n - j
      BY <1>2
    <2>2. QED
      BY <1>3, <2>1
  <1>5. \E m \in S : \A j \in S : j <= m
    BY <1>4
  <1>6. QED
    BY <1>5 DEF Max

(* The positions of the epochs up to e. *)
UpToIs(h, e, n) == n \in 0 .. Len(h) /\ \A i \in 1 .. Len(h) : i <= n <=> h[i] <= e

(* num entries counted, all the ones up to e and all covered by the table. *)
Counted(t, h, e, low, num) ==
  /\ low <= num /\ num <= Len(h)
  /\ \A i \in 1 .. Len(h) : i > low => h[i] > e
  /\ \A i \in 1 .. Len(h) : i <= num => h[i] <= LastEpoch(t)

(* The table's last entry that does not lie behind e. *)
LooksUp(t, e, ks, k) == ks = {j \in 1 .. Len(t) : t[j].epoch <= e} /\ k = Max(ks)

(* Where a reader of epoch e stops that has counted num entries, at least   *)
(* low of them, and all of them covered by the table: at none, at num, or   *)
(* where the first epoch behind e begins.                                   *)
LEMMA SnapshotEnds ==
  ASSUME NEW t \in Seq(EpochEntry), NEW h \in Seq(LogEpochs),
         NEW e \in Nat, NEW f \in Nat, NEW low \in Nat, NEW num \in Nat,
         TableSound(t, h, f), Counted(t, h, e, low, num),
         NEW ks, NEW k, LooksUp(t, e, ks, k)
  PROVE  /\ ks = {} => UpToIs(h, e, 0)
         /\ ks # {} /\ k = Len(t) => UpToIs(h, e, num)
         /\ ks # {} /\ k # Len(t) =>
              /\ k + 1 \in 1 .. Len(t)
              /\ t[k + 1].offset \in Nat
              /\ t[k + 1].offset > 0
              /\ t[k + 1].offset <= low
              /\ UpToIs(h, e, t[k + 1].offset)
  <1>a. /\ low <= num /\ num <= Len(h)
        /\ \A i \in 1 .. Len(h) : i > low => h[i] > e
        /\ \A i \in 1 .. Len(h) : i <= num => h[i] <= LastEpoch(t)
    BY DEF Counted
  <1>b. ks = {j \in 1 .. Len(t) : t[j].epoch <= e} /\ k = Max(ks)
    BY DEF LooksUp
  <1>1. Len(h) \in Nat /\ \A i \in 1 .. Len(h) : h[i] \in Nat
    BY ListFields
  <1>2. /\ Len(t) \in Nat /\ Len(t) >= 1
        /\ \A j \in 1 .. Len(t) : t[j].epoch \in Nat /\ t[j].offset \in Nat
    BY TableFields DEF TableSound
  <1>3. ASSUME ks = {} PROVE UpToIs(h, e, 0)
    <2>1. TableEntry(t, 1, h, f) /\ 1 \in 1 .. Len(t)
      BY <1>2 DEF TableSound
    <2>2. t[1].epoch > e
      BY <1>b, <1>2, <1>3, <2>1
    <2>3. \A i \in 1 .. Len(h) : h[i] >= t[1].epoch
      BY <2>1 DEF TableEntry
    <2>4. \A i \in 1 .. Len(h) : ~ (i <= 0) /\ ~ (h[i] <= e)
      BY <1>1, <1>2, <2>1, <2>2, <2>3, SMTT(30)
    <2>5. QED
      BY <1>1, <2>4 DEF UpToIs
  <1>4. ASSUME ks # {}
        PROVE  k \in 1 .. Len(t) /\ t[k].epoch <= e
               /\ \A j \in 1 .. Len(t) : j > k => t[j].epoch > e
    <2>1. k \in ks /\ \A j \in ks : j <= k
      BY <1>b, <1>2, <1>4, MaxPosition
    <2>2. k \in 1 .. Len(t) /\ t[k].epoch <= e
      BY <1>b, <2>1
    <2>3. ASSUME NEW j \in 1 .. Len(t), j > k PROVE t[j].epoch > e
      <3>1. j \notin ks
        BY <1>2, <2>1, <2>2, <2>3
      <3>2. ~ (t[j].epoch <= e) /\ t[j].epoch \in Nat
        BY <1>b, <1>2, <3>1
      <3>3. QED
        BY <3>2
    <2>4. QED
      BY <2>2, <2>3
  <1>5. ASSUME ks # {}, k = Len(t) PROVE UpToIs(h, e, num)
    <2>1. LastEpoch(t) <= e /\ LastEpoch(t) \in Nat
      BY <1>2, <1>4, <1>5 DEF LastEpoch
    <2>2. ASSUME NEW i \in 1 .. Len(h) PROVE i <= num <=> h[i] <= e
      BY <1>a, <1>1, <2>1
    <2>3. QED
      BY <1>a, <1>1, <2>2 DEF UpToIs
  <1>6. ASSUME ks # {}, k # Len(t)
        PROVE  /\ k + 1 \in 1 .. Len(t)
               /\ t[k + 1].offset \in Nat
               /\ t[k + 1].offset > 0
               /\ t[k + 1].offset <= low
               /\ UpToIs(h, e, t[k + 1].offset)
    <2>1. k \in Nat /\ k + 1 \in 1 .. Len(t) /\ k + 1 > 1 /\ k + 1 - 1 = k /\ k + 1 > k
      BY <1>2, <1>4, <1>6
    <2>2. PICK m : m = k + 1
      OBVIOUS
    <2>3. TableEntry(t, m, h, f) /\ t[m].epoch > e /\ t[m].offset \in Nat /\ t[m].epoch \in Nat
      BY <1>2, <1>4, <1>6, <2>1, <2>2 DEF TableSound
    <2>4. t[k].epoch \in Nat /\ t[k].epoch <= e
      BY <1>2, <1>4, <1>6
    <2>a. m > 1 /\ m - 1 = k
      BY <2>1, <2>2
    <2>5. /\ t[m].offset > 0 /\ t[m].offset <= Len(h)
          /\ \A i \in 1 .. Len(h) : i > t[m].offset => h[i] >= t[m].epoch
          /\ \A i \in 1 .. Len(h) : i <= t[m].offset => h[i] <= t[k].epoch
      BY <2>a, <2>3, <2>4 DEF TableEntry
    <2>6. PICK o, x, y : o = t[m].offset /\ x = t[m].epoch /\ y = t[k].epoch
      OBVIOUS
    <2>7. ASSUME NEW i \in 1 .. Len(h) PROVE i <= o <=> h[i] <= e
      <3>1. /\ o \in Nat /\ x \in Nat /\ y \in Nat /\ x > e /\ y <= e
            /\ i > o => h[i] >= x
            /\ i <= o => h[i] <= y
        BY <2>3, <2>4, <2>5, <2>6
      <3>2. h[i] \in Nat /\ i \in Nat
        BY <1>1
      <3>3. QED
        BY <3>1, <3>2
    <2>8. o <= low
      <3>1. o \in 1 .. Len(h)
        BY <1>1, <2>3, <2>5, <2>6
      <3>2. h[o] <= e /\ h[o] \in Nat
        BY <1>1, <2>7, <3>1
      <3>3. QED
        BY <1>a, <3>1, <3>2
    <2>9. UpToIs(h, e, o)
      BY <1>1, <2>3, <2>5, <2>6, <2>7 DEF UpToIs
    <2>10. QED
      BY <2>1, <2>2, <2>3, <2>5, <2>6, <2>8, <2>9
  <1>7. QED
    BY <1>3, <1>5, <1>6

-----------------------------------------------------------------------------
(* The walk down the chain. *)

(* The walks to the offset end from the blocks up to the n-th. *)
WalksTo(n, end, g) ==
  g = [c \in 1 .. n |-> IF blks[c].prevnum >= end THEN g[blks[c].prev] ELSE c]

LEMMA WalksExist ==
  ASSUME BlockTypes, BlocksSound, NEW end \in Nat, end > 0, NEW n \in Nat, n <= Len(blks)
  PROVE  \E g : WalksTo(n, end, g)
  <1> DEFINE Bad == {m \in Nat : m <= Len(blks) /\ ~ \E g : WalksTo(m, end, g)}
  <1>0. \A c \in 1 .. Len(blks) :
          /\ blks[c].prevnum \in Nat /\ blks[c].prev \in 0 .. c - 1
          /\ blks[c].prevnum >= end => blks[c].prev \in 1 .. c - 1
    <2> TAKE c \in 1 .. Len(blks)
    <2>1. blks[c].prevnum \in Nat /\ blks[c].prev \in 0 .. c - 1
      BY BlockFields
    <2>2. blks[c].prev = 0 => blks[c].prevnum = 0
      BY DEF BlocksSound, BlockSound, End
    <2>3. QED
      BY <2>1, <2>2
  <1>1. 0 \notin Bad
    <2>1. WalksTo(0, end, << >>)
      BY DEF WalksTo
    <2>2. QED
      BY <2>1
  <1>2. ASSUME NEW m \in Nat, m < Len(blks), m \notin Bad PROVE m + 1 \notin Bad
    <2>1. PICK g : WalksTo(m, end, g)
      BY <1>2
    <2>2. PICK z : z = IF blks[m + 1].prevnum >= end THEN g[blks[m + 1].prev] ELSE m + 1
      OBVIOUS
    <2> DEFINE h == [c \in 1 .. m + 1 |-> IF c = m + 1 THEN z ELSE g[c]]
    <2>3. /\ h[m + 1] = z
          /\ \A c \in 1 .. m : h[c] = g[c]
          /\ h = [c \in 1 .. m + 1 |-> h[c]]
      BY <1>2
    <2> HIDE DEF h
    <2>4. ASSUME NEW c \in 1 .. m + 1
          PROVE  h[c] = IF blks[c].prevnum >= end THEN h[blks[c].prev] ELSE c
      <3>0. c \in 1 .. Len(blks) /\ Len(blks) \in Nat
        BY <1>2, BlockFields
      <3>1. CASE c = m + 1
        <4>1. blks[c].prevnum >= end => blks[c].prev \in 1 .. m
          BY <1>0, <1>2, <3>0, <3>1
        <4>2. QED
          BY <2>2, <2>3, <3>1, <4>1
      <3>2. CASE c \in 1 .. m
        <4>1. blks[c].prevnum >= end => blks[c].prev \in 1 .. m
          BY <1>0, <1>2, <3>0, <3>2
        <4>2. g[c] = IF blks[c].prevnum >= end THEN g[blks[c].prev] ELSE c
          BY <2>1, <3>2 DEF WalksTo
        <4>3. QED
          BY <2>3, <3>2, <4>1, <4>2
      <3>3. QED
        BY <1>2, <3>1, <3>2
    <2>5. WalksTo(m + 1, end, h)
      BY <2>3, <2>4 DEF WalksTo
    <2>6. m + 1 \in Nat /\ m + 1 <= Len(blks)
      BY <1>2, BlockFields
    <2>7. QED
      BY <2>5
  <1> HIDE DEF Bad
  <1>3. Bad = {}
    <2> SUFFICES ASSUME Bad # {} PROVE FALSE
      OBVIOUS
    <2>1. PICK x \in Bad : \A y \in Bad : x <= y
      BY LeastNumber DEF Bad
    <2>2. x \in Nat /\ x # 0 /\ x <= Len(blks)
      BY <1>1, <2>1 DEF Bad
    <2>3. x - 1 \in Nat /\ x - 1 < Len(blks) /\ x - 1 \notin Bad
      BY <2>1, <2>2 DEF BlockTypes
    <2>4. x - 1 + 1 \notin Bad
      BY <2>3, <1>2
    <2>5. QED
      BY <2>1, <2>2, <2>4
  <1>4. QED
    BY <1>3 DEF Bad

(* The block in which the entry before an offset of the chain lies. *)
LEMMA BlockBeforeFound ==
  ASSUME BlockTypes, BlocksSound, NEW end \in Nat, end > 0,
         NEW b \in 1 .. Len(blks), end <= End(b)
  PROVE  /\ BlockBefore(b, end) \in 1 .. Len(blks)
         /\ blks[BlockBefore(b, end)].prevnum < end
         /\ end <= End(BlockBefore(b, end))
  <1> DEFINE g == CHOOSE x : WalksTo(Len(blks), end, x)
             Found(c) == /\ g[c] \in 1 .. Len(blks)
                         /\ blks[g[c]].prevnum < end
                         /\ end <= End(g[c])
             Bad == {c \in 1 .. Len(blks) : end <= End(c) /\ ~ Found(c)}
  <1>1. Len(blks) \in Nat
    BY BlockFields
  <1>2. WalksTo(Len(blks), end, g)
    BY <1>1, WalksExist
  <1>3. \A c : BlockBefore(c, end) = g[c]
    BY DEF BlockBefore, WalksTo
  <1> HIDE DEF g
  <1>4. \A c \in 1 .. Len(blks) :
          g[c] = IF blks[c].prevnum >= end THEN g[blks[c].prev] ELSE c
    BY <1>2 DEF WalksTo
  <1>5. Bad = {}
    <2> SUFFICES ASSUME Bad # {} PROVE FALSE
      OBVIOUS
    <2>1. PICK x \in Bad : \A y \in Bad : x <= y
      <3>1. Bad \in SUBSET Nat
        BY <1>1
      <3>2. QED
        BY <3>1, LeastNumber
    <2>2. x \in 1 .. Len(blks) /\ end <= End(x) /\ ~ Found(x)
      OBVIOUS
    <2>3. /\ blks[x].prev \in 0 .. x - 1 /\ blks[x].prevnum \in Nat
          /\ blks[x].prevnum = End(blks[x].prev)
      BY <2>2, BlockFields DEF BlocksSound, BlockSound
    <2>4. CASE blks[x].prevnum >= end
      <3>1. blks[x].prev # 0
        BY <2>3, <2>4 DEF End
      <3>2. PICK p : p = blks[x].prev
        OBVIOUS
      <3>3. p \in 1 .. Len(blks) /\ p < x /\ end <= End(p)
        BY <1>1, <2>2, <2>3, <2>4, <3>1, <3>2
      <3>4. g[x] = g[p]
        BY <1>4, <2>2, <2>4, <3>2
      <3>5. p \in Bad
        BY <2>2, <3>3, <3>4
      <3> HIDE DEF Bad
      <3>6. x <= p
        BY <2>1, <3>5
      <3>7. QED
        BY <1>1, <2>2, <3>3, <3>6
    <2>5. CASE blks[x].prevnum < end
      <3>1. g[x] = x
        BY <1>4, <2>2, <2>3, <2>5
      <3>2. QED
        BY <2>2, <2>5, <3>1
    <2>6. QED
      BY <2>3, <2>4, <2>5
  <1>6. Found(b)
    BY <1>5
  <1>7. QED
    BY <1>3, <1>6

(* The entries of a chain up to an offset in its newest block. *)
LEMMA EntriesUpTo ==
  ASSUME BlockTypes, BlocksSound, NEW b \in 1 .. Len(blks), NEW n \in Nat,
         blks[b].prevnum <= n, n <= End(b)
  PROVE  Chain(blks[b].prev) \o SubSeq(blks[b].ents, 1, n - blks[b].prevnum) = Iota(n)
  <1>1. /\ blks[b].prev \in 0 .. b - 1 /\ blks[b].prevnum \in Nat
        /\ blks[b].ents \in Seq(Nat) /\ Len(blks[b].ents) \in Nat /\ Len(blks) \in Nat
    BY BlockFields
  <1>2. /\ blks[b].prevnum = End(blks[b].prev)
        /\ \A i \in 1 .. Len(blks[b].ents) : blks[b].ents[i] = blks[b].prevnum + i
    BY DEF BlocksSound, BlockSound
  <1>3. PICK m, s, o : /\ o = blks[b].prevnum /\ m = n - o
                       /\ s = SubSeq(blks[b].ents, 1, m)
    OBVIOUS
  <1>4. m \in Nat /\ m <= Len(blks[b].ents) /\ o + m = n /\ o \in Nat
    <2>1. End(b) = blks[b].prevnum + Len(blks[b].ents)
      BY DEF End
    <2>2. QED
      BY <1>1, <1>3, <2>1, SMTT(30)
  <1>5. s \in Seq(Nat) /\ Len(s) = m /\ \A i \in 1 .. m : s[i] = blks[b].ents[i]
    <2>1. PICK z : z = blks[b].ents
      OBVIOUS
    <2>2. z \in Seq(Nat) /\ m \in Nat /\ m <= Len(z) /\ s = SubSeq(z, 1, m)
      BY <1>1, <1>3, <1>4, <2>1
    <2>3. s \in Seq(Nat) /\ Len(s) = m /\ \A i \in 1 .. m : s[i] = z[i]
      BY <2>2
    <2>4. QED
      BY <2>1, <2>3
  <1>6. \A i \in 1 .. Len(s) : s[i] = o + i
    <2> TAKE i \in 1 .. Len(s)
    <2>1. i \in 1 .. m /\ i \in 1 .. Len(blks[b].ents)
      BY <1>1, <1>4, <1>5
    <2>2. QED
      BY <1>2, <1>3, <1>5, <2>1
  <1>7. Chain(blks[b].prev) = Iota(o)
    <2>1. blks[b].prev \in 0 .. Len(blks)
      BY <1>1
    <2>2. QED
      BY <1>2, <1>3, <2>1, ChainIsIota
  <1>8. Chain(blks[b].prev) \o s = Iota(o + Len(s))
    BY <1>4, <1>5, <1>6, <1>7, IotaJoined
  <1>9. QED
    BY <1>3, <1>4, <1>5, <1>8

-----------------------------------------------------------------------------
(* Segments, as far as readers depend on them. *)

(* Only the newest segment may get other blocks, and only new ones; a table *)
(* is never taken away.                                                     *)
SegmentsMove ==
  /\ Len(segs) <= Len(segs')
  /\ \A t \in 0 .. Len(segs'), u \in Vertices :
       t # segptr' => t \in 0 .. Len(segs) /\ Region(t, u)' = Region(t, u)
  /\ \A t \in 0 .. Len(segs'), u \in Vertices :
       Region(t, u)' \in 1 .. Len(blks) =>
         \E s \in 0 .. Len(segs) : Region(s, u) = Region(t, u)'
  /\ \A t \in 0 .. Len(segs), u \in Vertices :
       EpochTableOf(t, u) # 0 => EpochTableOf(t, u)' # 0

LEMMA SegmentsSame ==
  ASSUME Types, segs' = segs, segptr' = segptr
  PROVE  SegmentsMove
  <1>1. Len(segs) \in Nat
    BY DEF Types, SegTypes
  <1>2. \A t, u : Region(t, u)' = Region(t, u) /\ EpochTableOf(t, u)' = EpochTableOf(t, u)
    BY DEF Region, EpochTableOf
  <1>3. QED
    BY <1>1, <1>2 DEF SegmentsMove

(* A new segment behind the present ones, with only new blocks. *)
LEMMA SegmentsAdded ==
  ASSUME Types, Len(segs') = Len(segs) + 1, segptr' = Len(segs) + 1,
         \A t \in 1 .. Len(segs) : segs'[t] = segs[t],
         \A u \in Vertices : \/ segs'[Len(segs) + 1].region[u] = 0
                             \/ segs'[Len(segs) + 1].region[u] > Len(blks)
  PROVE  SegmentsMove
  <1>1. Len(segs) \in Nat /\ Len(blks) \in Nat
    BY DEF Types, SegTypes, BlockTypes
  <1>2. ASSUME NEW t \in 0 .. Len(segs), NEW u \in Vertices
        PROVE  Region(t, u)' = Region(t, u) /\ EpochTableOf(t, u)' = EpochTableOf(t, u)
    BY <1>1, <1>2 DEF Region, EpochTableOf
  <1>3. PICK k : k = Len(segs) + 1
    OBVIOUS
  <1>4. ASSUME NEW u \in Vertices PROVE Region(k, u)' \notin 1 .. Len(blks)
    BY <1>1, <1>3 DEF Region
  <1>5. QED
    <2>1. /\ Len(segs') = k /\ segptr' = k
          /\ \A t \in 0 .. k : t \in 0 .. Len(segs) \/ t = k
      BY <1>1, <1>3
    <2>2. QED
      BY <1>1, <1>2, <1>3, <1>4, <2>1 DEF SegmentsMove

(* The newest segment changes. *)
LEMMA SegmentsChanged ==
  ASSUME Types, OtherSegsKept(segptr), segptr # 0,
         \A u \in Vertices : \/ segs'[segptr].region[u] = segs[segptr].region[u]
                             \/ segs'[segptr].region[u] > Len(blks),
         \A u \in Vertices : segs[segptr].etab[u] # 0 => segs'[segptr].etab[u] # 0
  PROVE  SegmentsMove
  <1>1. /\ Len(segs) \in Nat /\ Len(blks) \in Nat /\ segptr = Len(segs)
        /\ Len(segs') = Len(segs) /\ segptr' = segptr
        /\ \A t \in 1 .. Len(segs) : t # segptr => segs'[t] = segs[t]
    BY DEF Types, SegTypes, BlockTypes, OtherSegsKept
  <1>2. ASSUME NEW t \in 0 .. Len(segs), NEW u \in Vertices, t # segptr
        PROVE  Region(t, u)' = Region(t, u) /\ EpochTableOf(t, u)' = EpochTableOf(t, u)
    BY <1>1, <1>2 DEF Region, EpochTableOf
  <1>3. ASSUME NEW t, t = segptr, NEW u \in Vertices
        PROVE  /\ Region(t, u)' = Region(t, u) \/ Region(t, u)' > Len(blks)
               /\ EpochTableOf(t, u) # 0 => EpochTableOf(t, u)' # 0
    BY <1>1, <1>3 DEF Region, EpochTableOf
  <1>4. QED
    BY <1>1, <1>2, <1>3 DEF SegmentsMove

LEMMA SegmentsMoveStep ==
  ASSUME Types, LogInv, Next, NEW w \in Writers, LockStep(w) \/ StoreStep(w)
  PROVE  SegmentsMove
  <1>0. WriterLog(wr[w]) /\ Len(blks) \in Nat /\ \A v \in Vertices : Len(tabs[v]) \in Nat
    BY DEF LogInv, Types, BlockTypes, ListTypes
  <1>1. CASE LockStep(w) \/ AppendEpoch(w) \/ AppendEdge(w)
               \/ (MergeSegment(w) /\ MergeCrashes(w))
    BY <1>1, SegsKept, SegmentsSame
  <1>2. CASE Inits(w)
    <2>1. /\ Len(segs') = Len(segs) + 1 /\ segptr' = Len(segs) + 1
          /\ \A t \in 1 .. Len(segs) : segs'[t] = segs[t]
          /\ segs'[Len(segs) + 1].region = [v \in Vertices |-> 0]
      BY <1>2, InitSegs
    <2>2. QED
      BY <2>1, SegmentsAdded
  <1>3. CASE MergeSegment(w) /\ ~ MergeCrashes(w)
    <2>1. PICK M, at : MergesInto(w, M, at)
      BY <1>3, MergeBlocks
    <2>2. /\ Len(segs') = Len(segs) + 1 /\ segptr' = Len(segs) + 1
          /\ \A t \in 1 .. Len(segs) : segs'[t] = segs[t]
          /\ \A u \in M : segs'[Len(segs) + 1].region[u] = at[u]
          /\ \A u \in Vertices \ M : segs'[Len(segs) + 1].region[u] = 0
      BY <1>3, <2>1, MergeSegs
    <2>3. \A u \in M : at[u] > Len(blks)
      BY <1>0, <2>1 DEF MergesInto
    <2>4. QED
      BY <2>2, <2>3, SegmentsAdded
  <1>4. CASE GrowBlock(w)
    <2>1. /\ OtherSegsKept(wr[w].seg) /\ wr[w].seg \in 1 .. Len(segs)
          /\ wr[w].v \in Vertices
          /\ segs'[wr[w].seg].region
               = [segs[wr[w].seg].region EXCEPT ![wr[w].v] = Len(blks) + 1]
          /\ segs'[wr[w].seg].etab = segs[wr[w].seg].etab
      BY <1>4, GrowSegs
    <2>2. wr[w].seg = segptr
      BY <1>0, <1>4 DEF WriterLog, GrowBlock, NeedsBlock
    <2>3. segs[segptr].region \in [Vertices -> 0 .. Len(blks)]
      BY <2>1, <2>2, SegmentFields DEF Types
    <2>4. QED
      BY <1>0, <2>1, <2>2, <2>3, SegmentsChanged
  <1>5. CASE SegmentFull(w)
    <2>1. /\ OtherSegsKept(wr[w].seg) /\ wr[w].seg \in 1 .. Len(segs)
          /\ segs'[wr[w].seg].region = segs[wr[w].seg].region
          /\ segs'[wr[w].seg].etab = segs[wr[w].seg].etab
      BY <1>5, FullSegs
    <2>2. wr[w].seg = segptr
      BY <1>0, <1>5 DEF WriterLog, SegmentFull, NeedsBlock
    <2>3. QED
      BY <2>1, <2>2, SegmentsChanged
  <1>6. CASE CreateTable(w) \/ ReplaceTable(w)
    <2>1. /\ OtherSegsKept(wr[w].seg) /\ wr[w].seg \in 1 .. Len(segs)
          /\ wr[w].v \in Vertices
          /\ segs'[wr[w].seg].region = segs[wr[w].seg].region
          /\ segs'[wr[w].seg].etab
               = [segs[wr[w].seg].etab EXCEPT ![wr[w].v] = Len(tabs[wr[w].v]) + 1]
      BY <1>6, TableSegs
    <2>2. wr[w].seg = segptr
      BY <1>0, <1>6 DEF WriterLog, CreateTable, ReplaceTable, NewEpochDue
    <2>3. segs[segptr].etab \in [Vertices -> Nat]
      BY <2>1, <2>2, SegmentFields DEF Types
    <2>4. \A u \in Vertices : segs[segptr].etab[u] # 0 => segs'[segptr].etab[u] # 0
      BY <1>0, <2>1, <2>2, <2>3, SMTT(30)
    <2>5. QED
      BY <2>1, <2>2, <2>4, SegmentsChanged
  <1>7. QED
    BY <1>1, <1>2, <1>3, <1>4, <1>5, <1>6 DEF StoreStep

-----------------------------------------------------------------------------
(* The lists and their tables. *)

ListSound(v) ==
  /\ Sorted(hist[v], wepoch)
  /\ \A k \in 1 .. Len(tabs[v]) : TableSound(tabs[v][k], hist[v], wepoch)

(* A writer that has prepared the table and will append its edge. *)
EdgeWriter(v) == \E w \in Writers : wr[w].v = v /\ wr[w].pc = "edge"

(* The table of the newest segment covers the list; a list without table    *)
(* is empty, and one that is empty gets its table together with an edge.    *)
Current(v) ==
  LET c == EpochTableOf(segptr, v) IN
  /\ c = 0 => Len(hist[v]) = 0
  /\ c # 0 => Covers(tabs[v][c], hist[v])
  /\ c # 0 /\ Len(hist[v]) = 0 => EdgeWriter(v)

ListsSound == \A v \in Vertices : ListSound(v) /\ Current(v)

(* How lists and tables move. *)
ListsMove ==
  /\ wepoch <= wepoch'
  /\ \A v \in Vertices : Extends(hist[v], hist'[v], wepoch)
  /\ \A v \in Vertices : \A k \in 1 .. Len(tabs[v]) :
       LastEpoch(tabs[v][k]) <= LastEpoch(tabs'[v][k])

LEMMA ListTypesAt ==
  ASSUME ListTypes, NEW v \in Vertices
  PROVE  /\ hist[v] \in Seq(LogEpochs) /\ Len(hist[v]) \in Nat
         /\ tabs[v] \in Seq(Seq(EpochEntry)) /\ Len(tabs[v]) \in Nat
         /\ \A k \in 1 .. Len(tabs[v]) : tabs[v][k] \in Seq(EpochEntry)
         /\ wepoch \in LogEpochs /\ wepoch \in Nat
  <1>1. hist[v] \in Seq(LogEpochs) /\ tabs[v] \in Seq(Seq(EpochEntry))
    BY DEF ListTypes
  <1>2. wepoch \in LogEpochs /\ wepoch \in Nat
    BY SegGraphAssumption DEF ListTypes
  <1>3. QED
    BY <1>1, <1>2

LEMMA TablesAt ==
  ASSUME ListTypes, NEW v \in Vertices, ListSound(v), NEW k \in 1 .. Len(tabs[v])
  PROVE  /\ tabs[v][k] \in Seq(EpochEntry)
         /\ TableSound(tabs[v][k], hist[v], wepoch)
         /\ LastEpoch(tabs[v][k]) \in Nat
  <1>1. tabs[v][k] \in Seq(EpochEntry) /\ TableSound(tabs[v][k], hist[v], wepoch)
    BY ListTypesAt DEF ListSound
  <1>2. QED
    BY <1>1, TableFields DEF TableSound

(* A list that a step leaves alone. *)
LEMMA ListUnmoved ==
  ASSUME ListTypes, wepoch' \in Nat, wepoch <= wepoch', NEW v \in Vertices, ListSound(v),
         hist'[v] = hist[v], tabs'[v] = tabs[v]
  PROVE  /\ ListSound(v)'
         /\ Extends(hist[v], hist'[v], wepoch)
         /\ \A k \in 1 .. Len(tabs[v]) : LastEpoch(tabs[v][k]) <= LastEpoch(tabs'[v][k])
  <1>1. hist[v] \in Seq(LogEpochs) /\ Len(hist[v]) \in Nat /\ wepoch \in Nat
    BY ListTypesAt
  <1>2. Extends(hist[v], hist[v], wepoch)
    BY <1>1 DEF Extends
  <1>3. Sorted(hist[v], wepoch')
    BY <1>1, <1>2, SortedStays DEF ListSound
  <1>4. ASSUME NEW k \in 1 .. Len(tabs[v])
        PROVE  /\ TableSound(tabs[v][k], hist[v], wepoch')
               /\ LastEpoch(tabs[v][k]) <= LastEpoch(tabs'[v][k])
    <2>1. tabs[v][k] \in Seq(EpochEntry) /\ TableSound(tabs[v][k], hist[v], wepoch)
          /\ LastEpoch(tabs[v][k]) \in Nat
      BY TablesAt
    <2>2. QED
      BY <1>1, <1>2, <2>1, TableStays
  <1>5. QED
    BY <1>2, <1>3, <1>4 DEF ListSound

LEMMA CurrentKept ==
  ASSUME NEW v \in Vertices, Current(v), hist'[v] = hist[v], tabs'[v] = tabs[v],
         EpochTableOf(segptr, v)' = EpochTableOf(segptr, v),
         EdgeWriter(v) => EdgeWriter(v)'
  PROVE  Current(v)'
  BY DEF Current

(* No list is touched. *)
LEMMA ListsUnmoved ==
  ASSUME ListTypes, ListsSound, wepoch' \in Nat, wepoch <= wepoch', hist' = hist, tabs' = tabs,
         \A v \in Vertices : /\ EpochTableOf(segptr, v)' = EpochTableOf(segptr, v)
                             /\ EdgeWriter(v) => EdgeWriter(v)'
  PROVE  ListsSound' /\ ListsMove
  <1>1. ASSUME NEW v \in Vertices
        PROVE  /\ ListSound(v)' /\ Current(v)'
               /\ Extends(hist[v], hist'[v], wepoch)
               /\ \A k \in 1 .. Len(tabs[v]) :
                    LastEpoch(tabs[v][k]) <= LastEpoch(tabs'[v][k])
    <2>1. ListSound(v) /\ Current(v)
      BY DEF ListsSound
    <2>2. QED
      BY <2>1, ListUnmoved, CurrentKept
  <1>2. QED
    BY <1>1 DEF ListsSound, ListsMove

(* A step of the writer that touches only the list of its own vertex. *)
LEMMA OneListMoves ==
  ASSUME OneWriter, ListTypes, ListsSound, wepoch' = wepoch,
         NEW w \in Writers, NEW v \in Vertices, wr[w].v = v,
         \A u \in Vertices : u # v =>
           /\ hist'[u] = hist[u] /\ tabs'[u] = tabs[u]
           /\ EpochTableOf(segptr, u)' = EpochTableOf(segptr, u),
         ListSound(v)', Current(v)',
         Extends(hist[v], hist'[v], wepoch),
         \A k \in 1 .. Len(tabs[v]) : LastEpoch(tabs[v][k]) <= LastEpoch(tabs'[v][k])
  PROVE  ListsSound' /\ ListsMove
  <1>0. wepoch \in Nat /\ wepoch' \in Nat /\ wepoch <= wepoch'
    BY SegGraphAssumption DEF ListTypes
  <1>1. ASSUME NEW u \in Vertices, u # v
        PROVE  /\ ListSound(u)' /\ Current(u)'
               /\ Extends(hist[u], hist'[u], wepoch)
               /\ \A k \in 1 .. Len(tabs[u]) :
                    LastEpoch(tabs[u][k]) <= LastEpoch(tabs'[u][k])
    <2>1. ListSound(u) /\ Current(u)
      BY DEF ListsSound
    <2>2. ~ EdgeWriter(u)
      BY <1>1 DEF EdgeWriter, OneWriter
    <2>3. QED
      BY <1>0, <1>1, <2>1, <2>2, ListUnmoved, CurrentKept
  <1>2. QED
    BY <1>0, <1>1 DEF ListsSound, ListsMove

(* What a writer before its table knows of its list. *)
LEMMA WriterList ==
  ASSUME OneWriter, Types, LogInv, ListsSound, NEW w \in Writers,
         wr[w].pc \in {"table", "append", "edge"}, NEW v, v = wr[w].v
  PROVE  /\ v \in Vertices
         /\ Table(w) = EpochTableOf(segptr, v)
         /\ Table(w) \in 0 .. Len(tabs[v])
         /\ wr[w].seg = segptr
         /\ wr[w].blk \in 1 .. Len(blks)
         /\ wr[w].blk = Region(segptr, v) /\ HasSpace(wr[w].blk)
         /\ End(wr[w].blk) = Len(hist[v])
         /\ ListSound(v) /\ Current(v)
         /\ Table(w) # 0 /\ wr[w].pc # "edge" => Len(hist[v]) > 0
  <1>1. v \in Vertices /\ wr[w].blk \in 1 .. Len(blks)
    BY WriterAt
  <1>2. wr[w].seg = segptr /\ HasBlock(wr[w])
    BY DEF LogInv, WriterLog
  <1>3. Table(w) = EpochTableOf(segptr, v) /\ Table(w) \in 0 .. Len(tabs[v])
    BY <1>2, TableAt
  <1>4. End(wr[w].blk) = Len(hist[v])
    BY <1>1, <1>2 DEF HasBlock, LogInv, LogStore, ListsEnd
  <1>5. ListSound(v) /\ Current(v)
    BY <1>1 DEF ListsSound
  <1>6. ASSUME Table(w) # 0, wr[w].pc # "edge" PROVE Len(hist[v]) > 0
    <2>1. ~ EdgeWriter(v)
      BY <1>6 DEF EdgeWriter, OneWriter
    <2>2. Len(hist[v]) # 0
      BY <1>3, <1>5, <1>6, <2>1 DEF Current
    <2>3. QED
      BY <1>1, <2>2, ListTypesAt DEF Types
  <1>7. QED
    BY <1>1, <1>2, <1>3, <1>4, <1>5, <1>6 DEF HasBlock

(* The first table of a vertex. *)
LEMMA CreateLists ==
  ASSUME OneWriter, Types, LogInv, ListsSound, Next, NEW w \in Writers, CreateTable(w)
  PROVE  ListsSound' /\ ListsMove
  <1>0. PICK v, t : v = wr[w].v /\ t = <<[offset |-> 0, epoch |-> wepoch]>>
    OBVIOUS
  <1>1. /\ v \in Vertices /\ EpochTableOf(segptr, v) = 0 /\ wr[w].seg = segptr
        /\ ListSound(v) /\ Current(v)
    BY <1>0, WriterList DEF CreateTable
  <1>2. Len(hist[v]) = 0
    BY <1>1 DEF Current
  <1>3. /\ hist[v] \in Seq(LogEpochs) /\ tabs[v] \in Seq(Seq(EpochEntry))
        /\ Len(tabs[v]) \in Nat /\ wepoch \in LogEpochs /\ wepoch \in Nat
    BY <1>1, ListTypesAt DEF Types
  <1>4. /\ t \in Seq(EpochEntry) /\ TableSound(t, hist[v], wepoch) /\ Covers(t, hist[v])
    BY <1>0, <1>2, <1>3, FirstTable
  <1>5. /\ hist' = hist /\ wepoch' = wepoch /\ segptr' = segptr
        /\ tabs' = [tabs EXCEPT ![v] = Append(tabs[v], t)]
        /\ tabs \in [Vertices -> Seq(Seq(EpochEntry))]
    BY <1>0 DEF CreateTable, Types, ListTypes
  <1>6. /\ tabs'[v] = Append(tabs[v], t)
        /\ \A u \in Vertices : u # v => tabs'[u] = tabs[u]
    BY <1>1, <1>5
  <1>7. /\ Len(tabs'[v]) = Len(tabs[v]) + 1
        /\ tabs'[v][Len(tabs[v]) + 1] = t
        /\ \A k \in 1 .. Len(tabs[v]) : tabs'[v][k] = tabs[v][k]
    BY <1>3, <1>4, <1>6
  <1>8. /\ OtherSegsKept(segptr) /\ segptr \in 1 .. Len(segs)
        /\ segs'[segptr].etab = [segs[segptr].etab EXCEPT ![v] = Len(tabs[v]) + 1]
    BY <1>0, <1>1, TableSegs
  <1>9. segs[segptr].etab \in [Vertices -> Nat]
    BY <1>8, SegmentFields DEF Types
  <1>10. /\ EpochTableOf(segptr, v)' = Len(tabs[v]) + 1
         /\ \A u \in Vertices : u # v =>
              EpochTableOf(segptr, u)' = EpochTableOf(segptr, u)
    BY <1>1, <1>5, <1>8, <1>9 DEF EpochTableOf
  <1>11. wr'[w].v = v /\ wr'[w].pc = "edge"
    <2>1. wr \in [Writers -> WriterType]
      BY DEF Types, WriterTypes
    <2>2. wr[w] \in WriterType
      BY <2>1
    <2>3. QED
      BY <1>0, <2>1, <2>2 DEF CreateTable, WriterType
  <1>12. ListSound(v)'
    <2> SUFFICES ASSUME NEW k \in 1 .. Len(tabs'[v])
                 PROVE  TableSound(tabs'[v][k], hist[v], wepoch)
      BY <1>1, <1>5 DEF ListSound
    <2>1. k \in 1 .. Len(tabs[v]) \/ k = Len(tabs[v]) + 1
      BY <1>3, <1>7
    <2>2. QED
      BY <1>1, <1>4, <1>7, <2>1 DEF ListSound
  <1>13. Current(v)'
    <2>1. EdgeWriter(v)'
      BY <1>11 DEF EdgeWriter
    <2>2. tabs'[v][EpochTableOf(segptr, v)'] = t /\ EpochTableOf(segptr, v)' # 0
      BY <1>3, <1>7, <1>10
    <2>3. QED
      BY <1>4, <1>5, <2>1, <2>2 DEF Current
  <1>14. Extends(hist[v], hist'[v], wepoch)
    BY <1>2, <1>3, <1>5 DEF Extends
  <1>15. \A k \in 1 .. Len(tabs[v]) : LastEpoch(tabs[v][k]) <= LastEpoch(tabs'[v][k])
    <2> TAKE k \in 1 .. Len(tabs[v])
    <2>1. LastEpoch(tabs[v][k]) \in Nat
      BY <1>1, TablesAt DEF Types
    <2>2. QED
      BY <1>7, <2>1
  <1>16. ListTypes
    BY DEF Types
  <1>17. QED
    BY <1>0, <1>1, <1>5, <1>6, <1>10, <1>12, <1>13, <1>14, <1>15, <1>16, OneListMoves, ZenonT(40)

(* A larger table with the old one's entries. *)
LEMMA ReplaceLists ==
  ASSUME OneWriter, Types, LogInv, ListsSound, Next, NEW w \in Writers, ReplaceTable(w)
  PROVE  ListsSound' /\ ListsMove
  <1>0. PICK v, c, t : v = wr[w].v /\ c = Table(w) /\ t = tabs[v][c]
    OBVIOUS
  <1>1. /\ v \in Vertices /\ c = EpochTableOf(segptr, v) /\ wr[w].seg = segptr
        /\ c \in 1 .. Len(tabs[v]) /\ ListSound(v) /\ Current(v) /\ Len(hist[v]) > 0
    <2>1. wr[w].pc \in {"table", "append"} /\ Table(w) # 0
      BY DEF ReplaceTable, NewEpochDue
    <2>2. /\ v \in Vertices /\ c = EpochTableOf(segptr, v) /\ wr[w].seg = segptr
          /\ c \in 0 .. Len(tabs[v]) /\ ListSound(v) /\ Current(v) /\ Len(hist[v]) > 0
      BY <1>0, <2>1, WriterList
    <2>3. QED
      BY <1>0, <2>1, <2>2
  <1>3. /\ hist[v] \in Seq(LogEpochs) /\ tabs[v] \in Seq(Seq(EpochEntry))
        /\ Len(tabs[v]) \in Nat /\ wepoch \in LogEpochs /\ wepoch \in Nat
        /\ Len(hist[v]) \in Nat
    BY <1>1, ListTypesAt DEF Types
  <1>4. /\ t \in Seq(EpochEntry) /\ TableSound(t, hist[v], wepoch) /\ Covers(t, hist[v])
    BY <1>0, <1>1, <1>3, TablesAt DEF Current, Types
  <1>5. /\ hist' = hist /\ wepoch' = wepoch /\ segptr' = segptr
        /\ tabs' = [tabs EXCEPT ![v] = Append(tabs[v], t)]
        /\ tabs \in [Vertices -> Seq(Seq(EpochEntry))]
    BY <1>0, <1>1 DEF ReplaceTable, Types, ListTypes
  <1>6. /\ tabs'[v] = Append(tabs[v], t)
        /\ \A u \in Vertices : u # v => tabs'[u] = tabs[u]
    BY <1>1, <1>5
  <1>7. /\ Len(tabs'[v]) = Len(tabs[v]) + 1
        /\ tabs'[v][Len(tabs[v]) + 1] = t
        /\ \A k \in 1 .. Len(tabs[v]) : tabs'[v][k] = tabs[v][k]
    BY <1>3, <1>4, <1>6
  <1>8. /\ OtherSegsKept(segptr) /\ segptr \in 1 .. Len(segs)
        /\ segs'[segptr].etab = [segs[segptr].etab EXCEPT ![v] = Len(tabs[v]) + 1]
    BY <1>0, <1>1, TableSegs
  <1>9. segs[segptr].etab \in [Vertices -> Nat]
    BY <1>8, SegmentFields DEF Types
  <1>10. /\ EpochTableOf(segptr, v)' = Len(tabs[v]) + 1
         /\ \A u \in Vertices : u # v =>
              EpochTableOf(segptr, u)' = EpochTableOf(segptr, u)
    BY <1>1, <1>5, <1>8, <1>9 DEF EpochTableOf
  <1>12. ListSound(v)'
    <2> SUFFICES ASSUME NEW k \in 1 .. Len(tabs'[v])
                 PROVE  TableSound(tabs'[v][k], hist[v], wepoch)
      BY <1>1, <1>5 DEF ListSound
    <2>1. k \in 1 .. Len(tabs[v]) \/ k = Len(tabs[v]) + 1
      BY <1>3, <1>7
    <2>2. QED
      BY <1>1, <1>4, <1>7, <2>1 DEF ListSound
  <1>13. Current(v)'
    <2>1. PICK k : k = Len(tabs[v]) + 1
      OBVIOUS
    <2>2. EpochTableOf(segptr, v)' = k /\ tabs'[v][k] = t /\ k # 0
      BY <1>3, <1>7, <1>10, <2>1
    <2>3. hist'[v] = hist[v] /\ Len(hist[v]) # 0
      BY <1>1, <1>3, <1>5
    <2>4. QED
      BY <1>4, <2>2, <2>3 DEF Current
  <1>14. Extends(hist[v], hist'[v], wepoch)
    BY <1>3, <1>5 DEF Extends
  <1>15. \A k \in 1 .. Len(tabs[v]) : LastEpoch(tabs[v][k]) <= LastEpoch(tabs'[v][k])
    <2> TAKE k \in 1 .. Len(tabs[v])
    <2>1. LastEpoch(tabs[v][k]) \in Nat
      BY <1>1, TablesAt DEF Types
    <2>2. QED
      BY <1>7, <2>1
  <1>16. ListTypes
    BY DEF Types
  <1>17. QED
    BY <1>0, <1>1, <1>5, <1>6, <1>10, <1>12, <1>13, <1>14, <1>15, <1>16, OneListMoves

(* A new epoch begins where the list ends. *)
LEMMA EpochLists ==
  ASSUME OneWriter, Types, LogInv, ListsSound, Next, NEW w \in Writers, AppendEpoch(w)
  PROVE  ListsSound' /\ ListsMove
  <1>0. PICK v, c, t, x : /\ v = wr[w].v /\ c = Table(w) /\ t = tabs[v][c]
                          /\ x = [offset |-> blks[wr[w].blk].prevnum
                                               + Len(blks[wr[w].blk].ents),
                                  epoch  |-> wepoch]
    OBVIOUS
  <1>1. /\ v \in Vertices /\ c = EpochTableOf(segptr, v) /\ wr[w].seg = segptr
        /\ c \in 1 .. Len(tabs[v]) /\ ListSound(v) /\ Current(v) /\ Len(hist[v]) > 0
        /\ End(wr[w].blk) = Len(hist[v]) /\ wr[w].blk \in 1 .. Len(blks)
        /\ LastEpoch(t) < wepoch
    <2>1. wr[w].pc \in {"table", "append"} /\ Table(w) # 0 /\ LastEpoch(t) < wepoch
      BY <1>0 DEF AppendEpoch, NewEpochDue
    <2>2. /\ v \in Vertices /\ c = EpochTableOf(segptr, v) /\ wr[w].seg = segptr
          /\ c \in 0 .. Len(tabs[v]) /\ ListSound(v) /\ Current(v) /\ Len(hist[v]) > 0
          /\ End(wr[w].blk) = Len(hist[v]) /\ wr[w].blk \in 1 .. Len(blks)
      BY <1>0, <2>1, WriterList
    <2>3. QED
      BY <1>0, <2>1, <2>2
  <1>3. /\ hist[v] \in Seq(LogEpochs) /\ tabs[v] \in Seq(Seq(EpochEntry))
        /\ Len(tabs[v]) \in Nat /\ wepoch \in LogEpochs /\ wepoch \in Nat
        /\ Len(hist[v]) \in Nat
    BY <1>1, ListTypesAt DEF Types
  <1>4. /\ t \in Seq(EpochEntry) /\ TableSound(t, hist[v], wepoch) /\ Covers(t, hist[v])
        /\ LastEpoch(t) \in Nat
    BY <1>0, <1>1, <1>3, TablesAt DEF Current, Types
  <1>5. x.offset = Len(hist[v]) /\ x.epoch = wepoch /\ x \in EpochEntry
    BY <1>0, <1>1, <1>3 DEF End, EpochEntry
  <1>6. PICK u : u = Append(t, x)
    OBVIOUS
  <1>7. /\ u \in Seq(EpochEntry) /\ TableSound(u, hist[v], wepoch)
        /\ Covers(u, hist[v]) /\ LastEpoch(u) = wepoch
    BY <1>1, <1>3, <1>4, <1>5, <1>6, TableGrows, SMTT(30) DEF ListSound
  <1>8. /\ hist' = hist /\ wepoch' = wepoch /\ segptr' = segptr /\ segs' = segs
        /\ tabs' = [tabs EXCEPT ![v] = [tabs[v] EXCEPT ![c] = u]]
        /\ tabs \in [Vertices -> Seq(Seq(EpochEntry))]
    BY <1>0, <1>1, <1>3, <1>6 DEF AppendEpoch, Types, ListTypes
  <1>9. /\ tabs'[v] = [tabs[v] EXCEPT ![c] = u]
        /\ \A y \in Vertices : y # v => tabs'[y] = tabs[y]
    BY <1>1, <1>8
  <1>10. /\ Len(tabs'[v]) = Len(tabs[v])
         /\ \A k \in 1 .. Len(tabs[v]) : tabs'[v][k] = IF k = c THEN u ELSE tabs[v][k]
    BY <1>1, <1>3, <1>7, <1>9
  <1>11. \A y \in Vertices : EpochTableOf(segptr, y)' = EpochTableOf(segptr, y)
    BY <1>8 DEF EpochTableOf
  <1>12. ListSound(v)'
    <2> SUFFICES ASSUME NEW k \in 1 .. Len(tabs[v])
                 PROVE  TableSound(tabs'[v][k], hist[v], wepoch)
      BY <1>1, <1>8, <1>10 DEF ListSound
    <2>1. QED
      BY <1>1, <1>7, <1>10 DEF ListSound
  <1>13. Current(v)'
    <2>1. tabs'[v][c] = u /\ c # 0
      BY <1>1, <1>10
    <2>2. QED
      BY <1>1, <1>3, <1>7, <1>8, <1>11, <2>1 DEF Current
  <1>14. Extends(hist[v], hist'[v], wepoch)
    BY <1>3, <1>8 DEF Extends
  <1>15. \A k \in 1 .. Len(tabs[v]) : LastEpoch(tabs[v][k]) <= LastEpoch(tabs'[v][k])
    <2> TAKE k \in 1 .. Len(tabs[v])
    <2>1. LastEpoch(tabs[v][k]) \in Nat
      BY <1>1, TablesAt DEF Types
    <2>2. CASE k = c
      BY <1>0, <1>1, <1>3, <1>4, <1>7, <1>10, <2>2, SMTT(30)
    <2>3. CASE k # c
      BY <1>10, <2>1, <2>3
    <2>4. QED
      BY <2>2, <2>3
  <1>16. ListTypes
    BY DEF Types
  <1>17. QED
    BY <1>0, <1>1, <1>8, <1>9, <1>11, <1>12, <1>13, <1>14, <1>15, <1>16, OneListMoves

(* The edge of the write epoch. *)
LEMMA EdgeLists ==
  ASSUME OneWriter, Types, LogInv, ListsSound, Next, NEW w \in Writers, AppendEdge(w)
  PROVE  ListsSound' /\ ListsMove
  <1>0. PICK v, c, t, g : /\ v = wr[w].v /\ c = Table(w) /\ t = tabs[v][c]
                          /\ g = Append(hist[v], wepoch)
    OBVIOUS
  <1>1. /\ v \in Vertices /\ c = EpochTableOf(segptr, v)
        /\ c \in 1 .. Len(tabs[v]) /\ ListSound(v) /\ Current(v)
        /\ LastEpoch(t) >= wepoch
    <2>1. wr[w].pc \in {"table", "edge"} /\ Table(w) # 0 /\ LastEpoch(t) >= wepoch
      BY <1>0 DEF AppendEdge
    <2>2. /\ v \in Vertices /\ c = EpochTableOf(segptr, v)
          /\ c \in 0 .. Len(tabs[v]) /\ ListSound(v) /\ Current(v)
      BY <1>0, <2>1, WriterList
    <2>3. QED
      BY <1>0, <2>1, <2>2
  <1>2. /\ hist[v] \in Seq(LogEpochs) /\ Len(hist[v]) \in Nat
        /\ Len(tabs[v]) \in Nat /\ wepoch \in LogEpochs /\ wepoch \in Nat
        /\ \A i \in 1 .. Len(hist[v]) : hist[v][i] \in Nat
    BY <1>1, ListTypesAt, ListFields DEF Types
  <1>3. /\ g \in Seq(LogEpochs) /\ Len(g) = Len(hist[v]) + 1
        /\ \A i \in 1 .. Len(hist[v]) : g[i] = hist[v][i]
        /\ g[Len(hist[v]) + 1] = wepoch
    BY <1>0, <1>2
  <1>4. \A i \in 1 .. Len(g) : i \in 1 .. Len(hist[v]) \/ i = Len(hist[v]) + 1
    BY <1>2, <1>3
  <1>5. /\ \A i \in 1 .. Len(g) : i > Len(hist[v]) => g[i] = wepoch
        /\ Extends(hist[v], g, wepoch)
    <2>1. \A i \in 1 .. Len(g) : i > Len(hist[v]) => g[i] = wepoch
      BY <1>2, <1>3, <1>4
    <2>2. QED
      BY <1>2, <1>3, <2>1 DEF Extends
  <1>6. /\ wepoch' = wepoch /\ segptr' = segptr /\ segs' = segs /\ tabs' = tabs
        /\ hist' = [hist EXCEPT ![v] = g] /\ hist \in [Vertices -> Seq(LogEpochs)]
    BY <1>0 DEF AppendEdge, Types, ListTypes
  <1>7. /\ hist'[v] = g
        /\ \A y \in Vertices : y # v => hist'[y] = hist[y]
    BY <1>1, <1>6
  <1>8. \A y \in Vertices : EpochTableOf(segptr, y)' = EpochTableOf(segptr, y)
    BY <1>6 DEF EpochTableOf
  <1>9. ListSound(v)'
    <2>1. Sorted(g, wepoch)
      BY <1>1, <1>2, <1>3, <1>5, SortedStays DEF ListSound
    <2>2. ASSUME NEW k \in 1 .. Len(tabs[v]) PROVE TableSound(tabs[v][k], g, wepoch)
      <3>1. tabs[v][k] \in Seq(EpochEntry) /\ TableSound(tabs[v][k], hist[v], wepoch)
        BY <1>1, TablesAt DEF Types
      <3>2. QED
        BY <1>2, <1>3, <1>5, <3>1, TableStays
    <2>3. QED
      BY <1>6, <1>7, <2>1, <2>2 DEF ListSound
  <1>10. Current(v)'
    <2>1. Covers(t, hist[v]) /\ c # 0
      BY <1>0, <1>1 DEF Current
    <2>2. Covers(t, g)
      BY <1>1, <1>3, <1>4, <2>1 DEF Covers
    <2>3. Len(g) # 0
      BY <1>2, <1>3
    <2>4. EpochTableOf(segptr, v)' = c /\ tabs'[v][c] = t
      BY <1>0, <1>1, <1>6, <1>8
    <2>5. QED
      BY <1>7, <2>1, <2>2, <2>3, <2>4 DEF Current
  <1>11. \A k \in 1 .. Len(tabs[v]) : LastEpoch(tabs[v][k]) <= LastEpoch(tabs'[v][k])
    <2> TAKE k \in 1 .. Len(tabs[v])
    <2>1. LastEpoch(tabs[v][k]) \in Nat
      BY <1>1, TablesAt DEF Types
    <2>2. QED
      BY <1>6, <2>1
  <1>12. ListTypes
    BY DEF Types
  <1>13. QED
    BY <1>0, <1>1, <1>5, <1>6, <1>7, <1>8, <1>9, <1>10, <1>11, <1>12, OneListMoves

(* Segments are made and merged without touching lists; a vertex that is    *)
(* not merged has no edges, hence no table.                                 *)
LEMMA MergeLists ==
  ASSUME OneWriter, Types, LogInv, LogInv', ListsSound, Next,
         NEW w \in Writers, MergeSegment(w), ~ MergeCrashes(w)
  PROVE  ListsSound' /\ ListsMove
  <1>1. PICK M, at : MergesInto(w, M, at)
    BY MergeBlocks
  <1>2. PICK s, k : s = wr[w].seg /\ k = Len(segs) + 1
    OBVIOUS
  <1>3. /\ s = segptr /\ s \in 1 .. Len(segs) /\ segptr' = k /\ k # 0
        /\ \A u \in M : segs'[k].etab[u] = segs[s].etab[u]
        /\ \A u \in Vertices \ M : segs'[k].region[u] = 0
        /\ \A u \in Vertices \ M : segs'[k].etab[u] = 0
    <2>1. Len(segs) \in Nat
      BY DEF Types, SegTypes
    <2>2. QED
      BY <1>1, <1>2, <2>1, MergeSegs
  <1>4. wepoch' = wepoch /\ hist' = hist /\ tabs' = tabs
    BY ListsKept
  <1>5. /\ wr \in [Writers -> WriterType] /\ wr[w].pc = "merge"
        /\ wr'[w].pc = "reshare"
    BY DEF MergeSegment, MergeCrashes, Types, WriterTypes, WriterType
  <1>6. \A u \in Vertices : ~ EdgeWriter(u)
    BY <1>5 DEF EdgeWriter, OneWriter
  <1>7. ASSUME NEW u \in Vertices
        PROVE  EpochTableOf(segptr, u)' = EpochTableOf(segptr, u)
    <2>1. CASE u \in M
      BY <1>3, <2>1 DEF EpochTableOf
    <2>2. CASE u \notin M
      <3>1. Region(segptr, u)' = 0
        BY <1>3, <2>2 DEF Region
      <3>2. End(Region(segptr, u))' = 0
        BY <3>1 DEF End
      <3>3. Len(hist[u]) = 0
        BY <1>4, <3>2 DEF LogInv, LogStore, ListsEnd
      <3>4. EpochTableOf(segptr, u) = 0
        BY <1>6, <3>3 DEF ListsSound, Current
      <3>5. EpochTableOf(segptr, u)' = 0
        BY <1>3, <2>2 DEF EpochTableOf
      <3>6. QED
        BY <3>4, <3>5
    <2>3. QED
      BY <2>1, <2>2
  <1>8. wepoch \in Nat /\ wepoch <= wepoch'
    BY <1>4, SegGraphAssumption DEF Types, ListTypes
  <1>9. QED
    BY <1>4, <1>6, <1>7, <1>8, ListsUnmoved DEF Types

(* The other steps of a writer are not taken just before the edge.          *)
LEMMA OtherLists ==
  ASSUME OneWriter, Types, LogInv, ListsSound, Next, NEW w \in Writers,
         \/ LockStep(w) \/ Inits(w) \/ GrowBlock(w) \/ SegmentFull(w)
         \/ (MergeSegment(w) /\ MergeCrashes(w))
  PROVE  ListsSound' /\ ListsMove
  <1>1. wepoch' = wepoch /\ hist' = hist /\ tabs' = tabs
    BY ListsKept
  <1>2. wr[w].pc # "edge"
    BY DEF LockStep, LockFutex, LocateSegment, Restart, Reshare, UseBlock, OutOfMemory,
           NewEpochDue, PutEdge, InitFails, Inits, InitSegment, GrowBlock, NeedsBlock, SegmentFull, MergeSegment
  <1>3. \A u \in Vertices : ~ EdgeWriter(u)
    BY <1>2 DEF EdgeWriter, OneWriter
  <1>4. WriterLog(wr[w]) /\ segptr = Len(segs) /\ Len(segs) \in Nat
    BY DEF LogInv, Types, SegTypes
  <1>5. \A u \in Vertices : EpochTableOf(segptr, u)' = EpochTableOf(segptr, u)
    <2>1. CASE LockStep(w) \/ (MergeSegment(w) /\ MergeCrashes(w))
      BY <2>1, SegsKept DEF EpochTableOf
    <2>2. CASE Inits(w)
      <3>1. PICK k : k = Len(segs) + 1
        OBVIOUS
      <3>2. segptr' = k /\ k # 0 /\ segs'[k].etab = [v \in Vertices |-> 0]
        BY <1>4, <2>2, <3>1, InitSegs
      <3>3. segptr = 0
        BY <1>4, <2>2 DEF Inits, InitSegment, WriterLog
      <3>4. QED
        BY <3>2, <3>3 DEF EpochTableOf
    <2>3. CASE GrowBlock(w) \/ SegmentFull(w)
      <3>1. PICK s : s = wr[w].seg
        OBVIOUS
      <3>2. segs'[s].etab = segs[s].etab /\ OtherSegsKept(s)
        BY <2>3, <3>1, GrowSegs, FullSegs
      <3>3. s = segptr /\ segptr' = segptr
        BY <1>4, <2>3, <3>1, <3>2 DEF GrowBlock, SegmentFull, NeedsBlock, WriterLog,
                                      OtherSegsKept
      <3>4. QED
        BY <3>2, <3>3 DEF EpochTableOf
    <2>4. QED
      BY <2>1, <2>2, <2>3
  <1>6. wepoch \in Nat /\ wepoch <= wepoch'
    BY <1>1, SegGraphAssumption DEF Types, ListTypes
  <1>7. QED
    BY <1>1, <1>3, <1>5, <1>6, ListsUnmoved DEF Types

LEMMA ListsStep ==
  ASSUME OneWriter, Types, LogInv, LogInv', ListsSound,
         \/ \E e \in LogEpochs : NextEpoch(e)
         \/ Recycle
         \/ \E w \in Writers : LockStep(w) \/ StoreStep(w),
         Next
  PROVE  ListsSound' /\ ListsMove
  <1>1. ASSUME NEW e \in LogEpochs, NextEpoch(e) PROVE ListsSound' /\ ListsMove
    <2>1. /\ hist' = hist /\ tabs' = tabs /\ segptr' = segptr /\ segs' = segs /\ wr' = wr
          /\ wepoch' = e /\ e > wepoch /\ e \in Nat /\ wepoch \in Nat
      BY <1>1, SegGraphAssumption DEF NextEpoch, store, Types, ListTypes
    <2>2. \A u \in Vertices : /\ EpochTableOf(segptr, u)' = EpochTableOf(segptr, u)
                              /\ EdgeWriter(u) => EdgeWriter(u)'
      BY <2>1 DEF EpochTableOf, EdgeWriter
    <2>3. QED
      BY <2>1, <2>2, ListsUnmoved DEF Types
  <1>2. CASE Recycle
    <2>1. /\ hist' = hist /\ tabs' = tabs /\ segptr' = segptr /\ segs' = segs /\ wr' = wr
          /\ wepoch' = wepoch /\ wepoch \in Nat
      BY <1>2, SegGraphAssumption DEF Recycle, Types, ListTypes
    <2>2. \A u \in Vertices : /\ EpochTableOf(segptr, u)' = EpochTableOf(segptr, u)
                              /\ EdgeWriter(u) => EdgeWriter(u)'
      BY <2>1 DEF EpochTableOf, EdgeWriter
    <2>3. QED
      BY <2>1, <2>2, ListsUnmoved DEF Types
  <1>3. ASSUME NEW w \in Writers, LockStep(w) \/ StoreStep(w) PROVE ListsSound' /\ ListsMove
    BY <1>3, OtherLists, MergeLists, CreateLists, ReplaceLists, EpochLists, EdgeLists
       DEF StoreStep
  <1>4. QED
    BY <1>1, <1>2, <1>3

-----------------------------------------------------------------------------
(* The blocks a reader may have loaded. *)

(* A block of the vertex v, in whichever segment, ends within its list. *)
BlockOf(b, v) ==
  /\ End(b) <= Len(hist[v])
  /\ \A s \in 0 .. Len(segs), u \in Vertices : Region(s, u) = b /\ b # 0 => u = v

RegionsEnd == \A s \in 0 .. Len(segs), v \in Vertices : End(Region(s, v)) <= Len(hist[v])

BlocksMove ==
  /\ BlocksGrow
  /\ \A b \in 0 .. Len(blks), v \in Vertices : BlockOf(b, v) => BlockOf(b, v)'
  /\ \A b \in 0 .. Len(blks) : End(b)' \in Nat /\ End(b) <= End(b)'
  /\ \A s \in 0 .. Len(segs), v \in Vertices :
       End(Region(s, v))' \in Nat /\ End(Region(s, v)) <= End(Region(s, v))'

LEMMA EndType ==
  ASSUME BlockTypes
  PROVE  \A b \in 0 .. Len(blks) : End(b) \in Nat
  BY BlockFields DEF End

LEMMA EndGrows ==
  ASSUME BlockTypes, BlockTypes', BlocksGrow, NEW b \in 0 .. Len(blks)
  PROVE  End(b)' \in Nat /\ End(b) <= End(b)'
  <1>1. Len(blks) \in Nat /\ Len(blks') \in Nat /\ Len(blks) <= Len(blks')
    BY DEF BlockTypes, BlocksGrow
  <1>2. CASE b = 0
    BY <1>2 DEF End
  <1>3. CASE b \in 1 .. Len(blks)
    <2>1. /\ blks[b].prevnum \in Nat /\ Len(blks[b].ents) \in Nat
          /\ blks'[b].prevnum = blks[b].prevnum
          /\ Len(blks[b].ents) <= Len(blks'[b].ents)
      BY <1>3, BlockFields DEF BlocksGrow
    <2>2. blks'[b].ents \in Seq(Nat)
      <3>1. blks' \in Seq(Block) /\ b \in 1 .. Len(blks')
        BY <1>1, <1>3 DEF BlockTypes, Block
      <3>2. blks'[b] \in Block
        BY <3>1
      <3>3. QED
        BY <3>2 DEF Block
    <2>3. Len(blks'[b].ents) \in Nat
      BY <2>2
    <2>4. b # 0
      BY <1>3
    <2>5. End(b) = blks[b].prevnum + Len(blks[b].ents)
      BY <2>4 DEF End
    <2>6. End(b)' = blks'[b].prevnum + Len(blks'[b].ents)
      BY <2>4 DEF End
    <2>7. PICK x, y, z : /\ x = blks[b].prevnum /\ y = Len(blks[b].ents)
                         /\ z = Len(blks'[b].ents)
      OBVIOUS
    <2>8. End(b) = x + y /\ End(b)' = x + z
      BY <2>1, <2>5, <2>6, <2>7
    <2>9. x \in Nat /\ y \in Nat /\ z \in Nat /\ y <= z
      BY <2>1, <2>3, <2>7
    <2>10. QED
      BY <2>8, <2>9
  <1>4. QED
    BY <1>2, <1>3

(* A present block ends where it did, or is the one that gets the edge. *)
LEMMA EndsMove ==
  ASSUME Types, LogInv, LogInv', Next, NEW b \in 0 .. Len(blks)
  PROVE  \/ End(b)' = End(b)
         \/ \E v \in Vertices : b = Region(segptr, v) /\ b # 0 /\ End(b)' = Len(hist'[v])
  <1>1. CASE \A c \in 1 .. Len(blks) : blks'[c] = blks[c]
    BY <1>1, EndKept
  <1>2. ASSUME NEW w \in Writers, AppendEdge(w)
        PROVE  \/ End(b)' = End(b)
               \/ \E v \in Vertices :
                    b = Region(segptr, v) /\ b # 0 /\ End(b)' = Len(hist'[v])
    <2>1. PICK v, a : v = wr[w].v /\ a = wr[w].blk
      OBVIOUS
    <2>2. /\ v \in Vertices /\ a \in 1 .. Len(blks)
      BY <1>2, <2>1, WriterAt DEF AppendEdge
    <2>3. a = Region(segptr, v)
      BY <1>2, <2>1 DEF AppendEdge, LogInv, WriterLog, HasBlock
    <2>4. segs' = segs /\ segptr' = segptr
      BY <1>2, SegsKept
    <2>5. Region(segptr, v)' = Region(segptr, v)
      BY <2>4 DEF Region
    <2>6. End(Region(segptr, v))' = Len(hist'[v])
      BY <2>2 DEF LogInv, LogStore, ListsEnd
    <2>7. CASE b = a
      <3>1. End(b)' = Len(hist'[v])
        BY <2>3, <2>5, <2>6, <2>7 DEF End
      <3>2. QED
        BY <2>2, <2>3, <2>7, <3>1
    <2>8. CASE b # a
      <3>1. \E y : blks' = [blks EXCEPT ![a] = y]
        BY <1>2, <2>1, AppendBlocks
      <3>2. b # 0 => blks'[b] = blks[b]
        BY <2>2, <2>8, <3>1 DEF Types, BlockTypes
      <3>3. QED
        BY <3>2 DEF End
    <2>9. QED
      BY <2>7, <2>8
  <1>3. ASSUME NEW w \in Writers, LockStep(w) \/ StoreStep(w), ~ AppendEdge(w)
        PROVE  \A c \in 1 .. Len(blks) : blks'[c] = blks[c]
    <2>1. CASE GrowBlock(w)
      <3>1. PICK x \in Block : blks' = Append(blks, x)
        BY <2>1, GrowBlocks
      <3>2. QED
        BY <3>1 DEF Types, BlockTypes
    <2>2. CASE MergeSegment(w) /\ ~ MergeCrashes(w)
      BY <2>2, MergeBlocks
    <2>3. CASE blks' = blks
      BY <2>3
    <2>4. QED
      BY <1>3, <2>1, <2>2, <2>3, BlocksKept DEF StoreStep
  <1>4. CASE (\E e \in LogEpochs : NextEpoch(e)) \/ Recycle \/ \E r \in Readers : Read(r)
    <2>1. blks' = blks
      BY <1>4, ReadFrame DEF NextEpoch, Recycle, store
    <2>2. QED
      BY <1>1, <2>1
  <1>5. QED
    BY <1>1, <1>2, <1>3, <1>4, NextCases

LEMMA RegionsOwn ==
  ASSUME Types, LogInv, RegionsEnd, NEW s \in 0 .. Len(segs), NEW v \in Vertices
  PROVE  /\ Region(s, v) \in 0 .. Len(blks)
         /\ BlockOf(Region(s, v), v)
  <1>1. Region(s, v) \in 0 .. Len(blks) /\ End(Region(s, v)) <= Len(hist[v])
    BY RegionAt DEF RegionsEnd
  <1>2. ASSUME NEW t \in 0 .. Len(segs), NEW u \in Vertices, Region(t, u) = Region(s, v),
               Region(s, v) # 0
        PROVE  u = v
    <2>1. t \in 1 .. Len(segs) /\ s \in 1 .. Len(segs)
      BY <1>2 DEF Region, Types, SegTypes
    <2>2. QED
      BY <1>2, <2>1 DEF Region, LogInv, LogStore, OwnBlocks
  <1>3. QED
    BY <1>1, <1>2 DEF BlockOf

LEMMA BlockStays ==
  ASSUME Types, Types', LogInv, LogInv', Next, SegmentsMove, ListsMove,
         NEW b \in 0 .. Len(blks), NEW v \in Vertices, BlockOf(b, v)
  PROVE  BlockOf(b, v)'
  <1>1. /\ Len(hist[v]) \in Nat /\ Len(hist'[v]) \in Nat /\ Len(hist[v]) <= Len(hist'[v])
        /\ End(b) \in Nat /\ segptr \in 0 .. Len(segs)
    <2>1. Len(hist[v]) \in Nat /\ Len(hist'[v]) \in Nat
      BY DEF Types, ListTypes
    <2>2. Len(hist[v]) <= Len(hist'[v])
      BY DEF ListsMove, Extends
    <2>3. QED
      BY <2>1, <2>2, EndType DEF Types, SegTypes
  <1>2. End(b)' <= Len(hist'[v])
    <2>1. CASE End(b)' = End(b)
      BY <1>1, <2>1 DEF BlockOf
    <2>2. ASSUME NEW u \in Vertices, b = Region(segptr, u), b # 0,
                 End(b)' = Len(hist'[u])
          PROVE  End(b)' <= Len(hist'[v])
      <3>1. u = v
        BY <1>1, <2>2 DEF BlockOf
      <3>2. QED
        BY <1>1, <2>2, <3>1
    <2>3. QED
      BY <2>1, <2>2, EndsMove
  <1>3. ASSUME NEW t \in 0 .. Len(segs'), NEW u \in Vertices, Region(t, u)' = b, b # 0
        PROVE  u = v
    <2>1. b \in 1 .. Len(blks)
      BY <1>3
    <2>2. PICK s \in 0 .. Len(segs) : Region(s, u) = b
      BY <1>3, <2>1 DEF SegmentsMove
    <2>3. QED
      BY <1>3, <2>2 DEF BlockOf
  <1>4. QED
    BY <1>2, <1>3 DEF BlockOf

LEMMA BlocksStep ==
  ASSUME Types, Types', LogInv, LogInv', Next, SegmentsMove, ListsMove, RegionsEnd
  PROVE  BlocksMove /\ RegionsEnd'
  <1>1. BlocksGrow /\ BlockTypes /\ BlockTypes'
    BY BlockStep DEF Types
  <1>2. \A b \in 0 .. Len(blks), v \in Vertices : BlockOf(b, v) => BlockOf(b, v)'
    BY BlockStays
  <1>3. ASSUME NEW t \in 0 .. Len(segs'), NEW v \in Vertices
        PROVE  End(Region(t, v))' <= Len(hist'[v])
    <2>1. CASE t = segptr'
      <3>1. End(Region(segptr, v))' = Len(hist'[v])
        BY DEF LogInv, LogStore, ListsEnd
      <3>2. Len(hist'[v]) \in Nat
        BY DEF Types, ListTypes
      <3>3. QED
        BY <2>1, <3>1, <3>2
    <2>2. CASE t # segptr'
      <3>1. t \in 0 .. Len(segs) /\ Region(t, v)' = Region(t, v)
        BY <2>2 DEF SegmentsMove
      <3>2. PICK b : b = Region(t, v)
        OBVIOUS
      <3>3. b \in 0 .. Len(blks) /\ BlockOf(b, v)
        BY <3>1, <3>2, RegionsOwn
      <3>4. BlockOf(b, v)'
        BY <1>2, <3>3
      <3>5. End(b)' <= Len(hist'[v])
        BY <3>4 DEF BlockOf
      <3>6. QED
        BY <3>1, <3>2, <3>5 DEF End
    <2>3. QED
      BY <2>1, <2>2
  <1>4. ASSUME NEW s \in 0 .. Len(segs), NEW v \in Vertices
        PROVE  End(Region(s, v))' \in Nat /\ End(Region(s, v)) <= End(Region(s, v))'
    <2>0. s \in 0 .. Len(segs')
      BY DEF SegmentsMove, Types, SegTypes
    <2>1. CASE s = segptr'
      <3>1. End(Region(segptr, v))' = Len(hist'[v])
        BY DEF LogInv, LogStore, ListsEnd
      <3>2. Len(hist[v]) <= Len(hist'[v]) /\ Len(hist[v]) \in Nat /\ Len(hist'[v]) \in Nat
        BY DEF ListsMove, Extends, Types, ListTypes
      <3>3. End(Region(s, v)) <= Len(hist[v]) /\ End(Region(s, v)) \in Nat
        BY <1>1, RegionAt, EndType DEF RegionsEnd
      <3>4. QED
        BY <2>1, <3>1, <3>2, <3>3
    <2>2. CASE s # segptr'
      <3>1. Region(s, v)' = Region(s, v)
        BY <2>0, <2>2 DEF SegmentsMove
      <3>2. PICK b : b = Region(s, v)
        OBVIOUS
      <3>3. b \in 0 .. Len(blks)
        BY <3>2, RegionAt
      <3>4. End(b)' \in Nat /\ End(b) <= End(b)'
        BY <1>1, <3>3, EndGrows
      <3>5. QED
        BY <3>1, <3>2, <3>4 DEF End
    <2>3. QED
      BY <2>1, <2>2
  <1>5. QED
    BY <1>1, <1>2, <1>3, <1>4, EndGrows DEF BlocksMove, RegionsEnd

-----------------------------------------------------------------------------
(* What a reader holds. *)

(* Edges put after the reader located its segment are of later epochs; the  *)
(* earlier ones are in that segment, and have a table.                      *)
BaseSound(q) ==
  \A u \in Vertices :
    /\ \A i \in 1 .. Len(hist[u]) : i > q.base[u] => hist[u][i] > q.epoch
    /\ q.base[u] <= End(Region(q.seg, u))
    /\ q.base[u] # 0 => EpochTableOf(q.seg, u) # 0

(* The entries it counted are in the list, and in reach of a fresh table. *)
NumSound(q) ==
  /\ q.low <= q.num /\ q.num <= End(q.blk) /\ blks[q.blk].prevnum <= q.num
  /\ q.view = "fresh" =>
       \A i \in 1 .. Len(hist[q.v]) :
         i <= q.num => hist[q.v][i] <= LastEpoch(tabs[q.v][q.tab])

HasUpTo(q) == \E n \in Nat : q.out = Iota(n) /\ UpToIs(hist[q.v], q.epoch, n)

(* The block and the table it loaded. *)
LoadSound(q) ==
  /\ q.blk # NotLoaded =>
       BlockOf(q.blk, q.v) /\ q.base[q.v] <= q.low /\ q.low <= End(q.blk)
  /\ q.tab # NotLoaded =>
       q.tab <= Len(tabs[q.v]) /\ (q.tab = 0 => q.base[q.v] = 0)

ReadSound(q) ==
  /\ q.pc # "idle" => q.epoch < wepoch
  /\ q.pc \in {"idle", "ready"} => q.blk = NotLoaded /\ q.tab = NotLoaded
  /\ q.pc \in {"idle", "ready", "load"} => q.view = "fresh"
  /\ q.pc = "idle" => q.seg = 0
  /\ q.pc \in {"load", "init", "done"} \/ q.seg # 0 => BaseSound(q)
  /\ q.pc \in {"load", "init"} => LoadSound(q)
  /\ q.pc = "init" => NumSound(q)
  /\ q.pc = "done" /\ q.view = "fresh" => HasUpTo(q)

ReadsSound == \A q \in {rd[r] : r \in Readers} : ReadSound(q)

LEMMA PastFields ==
  ASSUME Types, NEW q, ReaderPast(q)
  PROVE  /\ q.epoch \in Nat /\ q.low \in Nat /\ q.num \in Nat
         /\ q.seg \in 0 .. Len(segs)
         /\ q.base \in [Vertices -> Nat]
         /\ q.pc \in {"load", "init", "done"} => q.v \in Vertices
         /\ q.blk # NotLoaded => q.blk \in 0 .. Len(blks)
         /\ q.tab # NotLoaded => q.tab \in Nat
         /\ q.pc = "init" => q.blk \in 1 .. Len(blks) /\ q.tab \in Nat \ {0}
                             /\ q.blk # NotLoaded /\ q.tab # NotLoaded
  <1>1. Len(segs) \in Nat /\ Len(blks) \in Nat
    BY DEF Types, SegTypes, BlockTypes
  <1>2. q.epoch \in Nat
    BY SegGraphAssumption DEF ReaderPast, IsReader
  <1>3. q.low \in Nat /\ q.num \in Nat /\ q.seg \in Nat /\ q.base \in [Vertices -> Nat]
    BY DEF ReaderPast, IsReader
  <1>4. /\ q.seg <= Len(segs) /\ q.blk <= Len(blks)
        /\ q.blk \in Nat \cup {NotLoaded} /\ q.tab \in Nat \cup {NotLoaded}
    BY DEF ReaderPast, IsReader
  <1>5. /\ q.pc \in {"load", "init", "done"} => q.v \in Vertices
        /\ q.pc = "init" => q.blk \in Nat \ {0} /\ q.tab \in Nat \ {0}
    BY DEF ReaderPast
  <1>6. QED
    BY <1>1, <1>2, <1>3, <1>4, <1>5 DEF NotLoaded

LEMMA BaseStays ==
  ASSUME Types, Types', SegmentsMove, ListsMove, BlocksMove,
         NEW q, ReaderPast(q), BaseSound(q), q.epoch < wepoch
  PROVE  BaseSound(q)'
  <1> SUFFICES ASSUME NEW u \in Vertices
               PROVE  /\ \A i \in 1 .. Len(hist'[u]) :
                           i > q.base[u] => hist'[u][i] > q.epoch
                      /\ q.base[u] <= End(Region(q.seg, u))'
                      /\ q.base[u] # 0 => EpochTableOf(q.seg, u)' # 0
    BY DEF BaseSound
  <1>1. /\ q.epoch \in Nat /\ q.seg \in 0 .. Len(segs) /\ q.base[u] \in Nat
        /\ wepoch \in Nat
    BY PastFields, ListTypesAt DEF Types
  <1>2. /\ hist[u] \in Seq(LogEpochs) /\ hist'[u] \in Seq(LogEpochs)
        /\ Extends(hist[u], hist'[u], wepoch)
    BY DEF Types, ListTypes, ListsMove
  <1>3. /\ Len(hist[u]) \in Nat /\ Len(hist'[u]) \in Nat
        /\ \A i \in 1 .. Len(hist'[u]) : hist'[u][i] \in Nat
    BY <1>2, ListFields
  <1>4. ASSUME NEW i \in 1 .. Len(hist'[u]), i > q.base[u] PROVE hist'[u][i] > q.epoch
    <2>1. CASE i \in 1 .. Len(hist[u])
      BY <1>2, <1>4, <2>1 DEF BaseSound, Extends
    <2>2. CASE i > Len(hist[u])
      <3>1. hist'[u][i] >= wepoch /\ hist'[u][i] \in Nat
        BY <1>2, <1>3, <2>2 DEF Extends
      <3>2. QED
        BY <1>1, <3>1
    <2>3. QED
      BY <1>3, <2>1, <2>2
  <1>5. q.base[u] <= End(Region(q.seg, u))'
    <2>1. PICK s : s = q.seg
      OBVIOUS
    <2>2. s \in 0 .. Len(segs)
      BY <1>1, <2>1
    <2>3. /\ q.base[u] <= End(Region(s, u))
          /\ End(Region(s, u)) <= End(Region(s, u))' /\ End(Region(s, u))' \in Nat
      BY <2>1, <2>2 DEF BaseSound, BlocksMove
    <2>4. Region(s, u) \in 0 .. Len(blks) /\ End(Region(s, u)) \in Nat
      BY <2>2, RegionAt, EndType DEF Types
    <2>5. QED
      BY <1>1, <2>1, <2>3, <2>4
  <1>6. q.base[u] # 0 => EpochTableOf(q.seg, u)' # 0
    BY <1>1 DEF BaseSound, SegmentsMove
  <1>7. QED
    BY <1>4, <1>5, <1>6

LEMMA LoadStays ==
  ASSUME Types, Types', SegmentsMove, ListsMove, ListsGrow, BlocksMove,
         NEW q, ReaderPast(q), LoadSound(q), q.pc \in {"load", "init"}
  PROVE  LoadSound(q)'
  <1>1. q.low \in Nat /\ q.v \in Vertices /\ q.base \in [Vertices -> Nat]
    BY PastFields
  <1>2. ASSUME q.blk # NotLoaded
        PROVE  BlockOf(q.blk, q.v)' /\ q.low <= End(q.blk)'
    <2>1. PICK b, v : b = q.blk /\ v = q.v
      OBVIOUS
    <2>2. b \in 0 .. Len(blks) /\ v \in Vertices
      BY <1>1, <1>2, <2>1, PastFields
    <2>3. BlockOf(b, v) /\ q.low <= End(b) /\ End(b) \in Nat
      BY <1>2, <2>1, <2>2, EndType DEF LoadSound, Types
    <2>4. BlockOf(b, v)' /\ End(b) <= End(b)' /\ End(b)' \in Nat
      BY <2>2, <2>3 DEF BlocksMove
    <2>5. q.low <= End(b)'
      BY <1>1, <2>3, <2>4
    <2>6. QED
      BY <2>1, <2>4, <2>5
  <1>3. ASSUME q.tab # NotLoaded PROVE q.tab <= Len(tabs'[q.v])
    <2>1. q.tab \in Nat /\ q.tab <= Len(tabs[q.v])
      BY <1>3, PastFields DEF LoadSound
    <2>2. Len(tabs[q.v]) \in Nat /\ Len(tabs'[q.v]) \in Nat
      BY <1>1 DEF Types, ListTypes
    <2>3. Len(tabs[q.v]) <= Len(tabs'[q.v])
      BY <1>1 DEF ListsGrow
    <2>4. QED
      BY <2>1, <2>2, <2>3
  <1>4. QED
    BY <1>2, <1>3 DEF LoadSound

LEMMA NumStays ==
  ASSUME Types, Types', ListsSound, ListsSound', SegmentsMove, ListsMove, ListsGrow,
         BlocksMove,
         NEW q, ReaderPast(q), LoadSound(q), NumSound(q), q.pc = "init"
  PROVE  NumSound(q)'
  <1>1. PICK b, v, k : b = q.blk /\ v = q.v /\ k = q.tab
    OBVIOUS
  <1>2. /\ q.low \in Nat /\ q.num \in Nat /\ v \in Vertices /\ b \in 1 .. Len(blks)
        /\ b \in 0 .. Len(blks)
        /\ k \in Nat \ {0} /\ q.blk # NotLoaded /\ q.tab # NotLoaded
    BY <1>1, PastFields
  <1>3. /\ q.low <= q.num /\ q.num <= End(b) /\ blks[b].prevnum <= q.num
        /\ BlockOf(b, v) /\ k \in 1 .. Len(tabs[v])
    <2>1. k <= Len(tabs[v]) /\ Len(tabs[v]) \in Nat
      BY <1>1, <1>2, ListTypesAt DEF LoadSound, Types
    <2>2. QED
      BY <1>1, <1>2, <2>1 DEF NumSound, LoadSound
  <1>4. End(b) \in Nat /\ End(b)' \in Nat /\ End(b) <= End(b)'
    BY <1>2, EndType DEF BlocksMove, Types
  <1>5. q.num <= End(b)'
    BY <1>2, <1>3, <1>4
  <1>6. blks'[b].prevnum <= q.num
    BY <1>2, <1>3 DEF BlocksMove, BlocksGrow
  <1>7. ASSUME q.view = "fresh", NEW i \in 1 .. Len(hist'[v]), i <= q.num
        PROVE  hist'[v][i] <= LastEpoch(tabs'[v][k])
    <2>1. /\ hist[v] \in Seq(LogEpochs) /\ hist'[v] \in Seq(LogEpochs)
          /\ Extends(hist[v], hist'[v], wepoch)
      BY <1>2 DEF Types, ListTypes, ListsMove
    <2>2. /\ Len(hist[v]) \in Nat /\ Len(hist'[v]) \in Nat
          /\ \A j \in 1 .. Len(hist[v]) : hist[v][j] \in Nat
      BY <2>1, ListFields
    <2>3. i \in 1 .. Len(hist[v])
      <3>1. End(b) <= Len(hist[v])
        BY <1>3 DEF BlockOf
      <3>2. QED
        BY <1>2, <1>3, <1>4, <1>7, <2>2, <3>1
    <2>4. hist'[v][i] = hist[v][i] /\ hist[v][i] \in Nat
      BY <2>1, <2>2, <2>3 DEF Extends
    <2>5. hist[v][i] <= LastEpoch(tabs[v][k])
      BY <1>1, <1>7, <2>3 DEF NumSound
    <2>6. LastEpoch(tabs[v][k]) \in Nat
      BY <1>2, <1>3, TablesAt DEF Types, ListsSound
    <2>7. LastEpoch(tabs[v][k]) <= LastEpoch(tabs'[v][k])
      BY <1>2, <1>3 DEF ListsMove
    <2>8. LastEpoch(tabs'[v][k]) \in Nat
      <3>1. k \in 1 .. Len(tabs'[v])
        <4>1. Len(tabs[v]) <= Len(tabs'[v]) /\ Len(tabs[v]) \in Nat /\ Len(tabs'[v]) \in Nat
          BY <1>2 DEF ListsGrow, Types, ListTypes
        <4>2. QED
          BY <1>3, <4>1
      <3>2. tabs'[v] \in Seq(Seq(EpochEntry))
        BY <1>2 DEF Types, ListTypes, EpochEntry
      <3>3. tabs'[v][k] \in Seq(EpochEntry)
        BY <3>1, <3>2
      <3>4. Len(tabs'[v][k]) >= 1
        BY <1>2, <3>1 DEF ListsSound, ListSound, TableSound
      <3>5. QED
        BY <3>3, <3>4, TableFields
    <2>9. QED
      BY <2>4, <2>5, <2>6, <2>7, <2>8
  <1>8. QED
    BY <1>1, <1>3, <1>5, <1>6, <1>7 DEF NumSound

LEMMA UpToStays ==
  ASSUME Types, Types', ListsMove, NEW q, ReaderPast(q), HasUpTo(q),
         q.pc = "done", q.epoch < wepoch
  PROVE  HasUpTo(q)'
  <1>1. PICK v : v = q.v
    OBVIOUS
  <1>2. PICK n \in Nat : q.out = Iota(n) /\ UpToIs(hist[v], q.epoch, n)
    BY <1>1 DEF HasUpTo
  <1>3. v \in Vertices /\ q.epoch \in Nat /\ wepoch \in Nat
    BY <1>1, PastFields, ListTypesAt DEF Types
  <1>4. /\ hist[v] \in Seq(LogEpochs) /\ hist'[v] \in Seq(LogEpochs)
        /\ Extends(hist[v], hist'[v], wepoch)
    BY <1>3 DEF Types, ListTypes, ListsMove
  <1>5. /\ Len(hist[v]) \in Nat /\ Len(hist'[v]) \in Nat
        /\ \A j \in 1 .. Len(hist'[v]) : hist'[v][j] \in Nat
    BY <1>4, ListFields
  <1>6. ASSUME NEW i \in 1 .. Len(hist'[v]) PROVE i <= n <=> hist'[v][i] <= q.epoch
    <2>1. CASE i \in 1 .. Len(hist[v])
      BY <1>2, <1>4, <2>1 DEF UpToIs, Extends
    <2>2. CASE i > Len(hist[v])
      <3>1. hist'[v][i] >= wepoch /\ hist'[v][i] \in Nat
        BY <1>4, <1>5, <2>2 DEF Extends
      <3>2. n <= Len(hist[v])
        BY <1>2, <1>5 DEF UpToIs
      <3>3. QED
        BY <1>3, <1>5, <2>2, <3>1, <3>2
    <2>3. QED
      BY <1>5, <2>1, <2>2
  <1>7. n \in 0 .. Len(hist'[v])
    BY <1>2, <1>4, <1>5 DEF UpToIs, Extends
  <1>8. UpToIs(hist'[v], q.epoch, n)
    BY <1>6, <1>7 DEF UpToIs
  <1>9. QED
    BY <1>1, <1>2, <1>8 DEF HasUpTo, Iota

(* A reader that does nothing loses nothing. *)
LEMMA ReaderStays ==
  ASSUME Types, Types', ListsSound, ListsSound', SegmentsMove, ListsMove, ListsGrow,
         BlocksMove,
         NEW q, ReaderPast(q), ReadSound(q)
  PROVE  ReadSound(q)'
  <1>1. q.epoch \in Nat /\ wepoch \in Nat /\ wepoch' \in Nat /\ wepoch <= wepoch'
    BY PastFields, SegGraphAssumption DEF Types, ListTypes, ListsMove
  <1>2. q.pc # "idle" => q.epoch < wepoch /\ q.epoch < wepoch'
    BY <1>1 DEF ReadSound
  <1>3. q.pc \in {"load", "init", "done"} \/ q.seg # 0 => BaseSound(q)'
    BY <1>2, BaseStays DEF ReadSound
  <1>4. q.pc \in {"load", "init"} => LoadSound(q)'
    BY LoadStays DEF ReadSound
  <1>5. q.pc = "init" => NumSound(q)'
    BY NumStays DEF ReadSound
  <1>6. q.pc = "done" /\ q.view = "fresh" => HasUpTo(q)'
    BY <1>2, UpToStays DEF ReadSound
  <1>7. QED
    BY <1>2, <1>3, <1>4, <1>5, <1>6 DEF ReadSound

-----------------------------------------------------------------------------
(* The steps of a reader. *)

(* Nothing is put, so what holds of a reader is not changed by a read. *)
LEMMA ReadSame ==
  ASSUME NEW r \in Readers, Read(r), NEW q
  PROVE  ReadSound(q)' <=> ReadSound(q)
  <1>1. UNCHANGED <<wepoch, hist, tabs, segptr, segs, blks>>
    BY ReadFrame
  <1>2. \A b : End(b)' = End(b)
    BY <1>1 DEF End
  <1>3. \A s, v : Region(s, v)' = Region(s, v) /\ EpochTableOf(s, v)' = EpochTableOf(s, v)
    BY <1>1 DEF Region, EpochTableOf
  <1>4. \A b, v : BlockOf(b, v)' <=> BlockOf(b, v)
    BY <1>1, <1>2, <1>3 DEF BlockOf
  <1>5. BaseSound(q)' <=> BaseSound(q)
    BY <1>1, <1>2, <1>3 DEF BaseSound
  <1>6. LoadSound(q)' <=> LoadSound(q)
    BY <1>1, <1>2, <1>4 DEF LoadSound
  <1>7. NumSound(q)' <=> NumSound(q)
    BY <1>1, <1>2 DEF NumSound
  <1>8. HasUpTo(q)' <=> HasUpTo(q)
    BY <1>1 DEF HasUpTo
  <1>9. QED
    BY <1>1, <1>5, <1>6, <1>7, <1>8 DEF ReadSound

LEMMA ReadsMove ==
  ASSUME Types, ReadsSound, NEW r \in Readers, Read(r), NEW q,
         rd' = [rd EXCEPT ![r] = q], ReadSound(q)
  PROVE  ReadsSound'
  <1>1. rd = [x \in Readers |-> rd[x]]
    BY DEF Types, ReaderTypes
  <1>2. \A x \in Readers : rd'[x] = q \/ rd'[x] = rd[x]
    BY <1>1
  <1>3. \A x \in Readers : ReadSound(rd'[x])
    BY <1>2 DEF ReadsSound
  <1>4. \A y : ReadSound(y)' <=> ReadSound(y)
    BY ReadSame
  <1>5. \A y \in {rd'[x] : x \in Readers} : ReadSound(y)'
    BY <1>3, <1>4
  <1>6. QED
    BY <1>5 DEF ReadsSound

LEMMA BaseSame ==
  ASSUME NEW p, NEW q, q.seg = p.seg, q.base = p.base, q.epoch = p.epoch, BaseSound(p)
  PROVE  BaseSound(q)
  BY DEF BaseSound

(* A vertex without an entry before its base has none of the epoch. *)
LEMMA EmptyUpTo ==
  ASSUME Types, NEW p, ReaderPast(p), BaseSound(p), p.v \in Vertices, p.base[p.v] = 0,
         NEW q, q.v = p.v, q.epoch = p.epoch, q.out = << >>
  PROVE  HasUpTo(q)
  <1>1. PICK h, e : h = hist[p.v] /\ e = p.epoch
    OBVIOUS
  <1>2. Len(h) \in Nat /\ (\A i \in 1 .. Len(h) : h[i] \in Nat) /\ e \in Nat
    BY <1>1, ListTypesAt, ListFields, PastFields DEF Types
  <1>3. \A i \in 1 .. Len(h) : h[i] > e
    BY <1>1, <1>2 DEF BaseSound
  <1>4. \A i \in 1 .. Len(h) : i <= 0 <=> h[i] <= e
    BY <1>2, <1>3
  <1>5. UpToIs(h, e, 0)
    BY <1>2, <1>4 DEF UpToIs
  <1>6. q.out = Iota(0)
    BY DEF Iota
  <1>7. QED
    BY <1>1, <1>5, <1>6 DEF HasUpTo

(* The segment is located: what is put from now on is of later epochs. *)
LEMMA LocateSound ==
  ASSUME Types, LogInv, ListsSound, NEW q, q.seg = segptr,
         q.base = [u \in Vertices |-> Len(Chain(Region(segptr, u)))]
  PROVE  BaseSound(q)
  <1> SUFFICES ASSUME NEW u \in Vertices
               PROVE  /\ \A i \in 1 .. Len(hist[u]) : i > q.base[u] => hist[u][i] > q.epoch
                      /\ q.base[u] <= End(Region(q.seg, u))
                      /\ q.base[u] # 0 => EpochTableOf(q.seg, u) # 0
    BY DEF BaseSound
  <1>1. PICK b : b = Region(segptr, u)
    OBVIOUS
  <1>2. b \in 0 .. Len(blks) /\ End(b) \in Nat /\ End(b) = Len(hist[u])
    BY <1>1, NewestRegion DEF LogInv, LogStore, ListsEnd
  <1>3. Len(Chain(b)) = End(b)
    BY <1>2, ChainIsIota, IotaFacts DEF Types, LogInv, LogStore
  <1>4. q.base[u] = Len(hist[u]) /\ q.base[u] = End(b)
    BY <1>1, <1>2, <1>3
  <1>5. q.base[u] # 0 => EpochTableOf(segptr, u) # 0
    BY <1>4 DEF ListsSound, Current
  <1>6. \A i \in 1 .. Len(hist[u]) : ~ (i > q.base[u])
    BY <1>2, <1>4
  <1>7. QED
    BY <1>1, <1>2, <1>4, <1>5, <1>6

(* get_edges_in_seg loads the block, *)
LEMMA LoadBlockSound ==
  ASSUME Types, LogInv, ListsSound, RegionsEnd, NEW p, ReaderPast(p), ReadSound(p), p.pc = "load",
         NEW q, q.blk = Region(p.seg, p.v), q.low = Len(Chain(Region(p.seg, p.v))),
         q.pc = p.pc, q.epoch = p.epoch, q.v = p.v, q.seg = p.seg, q.base = p.base,
         q.tab = p.tab, q.num = p.num, q.view = p.view
  PROVE  ReadSound(q)
  <1>1. PICK b : b = Region(p.seg, p.v)
    OBVIOUS
  <1>2. p.v \in Vertices /\ p.seg \in 0 .. Len(segs)
    BY PastFields
  <1>3. b \in 0 .. Len(blks) /\ BlockOf(b, p.v)
    BY <1>1, <1>2, RegionsOwn
  <1>4. End(b) \in Nat /\ Len(Chain(b)) = End(b)
    BY <1>3, ChainIsIota, IotaFacts DEF Types, LogInv, LogStore
  <1>5. BaseSound(p) /\ LoadSound(p)
    BY DEF ReadSound
  <1>6. p.base[p.v] <= End(b)
    BY <1>1, <1>2, <1>5 DEF BaseSound
  <1>7. LoadSound(q)
    BY <1>1, <1>3, <1>4, <1>5, <1>6 DEF LoadSound
  <1>8. BaseSound(q)
    BY <1>5, BaseSame
  <1>9. QED
    BY <1>7, <1>8 DEF ReadSound

(* the epoch table, *)
LEMMA LoadTableSound ==
  ASSUME Types, LogInv, ListsSound, RegionsEnd, NEW p, ReaderPast(p), ReadSound(p), p.pc = "load",
         NEW q, q.tab = EpochTableOf(p.seg, p.v), q.blk = p.blk, q.low = p.low,
         q.pc = p.pc, q.epoch = p.epoch, q.v = p.v, q.seg = p.seg, q.base = p.base,
         q.num = p.num, q.view = p.view
  PROVE  ReadSound(q)
  <1>1. p.v \in Vertices /\ p.seg \in 0 .. Len(segs)
    BY PastFields
  <1>2. EpochTableOf(p.seg, p.v) \in 0 .. Len(tabs[p.v]) /\ Len(tabs[p.v]) \in Nat
    BY <1>1, RegionAt, ListTypesAt DEF Types
  <1>3. EpochTableOf(p.seg, p.v) <= Len(tabs[p.v])
    BY <1>2
  <1>4. BaseSound(p) /\ LoadSound(p)
    BY DEF ReadSound
  <1>5. EpochTableOf(p.seg, p.v) = 0 => p.base[p.v] = 0
    BY <1>1, <1>4 DEF BaseSound
  <1>6. LoadSound(q)
    BY <1>3, <1>4, <1>5 DEF LoadSound
  <1>7. BaseSound(q)
    BY <1>4, BaseSame
  <1>8. QED
    BY <1>6, <1>7 DEF ReadSound

(* and the number of entries.  The table is fresh if it is still the one of *)
(* the newest segment.                                                      *)
LEMMA LoadNumSound ==
  ASSUME Types, LogInv, ListsSound, RegionsEnd, NEW p, ReaderPast(p), ReadSound(p), p.pc = "load",
         p.blk # NotLoaded, p.blk # 0, p.tab # NotLoaded, p.tab # 0,
         NEW q, q.num = blks[p.blk].prevnum + Len(blks[p.blk].ents),
         q.view = "fresh" => p.tab = EpochTableOf(segptr, p.v),
         q.pc = "init", q.epoch = p.epoch, q.v = p.v, q.seg = p.seg, q.base = p.base,
         q.blk = p.blk, q.low = p.low, q.tab = p.tab
  PROVE  ReadSound(q)
  <1>1. PICK b : b = p.blk
    OBVIOUS
  <1>2. b \in 1 .. Len(blks) /\ p.v \in Vertices
    BY <1>1, PastFields
  <1>3. /\ blks[b].prevnum \in Nat /\ Len(blks[b].ents) \in Nat
        /\ End(b) = blks[b].prevnum + Len(blks[b].ents)
    BY <1>2, BlockFields DEF Types, End
  <1>4. q.num = End(b) /\ End(b) \in Nat /\ blks[b].prevnum <= End(b)
    <2>1. PICK x, y : x = blks[b].prevnum /\ y = Len(blks[b].ents)
      OBVIOUS
    <2>2. x \in Nat /\ y \in Nat /\ End(b) = x + y
      BY <1>3, <2>1
    <2>3. End(b) \in Nat /\ x <= End(b)
      BY <2>2
    <2>4. QED
      BY <1>1, <1>3, <2>1, <2>3
  <1>5. BaseSound(p) /\ LoadSound(p)
    BY DEF ReadSound
  <1>6. p.low <= End(b)
    BY <1>1, <1>5 DEF LoadSound
  <1>7. ASSUME q.view = "fresh", NEW i \in 1 .. Len(hist[p.v])
        PROVE  hist[p.v][i] <= LastEpoch(tabs[p.v][p.tab])
    <2>1. Covers(tabs[p.v][p.tab], hist[p.v])
      BY <1>2, <1>7 DEF ListsSound, Current
    <2>2. QED
      BY <2>1 DEF Covers
  <1>8. NumSound(q)
    BY <1>1, <1>4, <1>6, <1>7 DEF NumSound
  <1>9. LoadSound(q)
    BY <1>5 DEF LoadSound
  <1>10. BaseSound(q)
    BY <1>5, BaseSame
  <1>11. QED
    BY <1>8, <1>9, <1>10 DEF ReadSound

(* Without a block or a table there is nothing to read. *)
LEMMA NothingSound ==
  ASSUME Types, LogInv, NEW p, ReaderPast(p), ReadSound(p), p.pc = "load",
         p.blk # NotLoaded, p.tab # NotLoaded,
         NEW q, q.view = "fresh" => p.blk = 0 \/ p.tab = 0 \/ p.low = 0,
         q.pc = "done", q.out = << >>, q.epoch = p.epoch, q.v = p.v, q.seg = p.seg,
         q.base = p.base
  PROVE  ReadSound(q)
  <1>1. BaseSound(p) /\ LoadSound(p)
    BY DEF ReadSound
  <1>2. p.v \in Vertices /\ p.base[p.v] \in Nat /\ p.low \in Nat
    BY PastFields
  <1>3. p.blk = 0 => p.low <= 0
    BY <1>1 DEF LoadSound, End, NotLoaded
  <1>4. ASSUME q.view = "fresh" PROVE p.base[p.v] = 0
    <2>1. CASE p.tab = 0
      BY <1>1, <2>1 DEF LoadSound
    <2>2. CASE p.low <= 0
      BY <1>1, <1>2, <2>2 DEF LoadSound
    <2>3. QED
      BY <1>2, <1>3, <1>4, <2>1, <2>2
  <1>5. q.view = "fresh" => HasUpTo(q)
    BY <1>1, <1>2, <1>4, EmptyUpTo
  <1>6. BaseSound(q)
    BY <1>1, BaseSame
  <1>7. QED
    BY <1>5, <1>6 DEF ReadSound

(* The iterator stops at the snapshot's last entry. *)
LEMMA ReachedIsSnapshot ==
  ASSUME Types, LogInv, ListsSound, NEW p, ReaderPast(p), ReadSound(p),
         p.pc = "init", p.view = "fresh"
  PROVE  \E n \in Nat : /\ Reached(p.blk, p.num, tabs[p.v][p.tab], p.epoch) = Iota(n)
                        /\ UpToIs(hist[p.v], p.epoch, n)
  <1>1. PICK b, v, k, t, h, e, num, low :
          /\ b = p.blk /\ v = p.v /\ k = p.tab /\ t = tabs[v][k] /\ h = hist[v]
          /\ e = p.epoch /\ num = p.num /\ low = p.low
    OBVIOUS
  <1>2. /\ v \in Vertices /\ b \in 1 .. Len(blks) /\ k \in Nat \ {0}
        /\ e \in Nat /\ num \in Nat /\ low \in Nat
        /\ b # NotLoaded /\ k # NotLoaded /\ p.base[v] \in Nat
    BY <1>1, PastFields
  <1>3. BaseSound(p) /\ LoadSound(p) /\ NumSound(p)
    BY DEF ReadSound
  <1>4. k \in 1 .. Len(tabs[v])
    <2>1. k <= Len(tabs[v]) /\ Len(tabs[v]) \in Nat
      BY <1>1, <1>2, <1>3, ListTypesAt DEF LoadSound, Types
    <2>2. QED
      BY <1>2, <2>1
  <1>5. /\ t \in Seq(EpochEntry) /\ TableSound(t, h, wepoch)
        /\ h \in Seq(LogEpochs) /\ Len(h) \in Nat /\ wepoch \in Nat
    BY <1>1, <1>2, <1>4, TablesAt, ListTypesAt DEF ListsSound, Types
  <1>6. /\ low <= num /\ num <= End(b) /\ blks[b].prevnum <= num
        /\ \A i \in 1 .. Len(h) : i <= num => h[i] <= LastEpoch(t)
    BY <1>1, <1>3 DEF NumSound
  <1>7. /\ End(b) <= Len(h) /\ low <= End(b) /\ End(b) \in Nat
    BY <1>1, <1>2, <1>3, EndType DEF LoadSound, BlockOf, Types
  <1>8. num <= Len(h)
    BY <1>2, <1>5, <1>6, <1>7
  <1>9. \A i \in 1 .. Len(h) : i > low => h[i] > e
    <2>1. p.base[v] <= low
      BY <1>1, <1>2, <1>3 DEF LoadSound
    <2> TAKE i \in 1 .. Len(h)
    <2>2. i > low => i > p.base[v]
      BY <1>2, <2>1
    <2>3. QED
      BY <1>1, <1>2, <1>3, <2>2 DEF BaseSound
  <1>10. PICK ks, m : ks = {j \in 1 .. Len(t) : t[j].epoch <= e} /\ m = Max(ks)
    OBVIOUS
  <1>11. /\ ks = {} => UpToIs(h, e, 0)
         /\ ks # {} /\ m = Len(t) => UpToIs(h, e, num)
         /\ ks # {} /\ m # Len(t) =>
              /\ m + 1 \in 1 .. Len(t)
              /\ t[m + 1].offset \in Nat
              /\ t[m + 1].offset > 0
              /\ t[m + 1].offset <= low
              /\ UpToIs(h, e, t[m + 1].offset)
    <2>1. Counted(t, h, e, low, num) /\ LooksUp(t, e, ks, m)
      BY <1>6, <1>8, <1>9, <1>10 DEF Counted, LooksUp
    <2>2. QED
      BY <1>2, <1>5, <2>1, SnapshotEnds
  <1>12. BlockTypes /\ BlocksSound
    BY DEF Types, LogInv, LogStore
  <1>13. CASE ks = {}
    <2>1. Reached(b, num, t, e) = << >>
      BY <1>10, <1>13 DEF Reached
    <2>2. << >> = Iota(0)
      BY DEF Iota
    <2>3. QED
      BY <1>1, <1>11, <1>13, <2>1, <2>2
  <1>14. CASE ks # {} /\ m = Len(t)
    <2>1. Reached(b, num, t, e)
            = Chain(blks[b].prev) \o SubSeq(blks[b].ents, 1, num - blks[b].prevnum)
      BY <1>10, <1>14 DEF Reached
    <2>2. Reached(b, num, t, e) = Iota(num)
      BY <1>2, <1>6, <1>12, <2>1, EntriesUpTo
    <2>3. QED
      BY <1>1, <1>2, <1>11, <1>14, <2>2
  <1>15. CASE ks # {} /\ m # Len(t)
    <2>1. PICK o : o = t[m + 1].offset
      OBVIOUS
    <2>2. o \in Nat /\ o > 0 /\ o <= low /\ UpToIs(h, e, o)
      BY <1>11, <1>15, <2>1
    <2>3. PICK c : c = BlockBefore(b, o)
      OBVIOUS
    <2>4. Reached(b, num, t, e)
            = Chain(blks[c].prev) \o SubSeq(blks[c].ents, 1, o - blks[c].prevnum)
      BY <1>10, <1>15, <2>1, <2>3 DEF Reached
    <2>5. o <= End(b)
      BY <1>2, <1>7, <2>2
    <2>6. c \in 1 .. Len(blks) /\ blks[c].prevnum < o /\ o <= End(c)
      BY <1>2, <1>12, <2>2, <2>3, <2>5, BlockBeforeFound
    <2>7. blks[c].prevnum <= o
      <3>1. blks[c].prevnum \in Nat
        BY <1>12, <2>6, BlockFields
      <3>2. QED
        BY <2>2, <2>6, <3>1
    <2>8. Reached(b, num, t, e) = Iota(o)
      BY <1>12, <2>2, <2>4, <2>6, <2>7, EntriesUpTo
    <2>9. QED
      BY <1>1, <2>2, <2>8
  <1>16. QED
    BY <1>13, <1>14, <1>15

LEMMA InitSound ==
  ASSUME Types, LogInv, ListsSound, NEW p, ReaderPast(p), ReadSound(p), p.pc = "init",
         NEW q, q.out = Reached(p.blk, p.num, tabs[p.v][p.tab], p.epoch),
         q.pc = "done", q.epoch = p.epoch, q.v = p.v, q.seg = p.seg, q.base = p.base,
         q.view = p.view
  PROVE  ReadSound(q)
  <1>1. BaseSound(q)
    BY BaseSame DEF ReadSound
  <1>2. q.view = "fresh" => HasUpTo(q)
    BY ReachedIsSnapshot DEF HasUpTo
  <1>3. QED
    BY <1>1, <1>2 DEF ReadSound

LEMMA IdleReaderLoads ==
  IdleReader.tab = NotLoaded /\ IdleReader.view = "fresh"
  BY DEF IdleReader

LEMMA ReadStep ==
  ASSUME Types, LogInv, ListsSound, RegionsEnd, ReadsSound, NEW r \in Readers, Read(r)
  PROVE  ReadsSound'
  <1> DEFINE p == rd[r]
  <1>0. /\ DOMAIN p = {"pc", "kind", "epoch", "v", "seg", "at", "base", "baseTab",
                       "blk", "low", "tab", "num", "out", "view"}
        /\ ReaderPast(p) /\ r \in DOMAIN rd /\ ReadSound(p)
    BY ReaderFields DEF ReadsSound
  <1>1. CASE \E e \in LogEpochs, kind \in {"internal", "fragment"} : OpenReader(r, e, kind)
    <2>1. PICK e \in LogEpochs, kind \in {"internal", "fragment"} : OpenReader(r, e, kind)
      BY <1>1
    <2> DEFINE q == [IdleReader EXCEPT !.pc = "ready", !.epoch = e, !.kind = kind]
    <2>2. rd' = [rd EXCEPT ![r] = q] /\ e < wepoch
      BY <2>1 DEF OpenReader
    <2>3. q.pc = "ready" /\ q.epoch = e
      BY IdleReaderFields
    <2>4. \A f \in DOMAIN IdleReader : f \notin {"pc", "epoch", "kind"} => q[f] = IdleReader[f]
      BY IdleReaderFields
    <2>5. /\ q.seg = IdleReader.seg /\ q.blk = IdleReader.blk /\ q.tab = IdleReader.tab
          /\ q.view = IdleReader.view
      BY IdleReaderFields, <2>4
    <2> HIDE DEF q
    <2>6. ReadSound(q)
      BY <2>2, <2>3, <2>5, IdleReaderFields, IdleReaderLoads DEF ReadSound
    <2>7. QED
      BY <2>2, <2>6, ReadsMove
  <1>2. CASE \E v \in Vertices : GetEdges(r, v)
    <2>1. PICK v \in Vertices : GetEdges(r, v)
      BY <1>2
    <2>2. /\ p.pc = "ready" /\ p.blk = NotLoaded /\ p.tab = NotLoaded /\ p.view = "fresh"
          /\ p.epoch < wepoch /\ (p.seg # 0 => BaseSound(p))
      BY <1>0, <2>1 DEF GetEdges, ReadSound
    <2>3. CASE p.kind = "internal" /\ p.seg # 0
      <3> DEFINE q == [p EXCEPT !.pc = "load", !.v = v]
      <3>1. rd' = [rd EXCEPT ![r] = q]
        BY <1>0, <2>1, <2>3 DEF GetEdges
      <3>2. /\ q.pc = "load" /\ q.epoch = p.epoch /\ q.seg = p.seg /\ q.base = p.base
            /\ q.blk = p.blk /\ q.tab = p.tab /\ q.view = p.view
        BY <1>0
      <3> HIDE DEF q
      <3>3. BaseSound(q)
        BY <2>2, <2>3, <3>2, BaseSame
      <3>4. ReadSound(q)
        BY <2>2, <3>2, <3>3 DEF ReadSound, LoadSound
      <3>5. QED
        BY <3>1, <3>4, ReadsMove
    <2>4. CASE ~ (p.kind = "internal" /\ p.seg # 0)
      <3> DEFINE base == [u \in Vertices |-> Len(Chain(Region(segptr, u)))]
                 tab == [u \in Vertices |-> EpochTableOf(segptr, u)]
                 q == [p EXCEPT !.pc = "load", !.v = v, !.seg = segptr, !.at = wepoch,
                         !.base = base, !.baseTab = tab]
      <3>1. rd' = [rd EXCEPT ![r] = q]
        BY <1>0, <2>1, <2>4 DEF GetEdges
      <3> HIDE DEF tab
      <3>2. q.pc = "load" /\ q.seg = segptr /\ q.base = base
        BY <1>0
      <3>3. \A f \in DOMAIN p :
               f \notin {"pc", "v", "seg", "at", "base", "baseTab"} => q[f] = p[f]
        BY <1>0
      <3>4. q.epoch = p.epoch /\ q.blk = p.blk /\ q.tab = p.tab /\ q.view = p.view
        BY <1>0, <3>3
      <3> HIDE DEF q
      <3>5. BaseSound(q)
        BY <3>2, LocateSound
      <3> HIDE DEF base
      <3>6. ReadSound(q)
        BY <2>2, <3>2, <3>4, <3>5 DEF ReadSound, LoadSound
      <3>7. QED
        BY <3>1, <3>6, ReadsMove
    <2>5. QED
      BY <2>3, <2>4
  <1>3. CASE LoadBlock(r)
    <2> DEFINE b == Region(p.seg, p.v)
               n == Len(Chain(b))
               q == [p EXCEPT !.blk = b, !.low = n]
    <2>1. rd' = [rd EXCEPT ![r] = q] /\ p.pc = "load"
      BY <1>0, <1>3 DEF LoadBlock
    <2> HIDE DEF b, n
    <2>2. q.blk = b /\ q.low = n
      BY <1>0
    <2>3. \A f \in DOMAIN p : f \notin {"blk", "low"} => q[f] = p[f]
      BY <1>0
    <2>4. /\ q.pc = p.pc /\ q.epoch = p.epoch /\ q.v = p.v /\ q.seg = p.seg
          /\ q.base = p.base /\ q.tab = p.tab /\ q.num = p.num /\ q.view = p.view
      BY <1>0, <2>3
    <2> HIDE DEF q
    <2>5. ReadSound(q)
      BY <1>0, <2>1, <2>2, <2>4, LoadBlockSound DEF b, n
    <2>6. QED
      BY <2>1, <2>5, ReadsMove
  <1>4. CASE LoadTable(r)
    <2> DEFINE t == EpochTableOf(p.seg, p.v)
               q == [p EXCEPT !.tab = t]
    <2>1. rd' = [rd EXCEPT ![r] = q] /\ p.pc = "load"
      BY <1>0, <1>4 DEF LoadTable
    <2> HIDE DEF t
    <2>2. /\ q.tab = t /\ q.pc = p.pc /\ q.epoch = p.epoch /\ q.v = p.v /\ q.seg = p.seg
          /\ q.base = p.base /\ q.blk = p.blk /\ q.low = p.low /\ q.num = p.num
          /\ q.view = p.view
      BY <1>0
    <2> HIDE DEF q
    <2>3. ReadSound(q)
      BY <1>0, <2>1, <2>2, LoadTableSound DEF t
    <2>4. QED
      BY <2>1, <2>3, ReadsMove
  <1>5. CASE LoadNum(r)
    <2> DEFINE n == blks[p.blk].prevnum + Len(blks[p.blk].ents)
               a == IF p.tab = EpochTableOf(segptr, p.v) THEN "fresh" ELSE "stale"
               q == [p EXCEPT !.pc = "init", !.num = n, !.view = a]
    <2>1. rd' = [rd EXCEPT ![r] = q]
      BY <1>0, <1>5 DEF LoadNum
    <2>2. /\ p.pc = "load" /\ p.blk # NotLoaded /\ p.blk # 0 /\ p.tab # NotLoaded
          /\ p.tab # 0
      BY <1>5 DEF LoadNum, Loaded
    <2>3. a = "fresh" => p.tab = EpochTableOf(segptr, p.v)
      OBVIOUS
    <2> HIDE DEF n, a
    <2>4. q.pc = "init" /\ q.num = n /\ q.view = a
      BY <1>0
    <2>5. \A f \in DOMAIN p : f \notin {"pc", "num", "view"} => q[f] = p[f]
      BY <1>0
    <2>6. /\ q.epoch = p.epoch /\ q.v = p.v /\ q.seg = p.seg /\ q.base = p.base
          /\ q.blk = p.blk /\ q.low = p.low /\ q.tab = p.tab
      BY <1>0, <2>5
    <2> HIDE DEF q
    <2>7. ReadSound(q)
      BY <1>0, <2>2, <2>3, <2>4, <2>6, LoadNumSound DEF n
    <2>8. QED
      BY <2>1, <2>7, ReadsMove
  <1>6. CASE ReadNull(r)
    <2> DEFINE q == [p EXCEPT !.pc = "done", !.out = << >>]
    <2>1. rd' = [rd EXCEPT ![r] = q]
      BY <1>0, <1>6 DEF ReadNull
    <2>2. /\ p.pc = "load" /\ p.blk # NotLoaded /\ p.tab # NotLoaded
          /\ p.blk = 0 \/ p.tab = 0
      BY <1>6 DEF ReadNull, Loaded
    <2>3. /\ q.pc = "done" /\ q.out = << >> /\ q.epoch = p.epoch /\ q.v = p.v
          /\ q.seg = p.seg /\ q.base = p.base
      BY <1>0
    <2> HIDE DEF q
    <2>4. ReadSound(q)
      BY <1>0, <2>2, <2>3, NothingSound
    <2>5. QED
      BY <2>1, <2>4, ReadsMove
  <1>7. CASE ReadEmptyBlock(r)
    <2> DEFINE a == IF p.low = 0 THEN "fresh" ELSE "stale"
               q == [p EXCEPT !.pc = "done", !.out = << >>, !.view = a]
    <2>1. rd' = [rd EXCEPT ![r] = q]
      BY <1>0, <1>7 DEF ReadEmptyBlock
    <2>2. p.pc = "load" /\ p.blk # NotLoaded /\ p.tab # NotLoaded
      BY <1>7 DEF ReadEmptyBlock, Loaded
    <2>3. a = "fresh" => p.low = 0
      OBVIOUS
    <2> HIDE DEF a
    <2>4. q.pc = "done" /\ q.out = << >> /\ q.view = a
      BY <1>0
    <2>5. \A f \in DOMAIN p : f \notin {"pc", "out", "view"} => q[f] = p[f]
      BY <1>0
    <2>6. q.epoch = p.epoch /\ q.v = p.v /\ q.seg = p.seg /\ q.base = p.base
      BY <1>0, <2>5
    <2> HIDE DEF q
    <2>7. ReadSound(q)
      BY <1>0, <2>2, <2>3, <2>4, <2>6, NothingSound
    <2>8. QED
      BY <2>1, <2>7, ReadsMove
  <1>8. CASE InitIterator(r)
    <2> DEFINE o == Reached(p.blk, p.num, tabs[p.v][p.tab], p.epoch)
               q == [p EXCEPT !.pc = "done", !.out = o]
    <2>1. rd' = [rd EXCEPT ![r] = q] /\ p.pc = "init"
      BY <1>0, <1>8 DEF InitIterator
    <2> HIDE DEF o
    <2>2. /\ q.pc = "done" /\ q.out = o /\ q.epoch = p.epoch /\ q.v = p.v
          /\ q.seg = p.seg /\ q.base = p.base /\ q.view = p.view
      BY <1>0
    <2> HIDE DEF q
    <2>3. ReadSound(q)
      BY <1>0, <2>1, <2>2, InitSound DEF o
    <2>4. QED
      BY <2>1, <2>3, ReadsMove
  <1>9. CASE ReadRecycled(r)
    <2>1. PICK n \in 0 .. 1 :
            rd' = [rd EXCEPT ![r].pc = "done", ![r].out = [i \in 1 .. n |-> 0],
                             ![r].view = "stale"]
      BY <1>9, Zenon DEF ReadRecycled
    <2> DEFINE o == [i \in 1 .. n |-> 0]
    <2>2. rd' = [rd EXCEPT ![r].pc = "done", ![r].out = o, ![r].view = "stale"]
      BY <2>1, Zenon
    <2> HIDE DEF o
    <2> DEFINE q == [p EXCEPT !.pc = "done", !.out = o, !.view = "stale"]
    <2>3. rd' = [rd EXCEPT ![r] = q]
      BY <1>0, <2>2
    <2>4. q.pc = "done" /\ q.view = "stale"
      BY <1>0
    <2>5. \A f \in DOMAIN p : f \notin {"pc", "out", "view"} => q[f] = p[f]
      BY <1>0
    <2>6. q.epoch = p.epoch /\ q.seg = p.seg /\ q.base = p.base
      BY <1>0, <2>5
    <2> HIDE DEF q
    <2>7. BaseSound(p) /\ p.epoch < wepoch
      BY <1>0, <1>9 DEF ReadSound, ReadRecycled
    <2>8. BaseSound(q)
      BY <2>6, <2>7, BaseSame
    <2>9. ReadSound(q)
      BY <2>4, <2>6, <2>7, <2>8 DEF ReadSound
    <2>10. QED
      BY <2>3, <2>9, ReadsMove
  <1>10. CASE EndRead(r)
    <2> DEFINE q == [IdleReader EXCEPT !.pc = "ready", !.kind = p.kind,
                       !.epoch = p.epoch, !.seg = p.seg, !.at = p.at,
                       !.base = p.base, !.baseTab = p.baseTab]
    <2>1. rd' = [rd EXCEPT ![r] = q]
      BY <1>10 DEF EndRead
    <2>2. q.pc = "ready" /\ q.epoch = p.epoch /\ q.seg = p.seg /\ q.base = p.base
      BY IdleReaderFields
    <2>3. \A f \in DOMAIN IdleReader :
             f \notin {"pc", "kind", "epoch", "seg", "at", "base", "baseTab"} => q[f] = IdleReader[f]
      BY IdleReaderFields
    <2>4. q.blk = IdleReader.blk /\ q.tab = IdleReader.tab /\ q.view = IdleReader.view
      BY IdleReaderFields, <2>3
    <2> HIDE DEF q
    <2>5. BaseSound(p) /\ p.epoch < wepoch
      BY <1>0, <1>10 DEF ReadSound, EndRead
    <2>6. BaseSound(q)
      BY <2>2, <2>5, BaseSame
    <2>7. ReadSound(q)
      BY <2>2, <2>4, <2>5, <2>6, IdleReaderFields, IdleReaderLoads DEF ReadSound
    <2>8. QED
      BY <2>1, <2>7, ReadsMove
  <1>11. CASE CloseReader(r)
    <2>1. rd' = [rd EXCEPT ![r] = IdleReader]
      BY <1>11 DEF CloseReader
    <2>2. ReadSound(IdleReader)
      BY IdleReaderFields, IdleReaderLoads DEF ReadSound
    <2>3. QED
      BY <2>1, <2>2, ReadsMove
  <1>12. QED
    BY <1>1, <1>2, <1>3, <1>4, <1>5, <1>6, <1>7, <1>8, <1>9, <1>10, <1>11 DEF Read

-----------------------------------------------------------------------------
(* The snapshots, with one writer. *)

SnapInv == ListsSound /\ RegionsEnd /\ ReadsSound

LEMMA SnapInit == Init => SnapInv
  <1> SUFFICES ASSUME Init PROVE SnapInv
    OBVIOUS
  <1>1. /\ segptr = 0 /\ segs = << >> /\ hist = [v \in Vertices |-> << >>]
        /\ tabs = [v \in Vertices |-> << >>] /\ rd = [r \in Readers |-> IdleReader]
    BY DEF Init
  <1>2. /\ Len(segs) = 0
        /\ \A v \in Vertices : Len(hist[v]) = 0 /\ Len(tabs[v]) = 0
        /\ \A v : Region(0, v) = 0 /\ EpochTableOf(0, v) = 0
        /\ End(0) = 0
    BY <1>1 DEF Region, EpochTableOf, End
  <1>3. ListsSound
    BY <1>1, <1>2 DEF ListsSound, ListSound, Current, Sorted, Covers
  <1>4. RegionsEnd
    BY <1>2 DEF RegionsEnd
  <1>5. ReadSound(IdleReader)
    BY IdleReaderFields, IdleReaderLoads DEF ReadSound
  <1>6. ReadsSound
    BY <1>1, <1>5 DEF ReadsSound
  <1>7. QED
    BY <1>3, <1>4, <1>6 DEF SnapInv

(* A step that is not a read. *)
LEMMA StoreSound ==
  ASSUME OneWriter, Types, Types', LogInv, LogInv', SnapInv, Next, SegmentsMove,
         \/ \E e \in LogEpochs : NextEpoch(e)
         \/ Recycle
         \/ \E w \in Writers : LockStep(w) \/ StoreStep(w)
  PROVE  SnapInv'
  <1>1. ListsSound /\ RegionsEnd /\ ReadsSound
    BY DEF SnapInv
  <1>2. ListsSound' /\ ListsMove
    BY <1>1, ListsStep
  <1>3. BlocksMove /\ RegionsEnd'
    BY <1>1, <1>2, BlocksStep
  <1>4. ListsGrow
    BY ListStep
  <1>5. rd' = rd
    <2>1. ASSUME NEW w \in Writers, StoreStep(w) PROVE rd' = rd
      BY <2>1 DEF StoreStep, Inits, InitSegment, GrowBlock, SegmentFull, MergeSegment,
                  CreateTable, ReplaceTable, AppendEpoch, AppendEdge
    <2>2. QED
      BY <2>1, LockStepFrame DEF NextEpoch, Recycle
  <1>6. \A q : ReaderPast(q) /\ ReadSound(q) => ReadSound(q)'
    BY <1>1, <1>2, <1>3, <1>4, ReaderStays
  <1>7. \A q \in {rd[r] : r \in Readers} : ReaderPast(q) /\ ReadSound(q)
    BY <1>1 DEF ReadsSound, Types, ReaderTypes
  <1>8. \A q \in {rd'[r] : r \in Readers} : ReadSound(q)'
    BY <1>5, <1>6, <1>7
  <1>9. ReadsSound'
    BY <1>8 DEF ReadsSound
  <1>10. QED
    BY <1>2, <1>3, <1>9 DEF SnapInv

LEMMA SnapStep ==
  ASSUME OneWriter, Types, Types', LogInv, LogInv', SnapInv, [Next]_vars
  PROVE  SnapInv'
  <1>1. ASSUME Next, NEW e \in LogEpochs, NextEpoch(e) PROVE SnapInv'
    <2>1. segs' = segs /\ segptr' = segptr
      BY <1>1 DEF NextEpoch, store
    <2>2. QED
      BY <1>1, <2>1, SegmentsSame, StoreSound
  <1>2. ASSUME Next, Recycle PROVE SnapInv'
    <2>1. segs' = segs /\ segptr' = segptr
      BY <1>2 DEF Recycle
    <2>2. QED
      BY <1>2, <2>1, SegmentsSame, StoreSound
  <1>3. ASSUME Next, NEW w \in Writers, LockStep(w) \/ StoreStep(w) PROVE SnapInv'
    BY <1>3, SegmentsMoveStep, StoreSound
  <1>4. ASSUME UNCHANGED <<wepoch, hist, tabs, segptr, segs, blks, wr>>
        PROVE  ListsSound' = ListsSound /\ RegionsEnd' = RegionsEnd
    <2>1. \A s, v : Region(s, v)' = Region(s, v) /\ EpochTableOf(s, v)' = EpochTableOf(s, v)
      BY <1>4 DEF Region, EpochTableOf
    <2>2. \A b : End(b)' = End(b)
      BY <1>4 DEF End
    <2>3. QED
      BY <1>4, <2>1, <2>2 DEF ListsSound, ListSound, Current, EdgeWriter, RegionsEnd
  <1>5. ASSUME NEW r \in Readers, Read(r) PROVE SnapInv'
    <2>1. UNCHANGED <<wepoch, hist, tabs, segptr, segs, blks, wr>>
      BY <1>5, ReadFrame
    <2>2. ListsSound' /\ RegionsEnd'
      BY <1>4, <2>1 DEF SnapInv
    <2>3. ReadsSound'
      BY <1>5, ReadStep DEF SnapInv
    <2>4. QED
      BY <2>2, <2>3 DEF SnapInv
  <1>6. CASE UNCHANGED vars
    <2>1. UNCHANGED <<wepoch, hist, tabs, segptr, segs, blks, wr, rd>>
      BY <1>6 DEF vars, store, locks
    <2>2. ListsSound' /\ RegionsEnd'
      BY <1>4, <2>1 DEF SnapInv
    <2>3. \A q : ReadSound(q)' <=> ReadSound(q)
      <3>1. \A s, v : Region(s, v)' = Region(s, v) /\ EpochTableOf(s, v)' = EpochTableOf(s, v)
        BY <2>1 DEF Region, EpochTableOf
      <3>2. \A b : End(b)' = End(b)
        BY <2>1 DEF End
      <3>3. \A b, v : BlockOf(b, v)' <=> BlockOf(b, v)
        BY <2>1, <3>1, <3>2 DEF BlockOf
      <3>4. QED
        BY <2>1, <3>1, <3>2, <3>3 DEF ReadSound, BaseSound, LoadSound, NumSound, HasUpTo
    <2>4. ReadsSound'
      BY <2>1, <2>3 DEF ReadsSound, SnapInv
    <2>5. QED
      BY <2>2, <2>4 DEF SnapInv
  <1>7. QED
    BY <1>1, <1>2, <1>3, <1>5, <1>6, NextCases

(* The number of the epochs up to e. *)
LEMMA UpToCount ==
  ASSUME NEW h, NEW e, NEW n \in Nat, UpToIs(h, e, n), Len(h) \in Nat
  PROVE  Cardinality({i \in 1 .. Len(h) : h[i] <= e}) = n
  <1>1. {i \in 1 .. Len(h) : h[i] <= e} = 1 .. n
    BY DEF UpToIs
  <1>2. Cardinality(1 .. n) = n
    BY FS_Interval
  <1>3. QED
    BY <1>1, <1>2

(* A reader that no writer overtook while it loaded the block, the table    *)
(* and the count gets exactly the edges of the epochs up to its own, in the *)
(* order they were put: EdgeIterator's look-up of the epoch table and its   *)
(* walk down the chain agree with the log, whichever segment it located and *)
(* whatever was copied, linked or merged since.                             *)
THEOREM SnapshotCorrect ==
  ASSUME OneWriter
  PROVE  Spec => []SnapshotRead
  <1>1. Init => Types /\ LogInv /\ SnapInv
    BY InitTypes, LogInit0, SnapInit
  <1>2. Types /\ LogInv /\ SnapInv /\ [Next]_vars => Types' /\ LogInv' /\ SnapInv'
    BY TypesStep, LogStep, SnapStep
  <1>3. Types /\ SnapInv => SnapshotRead
    <2> SUFFICES ASSUME Types, SnapInv, NEW r \in Readers, rd[r].pc = "done", rd[r].view = "fresh"
                 PROVE  HasSnapshot(r)
      BY DEF SnapshotRead
    <2>1. PICK q : q = rd[r]
      OBVIOUS
    <2>2. ReadSound(q) /\ ReaderPast(q) /\ q.pc = "done" /\ q.view = "fresh"
      BY <2>1 DEF SnapInv, ReadsSound, Types, ReaderTypes
    <2>3. PICK n \in Nat : q.out = Iota(n) /\ UpToIs(hist[q.v], q.epoch, n)
      BY <2>2 DEF ReadSound, HasUpTo
    <2>4. Len(hist[q.v]) \in Nat
      BY <2>2, PastFields, ListTypesAt DEF Types
    <2>5. UpTo(q.v, q.epoch) = n
      BY <2>3, <2>4, UpToCount DEF UpTo
    <2>6. QED
      BY <2>1, <2>3, <2>5 DEF HasSnapshot
  <1>4. QED
    BY <1>1, <1>2, <1>3, PTL DEF Spec

-----------------------------------------------------------------------------
(* Sums over sets of vertices, as the size of a set: g[x] slots for each x. *)

Slots(g, T) == UNION {{x} \X (1 .. g[x]) : x \in T}

Total(g, T) == Cardinality(Slots(g, T))

(* A set of finite sets that is not empty has a smallest one. *)
LEMMA SmallestSet ==
  ASSUME NEW S, IsFiniteSet(S), NEW C \in SUBSET (SUBSET S), C # {}
  PROVE  \E b \in C : \A c \in C : c \subseteq b => c = b
  <1> DEFINE R == StrictSubsetOrdering(S)
  <1>1. C \subseteq FiniteSubsetsOf(S)
    BY FS_Subset DEF FiniteSubsetsOf
  <1>2. IsWellFoundedOn(R, FiniteSubsetsOf(S))
    BY FS_StrictSubsetOrderingWellFounded
  <1>3. PICK b \in C : \A c \in C : ~ (<<c, b>> \in R)
    <2> HIDE DEF R
    <2>1. QED
      BY <1>1, <1>2, WFMin
  <1>4. \A c \in C : c \subseteq b => c = b
    BY <1>3 DEF StrictSubsetOrdering
  <1>5. QED
    BY <1>4

LEMMA SlotsNone ==
  ASSUME NEW g
  PROVE  IsFiniteSet(Slots(g, {})) /\ Total(g, {}) = 0
  <1>1. Slots(g, {}) = {}
    BY DEF Slots
  <1>2. QED
    BY <1>1, FS_EmptySet DEF Total

LEMMA SlotsAdd ==
  ASSUME NEW g, NEW T, NEW x, x \notin T, g[x] \in Nat, IsFiniteSet(Slots(g, T))
  PROVE  /\ IsFiniteSet(Slots(g, T \cup {x}))
         /\ Total(g, T \cup {x}) = Total(g, T) + g[x]
         /\ Total(g, T) \in Nat
  <1>0. PICK A, B : A = Slots(g, T) /\ B = {x} \X (1 .. g[x])
    OBVIOUS
  <1>1. Slots(g, T \cup {x}) = A \cup B
    BY <1>0 DEF Slots
  <1>2. A \cap B = {}
    BY <1>0 DEF Slots
  <1>3. IsFiniteSet(B) /\ Cardinality(B) = g[x]
    <2>1. IsFiniteSet({x}) /\ Cardinality({x}) = 1
      BY FS_Singleton
    <2>2. PICK n \in Nat : n = g[x]
      OBVIOUS
    <2>3. IsFiniteSet(1 .. n) /\ Cardinality(1 .. n) = n
      <3>1. 1 \in Int /\ n \in Int /\ (IF 1 > n THEN 0 ELSE n - 1 + 1) = n
        OBVIOUS
      <3>2. QED
        BY <3>1, FS_Interval
    <2>4. IsFiniteSet({x} \X (1 .. n)) /\ Cardinality({x} \X (1 .. n)) = 1 * n
      BY <2>1, <2>3, FS_Product
    <2>5. QED
      BY <1>0, <2>2, <2>4
  <1>4. IsFiniteSet(A) /\ Cardinality(A) \in Nat
    BY <1>0, FS_CardinalityType
  <1>5. IsFiniteSet(A \cup B) /\ Cardinality(A \cup B) = Cardinality(A) + Cardinality(B)
    <2>1. IsFiniteSet(B) /\ Cardinality(B) \in Nat
      BY <1>3
    <2>2. /\ IsFiniteSet(A \cup B)
          /\ Cardinality(A \cup B) = Cardinality(A) + Cardinality(B) - Cardinality(A \cap B)
      BY ONLY <1>4, <2>1, FS_Union
    <2>3. Cardinality(A \cap B) = 0
      BY <1>2, FS_EmptySet
    <2>4. QED
      BY ONLY <1>4, <2>1, <2>2, <2>3
  <1>6. /\ Total(g, T) = Cardinality(A)
        /\ Total(g, T \cup {x}) = Cardinality(A \cup B)
    BY <1>0, <1>1 DEF Total
  <1>7. QED
    BY <1>1, <1>3, <1>4, <1>5, <1>6

LEMMA SlotsFinite ==
  ASSUME NEW S, IsFiniteSet(S), NEW g, \A x \in S : g[x] \in Nat
  PROVE  \A T \in SUBSET S : IsFiniteSet(Slots(g, T)) /\ Total(g, T) \in Nat
  <1> DEFINE Bad == {T \in SUBSET S : ~ IsFiniteSet(Slots(g, T))}
  <1>1. Bad = {}
    <2> SUFFICES ASSUME Bad # {} PROVE FALSE
      OBVIOUS
    <2>1. PICK b \in Bad : \A c \in Bad : c \subseteq b => c = b
      <3>1. Bad \in SUBSET (SUBSET S)
        OBVIOUS
      <3> HIDE DEF Bad
      <3>2. QED
        BY <3>1, SmallestSet
    <2>2. b # {}
      BY <2>1, SlotsNone
    <2>3. PICK x \in b : TRUE
      BY <2>2
    <2>4. PICK c : c = b \ {x}
      OBVIOUS
    <2>5. c \in SUBSET S /\ c \notin Bad /\ x \notin c /\ b = c \cup {x} /\ x \in S
      BY <2>1, <2>3, <2>4
    <2>6. IsFiniteSet(Slots(g, c \cup {x}))
      BY <2>5, SlotsAdd
    <2>7. QED
      BY <2>1, <2>5, <2>6
  <1>2. QED
    BY <1>1, FS_CardinalityType DEF Total

(* Taking one vertex out. *)
LEMMA TotalSplit ==
  ASSUME NEW S, IsFiniteSet(S), NEW g, \A x \in S : g[x] \in Nat,
         NEW T \in SUBSET S, NEW x \in T
  PROVE  /\ Total(g, T) = Total(g, T \ {x}) + g[x]
         /\ Total(g, T \ {x}) \in Nat /\ g[x] \in Nat
  <1>1. PICK c : c = T \ {x}
    OBVIOUS
  <1>2. c \in SUBSET S /\ x \notin c /\ T = c \cup {x} /\ x \in S
    BY <1>1
  <1>3. IsFiniteSet(Slots(g, c))
    BY <1>2, SlotsFinite
  <1>4. Total(g, c \cup {x}) = Total(g, c) + g[x] /\ Total(g, c) \in Nat
    BY <1>2, <1>3, SlotsAdd
  <1>5. QED
    BY <1>1, <1>2, <1>4

LEMMA TotalSame ==
  ASSUME NEW T, NEW g, NEW h, \A x \in T : g[x] = h[x]
  PROVE  Total(g, T) = Total(h, T)
  <1>1. Slots(g, T) = Slots(h, T)
    BY DEF Slots
  <1>2. QED
    BY <1>1 DEF Total

(* Vertices without slots add nothing. *)
LEMMA TotalPart ==
  ASSUME NEW S, NEW T \in SUBSET S, NEW g, \A x \in S \ T : g[x] = 0
  PROVE  Total(g, S) = Total(g, T)
  <1>1. \A x \in S \ T : 1 .. g[x] = {}
    OBVIOUS
  <1>2. Slots(g, S) = Slots(g, T)
    BY <1>1 DEF Slots
  <1>3. QED
    BY <1>2 DEF Total

(* One vertex gets at most k more slots. *)
LEMMA TotalGrows ==
  ASSUME NEW S, IsFiniteSet(S), NEW g, NEW h, NEW v \in S, NEW k \in Nat,
         \A x \in S : g[x] \in Nat /\ h[x] \in Nat,
         \A x \in S \ {v} : h[x] = g[x],
         h[v] <= g[v] + k
  PROVE  Total(h, S) <= Total(g, S) + k
  <1>1. Total(h, S \ {v}) = Total(g, S \ {v})
    BY TotalSame
  <1>2. /\ Total(g, S) = Total(g, S \ {v}) + g[v]
        /\ Total(g, S \ {v}) \in Nat /\ g[v] \in Nat
    BY TotalSplit
  <1>3. Total(h, S) = Total(h, S \ {v}) + h[v] /\ h[v] \in Nat
    BY TotalSplit
  <1>4. QED
    BY <1>1, <1>2, <1>3

(* Twice as much for each is twice as much in all. *)
LEMMA TotalDoubled ==
  ASSUME NEW S, IsFiniteSet(S), NEW g, NEW h,
         \A x \in S : g[x] \in Nat /\ h[x] \in Nat /\ h[x] <= 2 * g[x]
  PROVE  Total(h, S) <= 2 * Total(g, S)
  <1> DEFINE Bad == {T \in SUBSET S : ~ (Total(h, T) <= 2 * Total(g, T))}
  <1>1. Bad = {}
    <2> SUFFICES ASSUME Bad # {} PROVE FALSE
      OBVIOUS
    <2>1. PICK b \in Bad : \A c \in Bad : c \subseteq b => c = b
      <3>1. Bad \in SUBSET (SUBSET S)
        OBVIOUS
      <3> HIDE DEF Bad
      <3>2. QED
        BY <3>1, SmallestSet
    <2>2. b # {}
      <3>1. Total(h, {}) = 0 /\ Total(g, {}) = 0
        BY SlotsNone
      <3>2. Total(h, {}) <= 2 * Total(g, {})
        BY ONLY <3>1
      <3>3. {} \notin Bad
        BY <3>2
      <3> HIDE DEF Bad
      <3>4. QED
        BY <2>1, <3>3
    <2>3. PICK x \in b : TRUE
      BY <2>2
    <2>4. PICK c : c = b \ {x}
      OBVIOUS
    <2>5. c \in SUBSET S /\ b \in SUBSET S /\ c \notin Bad /\ x \in S
      BY <2>1, <2>3, <2>4
    <2>6. Total(h, c) <= 2 * Total(g, c)
      BY <2>5
    <2>7. /\ Total(g, b) = Total(g, c) + g[x] /\ Total(g, c) \in Nat /\ g[x] \in Nat
          /\ Total(h, b) = Total(h, c) + h[x] /\ Total(h, c) \in Nat /\ h[x] \in Nat
      BY <2>4, <2>5, TotalSplit
    <2>8. h[x] <= 2 * g[x]
      BY <2>5
    <2>9. Total(h, b) <= 2 * Total(g, b)
      BY ONLY <2>6, <2>7, <2>8
    <2>10. QED
      BY <2>1, <2>9
  <1>2. QED
    BY <1>1

(* The sum as the fold adds it up. *)
SumsTo(S, g, f) ==
  f = [T \in SUBSET S |->
         IF T = {} THEN 0
         ELSE g[CHOOSE x \in T : TRUE] + f[T \ {CHOOSE x \in T : TRUE}]]

LEMMA SumExists ==
  ASSUME NEW S, IsFiniteSet(S), NEW g, \A x \in S : g[x] \in Nat
  PROVE  SumsTo(S, g, [T \in SUBSET S |-> Total(g, T)])
  <1> DEFINE f == [T \in SUBSET S |-> Total(g, T)]
  <1>1. ASSUME NEW T \in SUBSET S
        PROVE  f[T] = IF T = {} THEN 0
                      ELSE g[CHOOSE x \in T : TRUE] + f[T \ {CHOOSE x \in T : TRUE}]
    <2>1. CASE T = {}
      BY <2>1, SlotsNone
    <2>2. CASE T # {}
      <3>1. PICK x : x = CHOOSE y \in T : TRUE
        OBVIOUS
      <3>2. x \in T
        BY <2>2, <3>1
      <3>3. /\ Total(g, T) = Total(g, T \ {x}) + g[x]
            /\ Total(g, T \ {x}) \in Nat /\ g[x] \in Nat
        BY <3>2, TotalSplit
      <3>4. f[T] = Total(g, T) /\ f[T \ {x}] = Total(g, T \ {x})
        OBVIOUS
      <3> HIDE DEF f
      <3>5. f[T] = g[x] + f[T \ {x}]
        BY <3>3, <3>4
      <3>6. QED
        BY <2>2, <3>1, <3>5
    <2>3. QED
      BY <2>1, <2>2
  <1>2. f = [T \in SUBSET S |-> f[T]]
    OBVIOUS
  <1> HIDE DEF f
  <1>3. SumsTo(S, g, f)
    BY <1>1, <1>2 DEF SumsTo
  <1>4. QED
    BY <1>3 DEF f

LEMMA SumIsTotal ==
  ASSUME NEW S, IsFiniteSet(S), NEW g, \A x \in S : g[x] \in Nat, NEW f, SumsTo(S, g, f)
  PROVE  f[S] = Total(g, S)
  <1> DEFINE Bad == {T \in SUBSET S : f[T] # Total(g, T)}
  <1>1. Bad = {}
    <2> SUFFICES ASSUME Bad # {} PROVE FALSE
      OBVIOUS
    <2>0. \A T \in SUBSET S : f[T] = IF T = {} THEN 0
            ELSE g[CHOOSE x \in T : TRUE] + f[T \ {CHOOSE x \in T : TRUE}]
      BY DEF SumsTo
    <2>1. PICK b \in Bad : \A c \in Bad : c \subseteq b => c = b
      <3>1. Bad \in SUBSET (SUBSET S)
        OBVIOUS
      <3> HIDE DEF Bad
      <3>2. QED
        BY <3>1, SmallestSet
    <2>2. b \in SUBSET S /\ f[b] # Total(g, b)
      BY <2>1
    <2>3. b # {}
      BY <2>0, <2>2, SlotsNone
    <2>4. PICK x : x = CHOOSE y \in b : TRUE
      OBVIOUS
    <2>5. x \in b
      BY <2>3, <2>4
    <2>6. f[b] = g[x] + f[b \ {x}]
      BY <2>0, <2>2, <2>3, <2>4
    <2>7. PICK c : c = b \ {x}
      OBVIOUS
    <2>8. c \in SUBSET S /\ c \notin Bad
      BY <2>1, <2>2, <2>5, <2>7
    <2>9. f[c] = Total(g, c)
      BY <2>8
    <2>10. /\ Total(g, b) = Total(g, c) + g[x]
           /\ Total(g, c) \in Nat /\ g[x] \in Nat
      BY <2>2, <2>5, <2>7, TotalSplit
    <2>11. QED
      BY <2>2, <2>6, <2>7, <2>9, <2>10
  <1>2. QED
    BY <1>1

(* What the merged blocks take. *)
SlotsFor(s, v) == [u \in Vertices |-> BlockSlots(MergedOrder(s, u, v))]

MergeSums(s, v, M, f) ==
  f = [T \in SUBSET M |->
         IF T = {} THEN 0
         ELSE BlockSlots(MergedOrder(s, CHOOSE x \in T : TRUE, v))
                + f[T \ {CHOOSE x \in T : TRUE}]]

LEMMA MergedSlotsTotal ==
  ASSUME NEW s, NEW v, NEW M, M = Merged(s, v),
         \A u \in Vertices : BlockSlots(MergedOrder(s, u, v)) \in Nat
  PROVE  MergedSlots(s, v) = Total(SlotsFor(s, v), M)
  <1> DEFINE sum == CHOOSE f : MergeSums(s, v, M, f)
             g == SlotsFor(s, v)
  <1>1. MergedSlots(s, v) = sum[M]
    BY DEF MergedSlots, MapThenSumSet, MapThenFoldSet, MergeSums
  <1>2. M \subseteq Vertices /\ IsFiniteSet(M)
    BY FS_Subset, SegGraphAssumption DEF Merged
  <1>3. \A x \in M : g[x] = BlockSlots(MergedOrder(s, x, v)) /\ g[x] \in Nat
    BY <1>2 DEF SlotsFor
  <1> HIDE DEF g
  <1>4. ASSUME NEW f PROVE MergeSums(s, v, M, f) <=> SumsTo(M, g, f)
    <2>1. ASSUME NEW T \in SUBSET M, T # {}
          PROVE  g[CHOOSE x \in T : TRUE]
                   = BlockSlots(MergedOrder(s, CHOOSE x \in T : TRUE, v))
      BY <1>3, <2>1
    <2>2. [T \in SUBSET M |->
             IF T = {} THEN 0
             ELSE BlockSlots(MergedOrder(s, CHOOSE x \in T : TRUE, v))
                    + f[T \ {CHOOSE x \in T : TRUE}]]
           = [T \in SUBSET M |->
                IF T = {} THEN 0
                ELSE g[CHOOSE x \in T : TRUE] + f[T \ {CHOOSE x \in T : TRUE}]]
      BY <2>1
    <2>3. QED
      BY <2>2 DEF MergeSums, SumsTo
  <1>5. \E f : MergeSums(s, v, M, f)
    BY <1>2, <1>3, <1>4, SumExists
  <1>6. SumsTo(M, g, sum)
    BY <1>4, <1>5
  <1> HIDE DEF sum
  <1>7. sum[M] = Total(g, M)
    BY <1>2, <1>3, <1>6, SumIsTotal
  <1>8. QED
    BY <1>1, <1>7 DEF g

-----------------------------------------------------------------------------
(* A merge finds room: each segment is twice as large as the one before,    *)
(* and no merged block needs more than twice what its vertex had.           *)

(* Slots that a block stands for, with the entries that lie behind it. *)
Held(b) == IF b = 0 THEN 0 ELSE blks[b].prevnum + BlockSlots(blks[b].order)

(* The slots of the segments that memory lets be allocated. *)
LEMMA SlotsGrow ==
  /\ MemLimit \in Nat
  /\ \A k \in 1 .. MemLimit : SegSlots[k] \in Nat /\ SegSlots[k] >= 2
  /\ \A k \in 1 .. MemLimit : k + 1 <= MemLimit => SegSlots[k + 1] >= 2 * SegSlots[k]
  <1>1. MemLimit \in Nat
    BY SegGraphAssumption
  <1>2. PICK n \in Nat : n = Len(SegSlots) /\ MemLimit <= n
    BY SegSlotsAssumption
  <1>3. \A k \in 1 .. n : SegSlots[k] \in Nat /\ SegSlots[k] >= 2
    BY <1>2, SegSlotsAssumption
  <1>4. \A k \in 1 .. n - 1 : SegSlots[k + 1] >= 2 * SegSlots[k]
    BY <1>2, SegGraphAssumption
  <1>5. ASSUME NEW k \in 1 .. MemLimit
        PROVE  k \in 1 .. n /\ (k + 1 <= MemLimit => k \in 1 .. n - 1)
    BY ONLY <1>1, <1>2, k \in 1 .. MemLimit
  <1>6. QED
    BY <1>1, <1>3, <1>4, <1>5

LEMMA SlotsNat ==
  ASSUME NEW o \in Nat
  PROVE  BlockSlots(o) \in Nat /\ BlockSlots(o) = 3 + Pow2[o] /\ Pow2[o] \in Nat
  BY Pow2Nat DEF BlockSlots

LEMMA HeldType ==
  ASSUME BlockTypes
  PROVE  /\ \A b \in 0 .. Len(blks) : Held(b) \in Nat
         /\ \A b \in 1 .. Len(blks) :
              /\ Held(b) = blks[b].prevnum + BlockSlots(blks[b].order)
              /\ BlockSlots(blks[b].order) \in Nat
  <1>1. ASSUME NEW b \in 1 .. Len(blks)
        PROVE  /\ Held(b) \in Nat
               /\ Held(b) = blks[b].prevnum + BlockSlots(blks[b].order)
               /\ BlockSlots(blks[b].order) \in Nat
    <2>1. blks[b].prevnum \in Nat /\ blks[b].order \in Nat /\ b # 0
      BY BlockFields
    <2>2. BlockSlots(blks[b].order) \in Nat
      BY <2>1, SlotsNat
    <2>3. QED
      BY <2>1, <2>2 DEF Held
  <1>2. Held(0) = 0
    BY DEF Held
  <1>3. Len(blks) \in Nat
    BY DEF BlockTypes
  <1>4. QED
    BY <1>1, <1>2, <1>3

(* size_to_order returns the least order: less than twice what was asked. *)
LEMMA OrderTight ==
  ASSUME NEW n \in Nat, n >= 1
  PROVE  SizeToOrder(n) \in Nat /\ Pow2[SizeToOrder(n)] <= 2 * n - 1
  <1> DEFINE Holds == {o \in Nat : Pow2[o] >= n}
  <1>1. n \in Holds
    BY Pow2Facts
  <1>2. PICK p \in Holds : \A y \in Holds : p <= y
    BY <1>1, LeastNumber
  <1>3. p \in 0 .. n /\ Pow2[p] >= n
    BY <1>1, <1>2
  <1>4. p = 0 \/ Pow2[p - 1] < n
    <2> SUFFICES ASSUME p # 0 PROVE Pow2[p - 1] < n
      OBVIOUS
    <2>1. p - 1 \in Nat /\ p - 1 \notin Holds
      BY <1>2, <1>3
    <2>2. Pow2[p - 1] \in Nat
      BY <2>1, Pow2Facts
    <2>3. QED
      BY <2>1, <2>2
  <1>5. PICK o : o = SizeToOrder(n)
    OBVIOUS
  <1>6. o \in 0 .. n /\ (o = 0 \/ Pow2[o - 1] < n)
    BY <1>3, <1>4, <1>5 DEF SizeToOrder
  <1>7. CASE o = 0
    BY <1>5, <1>7, Pow2Facts
  <1>8. CASE o # 0
    <2>1. o - 1 \in Nat /\ o - 1 + 1 = o
      BY <1>6, <1>8
    <2>2. Pow2[o - 1 + 1] = 2 * Pow2[o - 1] /\ Pow2[o - 1] \in Nat
      BY <2>1, Pow2Facts
    <2>3. QED
      BY <1>5, <1>6, <1>8, <2>1, <2>2
  <1>9. QED
    BY <1>7, <1>8

-----------------------------------------------------------------------------
(* With any number of writers: the chains keep every edge. *)

ChainEquations ==
  /\ Chain(0) = << >>
  /\ \A b \in 1 .. Len(blks) : Chain(b) = Chain(blks[b].prev) \o blks[b].ents
  /\ \A b \in 0 .. Len(blks) : Chain(b) \in Seq(Nat) /\ Len(Chain(b)) \in Nat

LEMMA ChainsNext == BlockTypes' => ChainEquations'
  <1>1. BlockTypes => ChainEquations
    <2> SUFFICES ASSUME BlockTypes PROVE ChainEquations
      OBVIOUS
    <2>1. \A b \in 0 .. Len(blks) : Chain(b) \in Seq(Nat) /\ Len(Chain(b)) \in Nat
      <3>1. \A q \in Seq(Nat) : Len(q) \in Nat
        OBVIOUS
      <3>2. QED
        BY <3>1, ChainType
    <2>2. QED
      BY <2>1, ChainDef DEF ChainEquations
  <1>2. QED
    BY <1>1, PTL

(* Only the chain of the block that gets an entry changes. *)
LEMMA ChainsKept ==
  ASSUME BlockTypes, BlockTypes', Len(blks) <= Len(blks'), NEW x, x # 0,
         \A b \in 1 .. Len(blks) :
           /\ blks'[b].prev = blks[b].prev
           /\ blks[b].prev # x
           /\ b # x => blks'[b].ents = blks[b].ents
  PROVE  \A b \in 0 .. Len(blks) : b # x => Chain(b)' = Chain(b)
  <1>0. Len(blks) \in Nat /\ Len(blks') \in Nat
    BY DEF BlockTypes
  <1>1. ChainEquations'
    BY ChainsNext
  <1>2. /\ Chain(0) = << >> /\ Chain(0)' = << >>
        /\ \A b \in 1 .. Len(blks) : Chain(b) = Chain(blks[b].prev) \o blks[b].ents
    BY <1>1, ChainDef DEF ChainEquations
  <1>3. ASSUME NEW b \in 1 .. Len(blks), NEW p, p = blks[b].prev, b # x
        PROVE  Chain(b)' = Chain(p)' \o blks[b].ents
    <2>1. b \in 1 .. Len(blks')
      BY <1>0
    <2>2. Chain(b)' = (Chain(blks[b].prev) \o blks[b].ents)'
      BY <1>1, <2>1 DEF ChainEquations
    <2>3. blks'[b].prev = p /\ blks'[b].ents = blks[b].ents
      BY <1>3
    <2>4. QED
      BY <2>2, <2>3
  <1> DEFINE Bad == {b \in Nat : b <= Len(blks) /\ b # x /\ Chain(b)' # Chain(b)}
  <1> SUFFICES ASSUME Bad # {} PROVE FALSE
    BY <1>0
  <1>4. PICK b \in Bad : \A c \in Bad : b <= c
    BY LeastNumber
  <1>5. b \in Nat /\ b <= Len(blks) /\ b # x /\ Chain(b)' # Chain(b)
    BY <1>4
  <1>6. b # 0
    BY <1>2, <1>5
  <1>7. b \in 1 .. Len(blks)
    BY <1>0, <1>5, <1>6
  <1>8. PICK p : p = blks[b].prev
    OBVIOUS
  <1>9. p \in 0 .. b - 1 /\ p # x
    BY <1>7, <1>8, BlockFields
  <1>10. p \in Nat /\ p <= Len(blks) /\ ~ (b <= p)
    BY <1>0, <1>5, <1>9
  <1>11. Chain(p)' = Chain(p)
    BY <1>4, <1>9, <1>10
  <1>12. Chain(b) = Chain(p) \o blks[b].ents
    BY <1>2, <1>7, <1>8
  <1>13. QED
    BY <1>3, <1>5, <1>7, <1>8, <1>11, <1>12

-----------------------------------------------------------------------------
Increasing(c) == \A j, k \in 1 .. Len(c) : j < k => c[j] < c[k]

(* A block holds no more than its order allows and counts what is behind it. *)
BlockKept(b) ==
  /\ blks[b].prevnum = Len(Chain(blks[b].prev))
  /\ blks[b].prev # 0 => blks[b].order >= COPY_THRESHOLD_ORDER
  /\ Len(blks[b].ents) <= Pow2[blks[b].order]

BlocksCounted == \A b \in 1 .. Len(blks) : BlockKept(b)

(* Segments and vertices share no block. *)
NoneShared ==
  \A s, t \in 1 .. Len(segs), u, v \in Vertices :
    segs[s].region[u] = segs[t].region[v] /\ segs[s].region[u] # 0 => s = t /\ u = v

(* A block with another one in front of it is written no more. *)
FrontBlocks ==
  \A b \in 1 .. Len(blks), s \in 1 .. Len(segs), v \in Vertices :
    blks[b].prev # 0 => blks[b].prev # segs[s].region[v]

(* Chains go up, to edges that were put, and every edge is in one. *)
ChainOrdered(c, n) == Increasing(c) /\ \A k \in 1 .. Len(c) : c[k] <= n

ChainsOrdered ==
  \A s \in 1 .. Len(segs), v \in Vertices :
    ChainOrdered(Chain(segs[s].region[v]), Len(hist[v]))

EdgesChained ==
  \A v \in Vertices : \A i \in 1 .. Len(hist[v]) : \E s \in 1 .. Len(segs) : InChain(s, v, i)

KeptStore == BlocksCounted /\ NoneShared /\ FrontBlocks /\ ChainsOrdered /\ EdgesChained

HoldsBlock(q) == q.blk = segs[q.seg].region[q.v] /\ HasSpace(q.blk)

(* A writer has its vertex to itself, and room for the edge it puts. *)
WriterKept(w) ==
  LET q == wr[w] IN
  /\ q.pc \notin {"idle", "futex"} => futex[q.v] = w
  /\ q.pc = "init" => q.seg = 0 /\ q.blk = 0
  /\ q.pc = "reshare" => q.blk = 0 \/ HoldsBlock(q)
  /\ q.pc \in {"table", "append", "edge"} => HoldsBlock(q)

KeptInv == KeptStore /\ \A w \in Writers : WriterKept(w)

(* The chain a segment has for a vertex. *)
LEMMA RegionChain ==
  ASSUME Types, NEW s \in 1 .. Len(segs), NEW v \in Vertices
  PROVE  /\ segs[s].region[v] \in 0 .. Len(blks)
         /\ Chain(segs[s].region[v]) \in Seq(Nat)
         /\ Len(Chain(segs[s].region[v])) \in Nat
         /\ Len(hist[v]) \in Nat
         /\ Len(blks) \in Nat
  <1>1. Len(blks) \in Nat /\ Len(hist[v]) \in Nat
    BY DEF Types, BlockTypes, ListTypes
  <1>2. segs[s].region \in [Vertices -> 0 .. Len(blks)]
    BY SegmentFields DEF Types
  <1>3. segs[s].region[v] \in 0 .. Len(blks)
    BY <1>2
  <1>4. Chain(segs[s].region[v]) \in Seq(Nat)
    BY <1>3, ChainType DEF Types
  <1>5. \A q \in Seq(Nat) : Len(q) \in Nat
    OBVIOUS
  <1>6. QED
    BY <1>1, <1>3, <1>4, <1>5

(* The block put_edge adds has the chain of the full one, and room. *)
Succeeds(y, o, b) ==
  /\ y.order = o /\ o \in Nat
  /\ y.prev \in {0, b}
  /\ Joined(Chain(y.prev), y.ents) = Chain(b)
  /\ y.prevnum = Len(Chain(y.prev))
  /\ y.prev # 0 => y.order >= COPY_THRESHOLD_ORDER
  /\ Len(y.ents) \in Nat /\ Len(y.ents) < Pow2[y.order]

LEMMA NewBlockKept ==
  ASSUME BlockTypes, NEW b \in 0 .. Len(blks), b # 0 => BlockKept(b)
  PROVE  Succeeds(NewBlock(b, NewBlockOrder(b)), NewBlockOrder(b), b)
  <1>a. PICK o, y : o = NewBlockOrder(b) /\ y = NewBlock(b, o)
    OBVIOUS
  <1> SUFFICES Succeeds(y, o, b)
    BY <1>a
  <1>1. /\ Chain(0) = << >> /\ Chain(b) \in Seq(Nat) /\ o \in Nat
        /\ Pow2[o] \in Nat /\ Pow2[o] > o /\ Len(<< >>) = 0
        /\ COPY_THRESHOLD_ORDER \in Nat
    BY <1>a, ChainDef, ChainType, NewOrderType, Pow2Nat, SegGraphAssumption
  <1>2. y.order = o
    BY <1>a DEF NewBlock
  <1>3. CASE o >= COPY_THRESHOLD_ORDER
    <2>1. /\ y.prev = b /\ y.ents = << >>
          /\ y.prevnum = IF b = 0 THEN 0 ELSE blks[b].prevnum + Len(blks[b].ents)
      BY <1>a, <1>3 DEF NewBlock
    <2>2. Joined(Chain(b), << >>) = Chain(b)
      BY <1>1 DEF Joined
    <2>3. y.prevnum = Len(Chain(b))
      <3>1. CASE b = 0
        BY <1>1, <2>1, <3>1
      <3>2. CASE b # 0
        <4>1. PICK p, q : p = Chain(blks[b].prev) /\ q = blks[b].ents
          OBVIOUS
        <4>2. /\ b \in 1 .. Len(blks) /\ p \in Seq(Nat) /\ q \in Seq(Nat)
              /\ Chain(b) = p \o q /\ blks[b].prevnum = Len(p)
          <5>1. b \in 1 .. Len(blks) /\ blks[b].prev \in 0 .. Len(blks)
            BY <3>2, BlockFields
          <5>2. QED
            BY <3>2, <4>1, <5>1, BlockFields, ChainDef, ChainType DEF BlockKept
        <4>3. Len(p \o q) = Len(p) + Len(q)
          BY <4>2
        <4>4. QED
          BY <2>1, <3>2, <4>1, <4>2, <4>3
      <3>3. QED
        BY <3>1, <3>2
    <2>4. QED
      BY <1>1, <1>2, <1>3, <2>1, <2>2, <2>3 DEF Succeeds
  <1>4. CASE ~ (o >= COPY_THRESHOLD_ORDER)
    <2>1. /\ y.prev = 0 /\ y.prevnum = 0
          /\ y.ents = IF b = 0 THEN << >> ELSE blks[b].ents
      BY <1>a, <1>4 DEF NewBlock
    <2>2. CASE b = 0
      <3>1. Joined(<< >>, << >>) = << >>
        BY DEF Joined
      <3>2. QED
        BY <1>1, <1>2, <2>1, <2>2, <3>1 DEF Succeeds
    <2>3. CASE b # 0
      <3>1. PICK k, q : k = blks[b].order /\ q = blks[b].ents
        OBVIOUS
      <3>2. /\ b \in 1 .. Len(blks) /\ k \in Nat /\ q \in Seq(Nat) /\ Len(q) \in Nat
            /\ BlockKept(b) /\ o = k + 1
        BY <1>a, <2>3, <3>1, BlockFields DEF NewBlockOrder
      <3>3. blks[b].prev = 0
        BY <1>1, <1>4, <3>1, <3>2 DEF BlockKept
      <3>4. << >> \o q = q /\ Joined(<< >>, q) = q
        BY <3>2 DEF Joined
      <3>5. Chain(b) = q
        BY <1>1, <3>1, <3>2, <3>3, <3>4, ChainDef
      <3>6. Len(q) < Pow2[o]
        <4>1. Len(q) <= Pow2[k] /\ Pow2[k] \in Nat /\ Pow2[k] > k /\ Pow2[k + 1] = 2 * Pow2[k]
          BY <3>1, <3>2, Pow2Facts DEF BlockKept
        <4>2. QED
          BY <3>2, <4>1
      <3>7. QED
        BY <1>1, <1>2, <2>1, <2>3, <3>1, <3>2, <3>4, <3>5, <3>6 DEF Succeeds
    <2>4. QED
      BY <2>2, <2>3
  <1>5. QED
    BY <1>3, <1>4

(* Steps that leave blocks and histories alone, and no new segment has one. *)
LEMMA KeptAdded ==
  ASSUME Types, KeptStore, blks' = blks, hist' = hist,
         Len(segs') \in Nat, Len(segs) <= Len(segs'),
         \A s \in 1 .. Len(segs) : segs'[s].region = segs[s].region,
         \A s \in Len(segs) + 1 .. Len(segs'), v \in Vertices : segs'[s].region[v] = 0
  PROVE  KeptStore'
  <1>0. Len(segs) \in Nat /\ Len(blks) \in Nat /\ BlockTypes /\ BlockTypes'
    BY BlocksSame DEF Types, SegTypes, BlockTypes
  <1>1. \A b \in 0 .. Len(blks) : Chain(b)' = Chain(b)
    <2>1. PICK x : x = Len(blks) + 1
      OBVIOUS
    <2>2. \A b \in 1 .. Len(blks) :
            /\ blks'[b].prev = blks[b].prev
            /\ blks[b].prev # x
            /\ b # x => blks'[b].ents = blks[b].ents
      BY <1>0, <2>1, BlockFields
    <2>3. x # 0 /\ (\A b \in 0 .. Len(blks) : b # x) /\ Len(blks) <= Len(blks')
      BY <1>0, <2>1
    <2>4. \A b \in 0 .. Len(blks) : b # x => Chain(b)' = Chain(b)
      BY ONLY <1>0, <2>2, <2>3, ChainsKept
    <2>5. QED
      BY <2>3, <2>4
  <1>2. ASSUME NEW s \in 1 .. Len(segs'), NEW v \in Vertices
        PROVE  \/ s \in 1 .. Len(segs) /\ segs'[s].region[v] = segs[s].region[v]
               \/ segs'[s].region[v] = 0
    <2>1. s \in 1 .. Len(segs) \/ s \in Len(segs) + 1 .. Len(segs')
      BY ONLY <1>0, Len(segs') \in Nat, s \in 1 .. Len(segs')
    <2>2. QED
      BY <2>1
  <1>3. BlocksCounted'
    <2>1. ASSUME NEW b \in 1 .. Len(blks) PROVE BlockKept(b)'
      <3>1. PICK p : p = blks[b].prev
        OBVIOUS
      <3>2. p \in 0 .. Len(blks) /\ blks'[b] = blks[b] /\ BlockKept(b)
        <4>1. p \in 0 .. b - 1
          BY <1>0, <3>1, BlockFields
        <4>2. p \in 0 .. Len(blks)
          BY ONLY <1>0, <4>1, b \in 1 .. Len(blks)
        <4>3. BlockKept(b)
          BY DEF KeptStore, BlocksCounted
        <4>4. QED
          BY <4>2, <4>3
      <3>3. Chain(p)' = Chain(p)
        BY <1>1, <3>2
      <3>4. QED
        BY <3>1, <3>2, <3>3 DEF BlockKept
    <2>2. QED
      BY <2>1 DEF BlocksCounted
  <1>4. NoneShared'
    <2> SUFFICES ASSUME NEW s \in 1 .. Len(segs'), NEW t \in 1 .. Len(segs'),
                        NEW u \in Vertices, NEW v \in Vertices,
                        segs'[s].region[u] = segs'[t].region[v], segs'[s].region[u] # 0
                 PROVE  s = t /\ u = v
      BY DEF NoneShared
    <2>1. /\ s \in 1 .. Len(segs) /\ segs'[s].region[u] = segs[s].region[u]
          /\ t \in 1 .. Len(segs) /\ segs'[t].region[v] = segs[t].region[v]
      BY <1>2
    <2>2. segs[s].region[u] = segs[t].region[v] /\ segs[s].region[u] # 0
      BY <2>1
    <2>3. NoneShared
      BY DEF KeptStore
    <2>4. QED
      BY ONLY <2>1, <2>2, <2>3, u \in Vertices, v \in Vertices DEF NoneShared
  <1>5. FrontBlocks'
    BY <1>2 DEF KeptStore, FrontBlocks
  <1>6. ChainsOrdered'
    <2> SUFFICES ASSUME NEW s \in 1 .. Len(segs'), NEW v \in Vertices
                 PROVE  ChainOrdered(Chain(segs[s].region[v]), Len(hist[v]))'
      BY DEF ChainsOrdered
    <2>1. PICK b : b = segs'[s].region[v]
      OBVIOUS
    <2>2. b \in 0 .. Len(blks) /\ ChainOrdered(Chain(b), Len(hist[v]))
      <3>1. CASE b = 0
        <4>1. Chain(0) = << >> /\ Len(<< >>) = 0
          BY <1>0, ChainDef
        <4>2. QED
          BY <1>0, <3>1, <4>1 DEF ChainOrdered, Increasing
      <3>2. CASE s \in 1 .. Len(segs) /\ b = segs[s].region[v]
        BY <3>2, RegionChain DEF KeptStore, ChainsOrdered
      <3>3. QED
        BY <1>2, <2>1, <3>1, <3>2
    <2>3. Chain(b)' = Chain(b)
      BY <1>1, <2>2
    <2>4. QED
      BY <2>1, <2>2, <2>3 DEF ChainOrdered, Increasing
  <1>7. EdgesChained'
    <2> SUFFICES ASSUME NEW v \in Vertices, NEW i \in 1 .. Len(hist[v])
                 PROVE  \E s \in 1 .. Len(segs') : InChain(s, v, i)'
      BY DEF EdgesChained
    <2>1. PICK s \in 1 .. Len(segs) : InChain(s, v, i)
      BY DEF KeptStore, EdgesChained
    <2>2. PICK b : b = segs[s].region[v]
      OBVIOUS
    <2>3. segs'[s].region[v] = b /\ b \in 0 .. Len(blks) /\ s \in 1 .. Len(segs')
      BY <1>0, <2>2, RegionChain
    <2>4. Chain(b)' = Chain(b)
      BY <1>1, <2>3
    <2>5. InChain(s, v, i)'
      BY <2>1, <2>2, <2>3, <2>4 DEF InChain
    <2>6. QED
      BY <2>3, <2>5
  <1>8. QED
    BY <1>3, <1>4, <1>5, <1>6, <1>7 DEF KeptStore

(* The new block has the chain of the one it replaces. *)
LEMMA KeptGrow ==
  ASSUME Types, KeptStore, Next, NEW w \in Writers, GrowBlock(w),
         NEW s, s = wr[w].seg, NEW v, v = wr[w].v, NEW n, n = Len(blks) + 1
  PROVE  /\ KeptStore'
         /\ segs'[s].region[v] = n /\ HasSpace(n)'
         /\ \A t \in 1 .. Len(segs), u \in Vertices :
              ~ (t = s /\ u = v) => segs'[t].region[u] = segs[t].region[u]
  <1>1. PICK b, o : b = Region(s, v) /\ o = NewBlockOrder(b)
    OBVIOUS
  <1>2. PICK y : y = NewBlock(b, o)
    OBVIOUS
  <1>3. /\ b \in 0 .. Len(blks) /\ blks' = Append(blks, y) /\ y \in Block
        /\ blks \in Seq(Block) /\ Len(blks) \in Nat
    BY <1>1, <1>2, GrowBlocks DEF Types, BlockTypes
  <1>4. /\ s \in 1 .. Len(segs) /\ v \in Vertices /\ Len(segs') = Len(segs)
        /\ segs'[s].region = [segs[s].region EXCEPT ![v] = n]
        /\ \A t \in 1 .. Len(segs) : t # s => segs'[t] = segs[t]
    BY <1>1, GrowSegs DEF OtherSegsKept
  <1>5. /\ b = segs[s].region[v] /\ segs[s].region \in [Vertices -> 0 .. Len(blks)]
        /\ Len(segs) \in Nat /\ s # 0
    <2>1. Len(segs) \in Nat /\ s # 0
      BY <1>4 DEF Types, SegTypes
    <2>2. segs[s].region \in [Vertices -> 0 .. Len(blks)]
      BY <1>4, SegmentFields DEF Types
    <2>3. b = segs[s].region[v]
      BY <1>1, <2>1 DEF Region
    <2>4. QED
      BY <2>1, <2>2, <2>3
  <1>6. /\ n \in Nat /\ n # 0 /\ blks'[n] = y /\ Len(blks') = n
        /\ \A c \in 1 .. Len(blks) : blks'[c] = blks[c]
    BY <1>1, <1>3
  <1>7. /\ y.prev \in {0, b} /\ Joined(Chain(y.prev), y.ents) = Chain(b)
        /\ y.prevnum = Len(Chain(y.prev))
        /\ y.prev # 0 => y.order >= COPY_THRESHOLD_ORDER
        /\ Len(y.ents) < Pow2[y.order] /\ Len(y.ents) \in Nat /\ Pow2[y.order] \in Nat
    <2>1. b # 0 => BlockKept(b)
      BY <1>3 DEF KeptStore, BlocksCounted
    <2>2. Succeeds(y, o, b)
      <3>1. BlockTypes /\ b \in 0 .. Len(blks)
        BY <1>3 DEF Types
      <3>2. Succeeds(NewBlock(b, NewBlockOrder(b)), NewBlockOrder(b), b)
        BY ONLY <2>1, <3>1, NewBlockKept
      <3>3. QED
        BY <1>1, <1>2, <3>2
    <2>3. Pow2[y.order] \in Nat
      BY <2>2, Pow2Nat DEF Succeeds
    <2>4. QED
      BY <2>2, <2>3 DEF Succeeds
  <1>8. BlockTypes /\ BlockTypes'
    BY BlockStep DEF Types
  <1>9. \A c \in 0 .. Len(blks) : Chain(c)' = Chain(c)
    <2>1. \A c \in 1 .. Len(blks) :
            /\ blks'[c].prev = blks[c].prev
            /\ blks[c].prev # n
            /\ c # n => blks'[c].ents = blks[c].ents
      BY <1>1, <1>3, <1>6, <1>8, BlockFields
    <2>2. n # 0 /\ (\A c \in 0 .. Len(blks) : c # n) /\ Len(blks) <= Len(blks')
      BY <1>1, <1>3, <1>6
    <2>3. \A c \in 0 .. Len(blks) : c # n => Chain(c)' = Chain(c)
      BY ONLY <1>8, <2>1, <2>2, ChainsKept
    <2>4. QED
      BY <2>2, <2>3
  <1>10. Chain(n)' = Chain(b)
    <2>1. ChainEquations'
      BY <1>8, ChainsNext
    <2>2. n \in 1 .. Len(blks')
      BY <1>1, <1>3, <1>6
    <2>3. Chain(n)' = (Chain(blks[n].prev) \o blks[n].ents)'
      BY <2>1, <2>2 DEF ChainEquations
    <2>4. PICK p : p = y.prev
      OBVIOUS
    <2>5. Chain(n)' = Chain(p)' \o y.ents
      BY <1>6, <2>3, <2>4
    <2>6. Chain(p)' = Chain(p)
      BY <1>3, <1>7, <1>9, <2>4
    <2>7. QED
      BY <1>7, <2>4, <2>5, <2>6 DEF Joined
  <1>11. ASSUME NEW t \in 1 .. Len(segs'), NEW u \in Vertices
         PROVE  /\ t \in 1 .. Len(segs)
                /\ segs[t].region[u] \in 0 .. Len(blks)
                /\ IF t = s /\ u = v THEN segs'[t].region[u] = n
                   ELSE segs'[t].region[u] = segs[t].region[u]
    <2>1. t \in 1 .. Len(segs) /\ segs[t].region[u] \in 0 .. Len(blks)
      BY <1>4, RegionChain
    <2>2. CASE t = s
      BY <1>4, <1>5, <2>1, <2>2
    <2>3. CASE t # s
      BY <1>4, <2>1, <2>3
    <2>4. QED
      BY <2>1, <2>2, <2>3
  <1>12. BlocksCounted'
    <2>1. ASSUME NEW c \in 1 .. Len(blks') PROVE BlockKept(c)'
      <3>1. CASE c \in 1 .. Len(blks)
        <4>1. PICK p : p = blks[c].prev
          OBVIOUS
        <4>2. p \in 0 .. Len(blks) /\ blks'[c] = blks[c] /\ BlockKept(c)
          BY <1>6, <1>8, <3>1, <4>1, BlockFields DEF KeptStore, BlocksCounted
        <4>3. Chain(p)' = Chain(p)
          BY <1>9, <4>2
        <4>4. QED
          BY <4>1, <4>2, <4>3 DEF BlockKept
      <3>2. CASE c = n
        <4>1. PICK p : p = y.prev
          OBVIOUS
        <4>2. Chain(p)' = Chain(p)
          BY <1>3, <1>7, <1>9, <4>1
        <4>3. y.prevnum = Len(Chain(p))' /\ Len(y.ents) <= Pow2[y.order]
          BY <1>7, <4>1, <4>2
        <4>4. QED
          BY <1>6, <1>7, <3>2, <4>1, <4>3 DEF BlockKept
      <3>3. QED
        BY <1>1, <1>3, <1>6, <3>1, <3>2
    <2>2. QED
      BY <2>1 DEF BlocksCounted
  <1>13. NoneShared'
    <2> SUFFICES ASSUME NEW t1 \in 1 .. Len(segs'), NEW t2 \in 1 .. Len(segs'),
                        NEW u1 \in Vertices, NEW u2 \in Vertices,
                        segs'[t1].region[u1] = segs'[t2].region[u2],
                        segs'[t1].region[u1] # 0
                 PROVE  t1 = t2 /\ u1 = u2
      BY DEF NoneShared
    <2>1. n \notin 0 .. Len(blks)
      BY <1>1, <1>3
    <2>2. CASE t1 = s /\ u1 = v
      BY <1>11, <2>1, <2>2
    <2>3. CASE t2 = s /\ u2 = v
      BY <1>11, <2>1, <2>3
    <2>4. CASE ~ (t1 = s /\ u1 = v) /\ ~ (t2 = s /\ u2 = v)
      BY <1>11, <2>4 DEF KeptStore, NoneShared
    <2>5. QED
      BY <2>2, <2>3, <2>4
  <1>14. FrontBlocks'
    <2> SUFFICES ASSUME NEW c \in 1 .. Len(blks'), NEW t \in 1 .. Len(segs'),
                        NEW u \in Vertices, blks'[c].prev # 0
                 PROVE  blks'[c].prev # segs'[t].region[u]
      BY DEF FrontBlocks
    <2>1. blks'[c].prev \in 0 .. Len(blks)
      BY <1>1, <1>3, <1>6, <1>7, <1>8, BlockFields
    <2>2. CASE t = s /\ u = v
      <3>1. segs'[t].region[u] = n
        BY <1>11, <2>2
      <3>2. n \notin 0 .. Len(blks)
        BY <1>3
      <3>3. QED
        BY <2>1, <3>1, <3>2
    <2>3. CASE ~ (t = s /\ u = v)
      <3>0. segs'[t].region[u] = segs[t].region[u] /\ t \in 1 .. Len(segs)
        BY <1>11, <2>3
      <3>1. CASE c \in 1 .. Len(blks)
        BY <1>6, <3>0, <3>1 DEF KeptStore, FrontBlocks
      <3>2. CASE c = n
        <4>1. blks'[c].prev = segs[s].region[v] /\ segs[s].region[v] # 0
          BY <1>5, <1>6, <1>7, <3>2
        <4>2. segs[s].region[v] # segs[t].region[u]
          BY <1>4, <2>3, <3>0, <4>1 DEF KeptStore, NoneShared
        <4>3. QED
          BY <3>0, <4>1, <4>2
      <3>3. QED
        BY <1>1, <1>3, <1>6, <3>1, <3>2
    <2>4. QED
      BY <2>2, <2>3
  <1>15. ASSUME NEW t \in 1 .. Len(segs), NEW u \in Vertices,
                NEW c, c = segs[t].region[u], NEW d, d = segs'[t].region[u]
         PROVE  Chain(d)' = Chain(c)
    <2>1. CASE t = s /\ u = v
      BY <1>4, <1>5, <1>10, <1>11, <1>15, <2>1
    <2>2. CASE ~ (t = s /\ u = v)
      BY <1>4, <1>9, <1>11, <1>15, <2>2
    <2>3. QED
      BY <2>1, <2>2
  <1>16. hist' = hist
    BY DEF GrowBlock
  <1>17. ChainsOrdered' /\ EdgesChained'
    <2>1. ASSUME NEW t \in 1 .. Len(segs'), NEW u \in Vertices
          PROVE  ChainOrdered(Chain(segs[t].region[u]), Len(hist[u]))'
      <3>1. PICK c, d : c = segs[t].region[u] /\ d = segs'[t].region[u]
        OBVIOUS
      <3>2. Chain(d)' = Chain(c) /\ t \in 1 .. Len(segs)
        BY <1>4, <1>15, <3>1
      <3>3. ChainOrdered(Chain(c), Len(hist[u]))
        BY <3>1, <3>2 DEF KeptStore, ChainsOrdered
      <3>4. QED
        BY <1>16, <3>1, <3>2, <3>3 DEF ChainOrdered, Increasing
    <2>2. ASSUME NEW u \in Vertices, NEW i \in 1 .. Len(hist[u])
          PROVE  \E t \in 1 .. Len(segs') : InChain(t, u, i)'
      <3>1. PICK t \in 1 .. Len(segs) : InChain(t, u, i)
        BY DEF KeptStore, EdgesChained
      <3>2. PICK c, d : c = segs[t].region[u] /\ d = segs'[t].region[u]
        OBVIOUS
      <3>3. Chain(d)' = Chain(c) /\ t \in 1 .. Len(segs')
        BY <1>4, <1>15, <3>2
      <3>4. InChain(t, u, i)'
        BY <3>1, <3>2, <3>3 DEF InChain
      <3>5. QED
        BY <3>3, <3>4
    <2>3. QED
      BY <1>16, <2>1, <2>2 DEF ChainsOrdered, EdgesChained
  <1>18. segs'[s].region[v] = n /\ HasSpace(n)'
    BY <1>4, <1>6, <1>7, <1>11 DEF HasSpace
  <1>19. QED
    BY <1>4, <1>11, <1>12, <1>13, <1>14, <1>17, <1>18 DEF KeptStore

(* A merged block is large enough, and not twice as large as it needs be. *)
LEMMA MergedOrderHolds ==
  ASSUME Types, NEW s \in 1 .. Len(segs), NEW u \in Vertices, NEW v \in Vertices,
         NEW n, n = Len(Chain(segs[s].region[u])), NEW k, k = MergedOrder(s, u, v)
  PROVE  /\ n \in Nat /\ k \in Nat /\ Pow2[k] \in Nat /\ Pow2[k] > k
         /\ n <= Pow2[k] /\ (u = v => n < Pow2[k])
         /\ u = v => Pow2[k] <= 2 * n + 1
         /\ u # v /\ n >= 1 => Pow2[k] <= 2 * n - 1
  <1>1. n \in Nat
    BY RegionChain
  <1>2. PICK m : m = IF u = v THEN n + 1 ELSE n
    OBVIOUS
  <1>3. m \in Nat /\ k = SizeToOrder(m)
    BY <1>1, <1>2 DEF MergedOrder
  <1>4. k \in 0 .. m /\ Pow2[k] >= m
    BY <1>3, OrderHolds
  <1>5. m >= 1 => Pow2[k] <= 2 * m - 1
    BY <1>3, OrderTight
  <1>6. k \in Nat /\ Pow2[k] \in Nat /\ Pow2[k] > k
    BY <1>3, <1>4, Pow2Nat
  <1>7. QED
    BY ONLY <1>1, <1>2, <1>3, <1>4, <1>5, <1>6

(* The merged blocks have the chains of the blocks they replace. *)
LEMMA KeptMerge ==
  ASSUME Types, KeptStore, Next, NEW w \in Writers, MergeSegment(w), ~ MergeCrashes(w),
         NEW M, NEW at, MergesInto(w, M, at), NEW v, v = wr[w].v,
         NEW k, k = Len(segs) + 1
  PROVE  /\ KeptStore'
         /\ segs'[k].region[v] = at[v] /\ HasSpace(at[v])'
         /\ \A t \in 1 .. Len(segs) : segs'[t] = segs[t]
  <1>0. PICK s, z : s = wr[w].seg /\ z = Len(blks)
    OBVIOUS
  <1>1. /\ M = Merged(s, v) /\ M \subseteq Vertices /\ v \in M
        /\ at \in [M -> z + 1 .. Len(blks')]
        /\ \A x, y \in M : x # y => at[x] # at[y]
        /\ \A i \in z + 1 .. Len(blks') :
             \E u \in M : at[u] = i /\ blks'[i] = MergedBlock(s, u, v)
    BY <1>0 DEF MergesInto
  <1>2. /\ s \in 1 .. Len(segs) /\ Len(segs') = k
        /\ \A t \in 1 .. Len(segs) : segs'[t] = segs[t]
        /\ \A u \in M : segs'[k].region[u] = at[u]
        /\ \A u \in Vertices \ M : segs'[k].region[u] = 0
    BY <1>0, MergeSegs
  <1>3. /\ z \in Nat /\ Len(segs) \in Nat /\ Len(blks') \in Nat /\ Len(blks') >= z
        /\ \A i \in 1 .. z : blks'[i] = blks[i]
    BY <1>0, MergeBlocks DEF Types, BlockTypes, SegTypes
  <1>4. BlockTypes /\ BlockTypes' /\ hist' = hist
    BY BlockStep DEF Types, MergeSegment
  <1>5. \A c \in 0 .. z : Chain(c)' = Chain(c)
    <2>1. PICK x : x = z + 1
      OBVIOUS
    <2>2. \A c \in 1 .. Len(blks) :
            /\ blks'[c].prev = blks[c].prev
            /\ blks[c].prev # x
            /\ c # x => blks'[c].ents = blks[c].ents
      BY <1>0, <1>3, <1>4, <2>1, BlockFields
    <2>3. x # 0 /\ (\A c \in 0 .. Len(blks) : c # x) /\ Len(blks) <= Len(blks')
      BY <1>0, <1>3, <2>1
    <2>4. \A c \in 0 .. Len(blks) : c # x => Chain(c)' = Chain(c)
      BY ONLY <1>4, <2>2, <2>3, ChainsKept
    <2>5. QED
      BY <1>0, <2>3, <2>4
  <1>6. ASSUME NEW u \in M, NEW c, c = segs[s].region[u], NEW d, d = at[u]
        PROVE  /\ d \in z + 1 .. Len(blks') /\ d # 0 /\ blks'[d] = MergedBlock(s, u, v)
               /\ blks'[d].prev = 0 /\ blks'[d].prevnum = 0
               /\ Len(blks'[d].ents) <= Pow2[blks'[d].order]
               /\ u = v => Len(blks'[d].ents) < Pow2[blks'[d].order]
               /\ Chain(d)' = Chain(c)
    <2>1. d \in z + 1 .. Len(blks') /\ d # 0
      BY <1>1, <1>3, <1>6
    <2>2. PICK x \in M : at[x] = d /\ blks'[d] = MergedBlock(s, x, v)
      BY <1>1, <2>1
    <2>3. x = u
      BY <1>1, <1>6, <2>2
    <2>4. blks'[d] = MergedBlock(s, u, v)
      BY <2>2, <2>3
    <2>5. PICK o : o = MergedOrder(s, u, v)
      OBVIOUS
    <2>6. /\ blks'[d].prev = 0 /\ blks'[d].prevnum = 0 /\ blks'[d].ents = Chain(c)
          /\ blks'[d].order = o
      BY <1>6, <2>4, <2>5 DEF MergedBlock
    <2>7. u \in Vertices /\ v \in Vertices
      BY <1>1
    <2>8. /\ Len(Chain(c)) <= Pow2[o] /\ (u = v => Len(Chain(c)) < Pow2[o])
      BY <1>2, <1>6, <2>5, <2>7, MergedOrderHolds
    <2>9. Chain(d)' = Chain(c)
      <3>1. ChainEquations' /\ d \in 1 .. Len(blks')
        BY <1>3, <1>4, <2>1, ChainsNext
      <3>2. Chain(d)' = (Chain(blks[d].prev) \o blks[d].ents)' /\ Chain(0)' = << >>
        BY <3>1 DEF ChainEquations
      <3>3. Chain(d)' = << >> \o Chain(c)
        BY <2>6, <3>2
      <3>4. Chain(c) \in Seq(Nat)
        BY <1>2, <1>6, <2>7, RegionChain
      <3>5. QED
        BY <3>3, <3>4
    <2>10. QED
      BY <2>1, <2>4, <2>6, <2>8, <2>9
  <1>7. ASSUME NEW i \in 1 .. Len(blks')
        PROVE  \/ i \in 1 .. z
               \/ \E u \in M : at[u] = i
    BY <1>1, <1>3
  <1>8. ASSUME NEW t \in 1 .. Len(segs'), NEW u \in Vertices
        PROVE  \/ /\ t \in 1 .. Len(segs) /\ segs'[t].region[u] = segs[t].region[u]
                  /\ segs[t].region[u] \in 0 .. z
               \/ t = k /\ u \in M /\ segs'[t].region[u] = at[u]
               \/ t = k /\ u \notin M /\ segs'[t].region[u] = 0
    <2>1. CASE t \in 1 .. Len(segs)
      BY <1>0, <1>2, <2>1, RegionChain
    <2>2. CASE t = k
      BY <1>2, <2>2
    <2>3. QED
      BY <1>2, <1>3, <2>1, <2>2
  <1>9. BlocksCounted'
    <2>1. ASSUME NEW i \in 1 .. Len(blks') PROVE BlockKept(i)'
      <3>1. CASE i \in 1 .. z
        <4>1. PICK p : p = blks[i].prev
          OBVIOUS
        <4>2. p \in 0 .. z /\ blks'[i] = blks[i] /\ BlockKept(i)
          BY <1>0, <1>3, <1>4, <3>1, <4>1, BlockFields DEF KeptStore, BlocksCounted
        <4>3. Chain(p)' = Chain(p)
          BY <1>5, <4>2
        <4>4. QED
          BY <4>1, <4>2, <4>3 DEF BlockKept
      <3>2. CASE \E u \in M : at[u] = i
        <4>1. PICK u \in M : at[u] = i
          BY <3>2
        <4>2. /\ blks'[i].prev = 0 /\ blks'[i].prevnum = 0
              /\ Len(blks'[i].ents) <= Pow2[blks'[i].order]
          BY <1>6, <4>1
        <4>3. Chain(0)' = << >> /\ Len(<< >>) = 0
          BY <1>4, ChainsNext DEF ChainEquations
        <4>4. QED
          BY <4>2, <4>3 DEF BlockKept
      <3>3. QED
        BY <1>7, <3>1, <3>2
    <2>2. QED
      BY <2>1 DEF BlocksCounted
  <1>10. NoneShared'
    <2> SUFFICES ASSUME NEW t1 \in 1 .. Len(segs'), NEW t2 \in 1 .. Len(segs'),
                        NEW u1 \in Vertices, NEW u2 \in Vertices,
                        segs'[t1].region[u1] = segs'[t2].region[u2],
                        segs'[t1].region[u1] # 0
                 PROVE  t1 = t2 /\ u1 = u2
      BY DEF NoneShared
    <2>1. \A u \in M : at[u] \notin 0 .. z
      BY <1>1, <1>3
    <2>2. CASE /\ t1 \in 1 .. Len(segs) /\ segs'[t1].region[u1] = segs[t1].region[u1]
               /\ segs[t1].region[u1] \in 0 .. z
      <3>1. /\ t2 \in 1 .. Len(segs) /\ segs'[t2].region[u2] = segs[t2].region[u2]
        BY <1>8, <2>1, <2>2
      <3>2. segs[t1].region[u1] = segs[t2].region[u2] /\ segs[t1].region[u1] # 0
        BY <2>2, <3>1
      <3>3. NoneShared
        BY DEF KeptStore
      <3>4. QED
        BY ONLY <2>2, <3>1, <3>2, <3>3, u1 \in Vertices, u2 \in Vertices DEF NoneShared
    <2>3. CASE t1 = k /\ u1 \in M /\ segs'[t1].region[u1] = at[u1]
      <3>1. t2 = k /\ u2 \in M /\ at[u2] = at[u1]
        BY <1>8, <2>1, <2>3
      <3>2. QED
        BY <1>1, <2>3, <3>1
    <2>4. QED
      BY <1>8, <2>2, <2>3
  <1>11. FrontBlocks'
    <2> SUFFICES ASSUME NEW i \in 1 .. Len(blks'), NEW t \in 1 .. Len(segs'),
                        NEW u \in Vertices, blks'[i].prev # 0
                 PROVE  blks'[i].prev # segs'[t].region[u]
      BY DEF FrontBlocks
    <2>1. i \in 1 .. z
      BY <1>6, <1>7
    <2>2. blks'[i].prev = blks[i].prev /\ blks[i].prev \in 0 .. z
      BY <1>0, <1>3, <1>4, <2>1, BlockFields
    <2>3. CASE t \in 1 .. Len(segs) /\ segs'[t].region[u] = segs[t].region[u]
      BY <1>0, <2>1, <2>2, <2>3 DEF KeptStore, FrontBlocks
    <2>4. CASE u \in M /\ segs'[t].region[u] = at[u]
      BY <1>1, <1>3, <2>2, <2>4
    <2>5. QED
      BY <1>8, <2>3, <2>4
  <1>12. ASSUME NEW t \in 1 .. Len(segs'), NEW u \in Vertices, NEW d, d = segs'[t].region[u]
         PROVE  ChainOrdered(Chain(d)', Len(hist[u]))
    <2>1. CASE /\ t \in 1 .. Len(segs) /\ d = segs[t].region[u]
               /\ segs[t].region[u] \in 0 .. z
      <3>1. ChainOrdered(Chain(d), Len(hist[u]))
        BY <2>1 DEF KeptStore, ChainsOrdered
      <3>2. Chain(d)' = Chain(d)
        BY <1>5, <2>1
      <3>3. QED
        BY <3>1, <3>2
    <2>2. CASE u \in M /\ d = at[u]
      <3>1. PICK c : c = segs[s].region[u]
        OBVIOUS
      <3>2. ChainOrdered(Chain(c), Len(hist[u]))
        BY <1>2, <3>1 DEF KeptStore, ChainsOrdered
      <3>3. Chain(d)' = Chain(c)
        BY <1>6, <2>2, <3>1
      <3>4. QED
        BY <3>2, <3>3
    <2>3. CASE d = 0
      <3>1. Chain(d)' = << >> /\ Len(<< >>) = 0
        BY <1>4, <2>3, ChainsNext DEF ChainEquations
      <3>2. QED
        BY <3>1 DEF ChainOrdered, Increasing
    <2>4. QED
      BY <1>8, <1>12, <2>1, <2>2, <2>3
  <1>13. ChainsOrdered' /\ EdgesChained'
    <2>1. ASSUME NEW t \in 1 .. Len(segs'), NEW u \in Vertices
          PROVE  ChainOrdered(Chain(segs[t].region[u]), Len(hist[u]))'
      <3>1. PICK d : d = segs'[t].region[u]
        OBVIOUS
      <3>2. ChainOrdered(Chain(d)', Len(hist[u]))
        BY <1>12, <3>1
      <3>3. QED
        BY <1>4, <3>1, <3>2 DEF ChainOrdered, Increasing
    <2>2. ASSUME NEW u \in Vertices, NEW i \in 1 .. Len(hist[u])
          PROVE  \E t \in 1 .. Len(segs') : InChain(t, u, i)'
      <3>1. PICK t \in 1 .. Len(segs) : InChain(t, u, i)
        BY DEF KeptStore, EdgesChained
      <3>2. PICK d : d = segs[t].region[u]
        OBVIOUS
      <3>3. segs'[t].region[u] = d /\ d \in 0 .. z /\ t \in 1 .. Len(segs')
        BY <1>0, <1>2, <1>3, <3>2, RegionChain
      <3>4. Chain(d)' = Chain(d)
        BY <1>5, <3>3
      <3>5. InChain(t, u, i)'
        BY <3>1, <3>2, <3>3, <3>4 DEF InChain
      <3>6. QED
        BY <3>3, <3>5
    <2>3. QED
      BY <1>4, <2>1, <2>2 DEF ChainsOrdered, EdgesChained
  <1>14. HasSpace(at[v])'
    <2>1. PICK d : d = at[v]
      OBVIOUS
    <2>2. Len(blks'[d].ents) < Pow2[blks'[d].order]
      BY <1>1, <1>6, <2>1
    <2>3. QED
      BY <2>1, <2>2 DEF HasSpace
  <1>15. QED
    BY <1>1, <1>2, <1>9, <1>10, <1>11, <1>13, <1>14 DEF KeptStore

LEMMA AppendBehind ==
  ASSUME NEW p \in Seq(Nat), NEW q \in Seq(Nat), NEW n \in Nat
  PROVE  p \o Append(q, n) = Append(p \o q, n)
  OBVIOUS

(* The newest edge goes last. *)
NewestLast(c, d, n) ==
  /\ ChainOrdered(d, n)
  /\ \E k \in DOMAIN d : d[k] = n
  /\ \A k \in DOMAIN c : k \in DOMAIN d /\ d[k] = c[k]

LEMMA OrderedStays ==
  ASSUME NEW c \in Seq(Nat), NEW m \in Nat, ChainOrdered(c, m),
         NEW n, n = m + 1, NEW d, d = Append(c, n)
  PROVE  NewestLast(c, d, n)
  <1>1. PICK l : l = Len(c)
    OBVIOUS
  <1>2. /\ l \in Nat /\ Len(d) = l + 1 /\ d[l + 1] = n
        /\ \A i \in 1 .. l : d[i] = c[i]
        /\ DOMAIN c = 1 .. l /\ DOMAIN d = 1 .. l + 1
    BY <1>1
  <1>3. \A i \in 1 .. l : c[i] \in Nat /\ c[i] <= m
    BY <1>1 DEF ChainOrdered
  <1>4. \A j, k \in 1 .. l : j < k => c[j] < c[k]
    BY <1>1 DEF ChainOrdered, Increasing
  <1>5. ASSUME NEW j \in 1 .. l + 1 PROVE d[j] <= n
    <2>1. CASE j \in 1 .. l
      BY <1>2, <1>3, <2>1
    <2>2. CASE j = l + 1
      BY <1>2, <2>2
    <2>3. QED
      BY <1>2, <2>1, <2>2
  <1>6. ASSUME NEW j \in 1 .. l + 1, NEW k \in 1 .. l + 1, j < k PROVE d[j] < d[k]
    <2>1. j \in 1 .. l
      BY <1>2, <1>6
    <2>2. CASE k \in 1 .. l
      BY <1>2, <1>4, <1>6, <2>1, <2>2
    <2>3. CASE k = l + 1
      BY <1>2, <1>3, <2>1, <2>3
    <2>4. QED
      BY <1>2, <2>2, <2>3
  <1>7. ChainOrdered(d, n)
    BY <1>2, <1>5, <1>6 DEF ChainOrdered, Increasing
  <1>8. QED
    BY <1>2, <1>7 DEF NewestLast

(* The edge is put behind the edges of its vertex's chain. *)
LEMMA KeptAppend ==
  ASSUME Types, KeptStore, Next, NEW w \in Writers, AppendEdge(w), HoldsBlock(wr[w]),
         NEW b, b = wr[w].blk
  PROVE  /\ KeptStore' /\ segs' = segs
         /\ \A c \in 1 .. Len(blks) : c # b => blks'[c] = blks[c]
         /\ \A t \in 1 .. Len(segs), u \in Vertices :
              segs[t].region[u] = b => u = wr[w].v
  <1>1. PICK s, v, m, n, p : /\ s = wr[w].seg /\ v = wr[w].v /\ m = Len(hist[v]) /\ n = m + 1
                             /\ p = blks[b].prev
    OBVIOUS
  <1>2. /\ v \in Vertices /\ b \in 1 .. Len(blks) /\ s \in 1 .. Len(segs)
        /\ b = segs[s].region[v] /\ HasSpace(b)
    <2>1. wr[w].pc \in {"table", "edge"}
      BY DEF AppendEdge
    <2>2. v \in Vertices /\ b \in 1 .. Len(blks) /\ s \in 1 .. Len(segs)
      BY <1>1, <2>1, WriterAt
    <2>3. QED
      BY <1>1, <2>2 DEF HoldsBlock
  <1>3. /\ m \in Nat /\ n \in Nat /\ b # 0 /\ Len(blks) \in Nat
        /\ Chain(b) \in Seq(Nat) /\ ChainOrdered(Chain(b), m)
    <2>1. /\ Chain(segs[s].region[v]) \in Seq(Nat) /\ Len(hist[v]) \in Nat
          /\ Len(blks) \in Nat
      BY <1>2, RegionChain
    <2>2. ChainOrdered(Chain(segs[s].region[v]), Len(hist[v]))
      BY <1>2 DEF KeptStore, ChainsOrdered
    <2>3. m \in Nat /\ n \in Nat /\ b # 0
      <3>1. m \in Nat /\ n = m + 1
        BY <1>1, <2>1
      <3>2. QED
        BY ONLY <1>2, <2>1, <3>1
    <2>4. Chain(b) \in Seq(Nat) /\ ChainOrdered(Chain(b), m)
      BY <1>1, <1>2, <2>1, <2>2
    <2>5. QED
      BY <2>1, <2>3, <2>4
  <1>4. /\ blks[b] \in Block /\ blks[b].order \in Nat /\ p \in 0 .. b - 1
        /\ blks[b].ents \in Seq(Nat) /\ Len(blks[b].ents) \in Nat
        /\ BlockTypes /\ BlockTypes' /\ blks \in Seq(Block)
    BY <1>1, <1>2, BlockFields, BlockStep DEF Types, BlockTypes
  <1>5. PICK e, y : e = Append(blks[b].ents, n) /\ y = [blks[b] EXCEPT !.ents = e]
    OBVIOUS
  <1>6. /\ blks' = [blks EXCEPT ![b] = y]
        /\ segs' = segs /\ hist' = [hist EXCEPT ![v] = Append(hist[v], wepoch)]
        /\ hist \in [Vertices -> Seq(LogEpochs)] /\ wepoch \in LogEpochs
    <2>1. blks' = [blks EXCEPT ![b] = [blks[b] EXCEPT !.ents =
                     IF HasSpace(b) THEN Append(blks[b].ents, n) ELSE blks[b].ents]]
      BY <1>1, AppendBlocks
    <2>2. blks' = [blks EXCEPT ![b] = y]
      BY <1>2, <1>5, <2>1
    <2>3. segs' = segs /\ hist' = [hist EXCEPT ![v] = Append(hist[v], wepoch)]
      BY <1>1 DEF AppendEdge
    <2>4. hist \in [Vertices -> Seq(LogEpochs)] /\ wepoch \in LogEpochs
      BY DEF Types, ListTypes
    <2>5. QED
      BY <2>2, <2>3, <2>4
  <1>7. /\ y.order = blks[b].order /\ y.prev = p /\ y.prevnum = blks[b].prevnum
        /\ y.ents = e /\ Len(e) = Len(blks[b].ents) + 1
    <2>1. PICK x, l : x = blks[b] /\ l = blks[b].ents
      OBVIOUS
    <2>2. x \in Block /\ l \in Seq(Nat) /\ e = Append(l, n) /\ y = [x EXCEPT !.ents = e]
      BY <1>4, <1>5, <2>1
    <2>3. Len(e) = Len(l) + 1
      BY ONLY <2>2
    <2>4. y.order = x.order /\ y.prev = x.prev /\ y.prevnum = x.prevnum /\ y.ents = e
      BY ONLY <2>2 DEF Block
    <2>5. QED
      BY <1>1, <2>1, <2>3, <2>4
  <1>8. /\ Len(blks') = Len(blks) /\ blks'[b] = y
        /\ \A c \in 1 .. Len(blks) : c # b => blks'[c] = blks[c]
    BY <1>2, <1>4, <1>6
  <1>9. /\ Len(hist'[v]) = n
        /\ \A u \in Vertices : u # v => hist'[u] = hist[u]
    <2>1. PICK l : l = hist[v]
      OBVIOUS
    <2>2. l \in Seq(LogEpochs) /\ hist'[v] = Append(l, wepoch) /\ n = Len(l) + 1
      BY <1>1, <1>2, <1>6, <2>1
    <2>3. Len(Append(l, wepoch)) = n
      BY ONLY <2>2
    <2>4. \A u \in Vertices : u # v => hist'[u] = hist[u]
      BY <1>6
    <2>5. QED
      BY <2>2, <2>3, <2>4
  <1>10. \A c \in 1 .. Len(blks) : blks[c].prev \in 0 .. Len(blks) /\ blks[c].prev # b
    <2> SUFFICES ASSUME NEW c \in 1 .. Len(blks)
                 PROVE  blks[c].prev \in 0 .. Len(blks) /\ blks[c].prev # b
      OBVIOUS
    <2>1. blks[c].prev \in 0 .. Len(blks)
      BY <1>3, <1>4, BlockFields
    <2>2. blks[c].prev # 0 => blks[c].prev # segs[s].region[v]
      BY <1>2 DEF KeptStore, FrontBlocks
    <2>3. QED
      BY <1>2, <1>3, <2>1, <2>2
  <1>11. \A c \in 0 .. Len(blks) : c # b => Chain(c)' = Chain(c)
    <2>1. \A c \in 1 .. Len(blks) :
            /\ blks'[c].prev = blks[c].prev
            /\ blks[c].prev # b
            /\ c # b => blks'[c].ents = blks[c].ents
      BY <1>1, <1>7, <1>8, <1>10
    <2>2. b # 0 /\ Len(blks) <= Len(blks')
      BY <1>3, <1>8
    <2>3. QED
      BY ONLY <1>4, <2>1, <2>2, ChainsKept
  <1>12. Chain(b)' = Append(Chain(b), n)
    <2>1. ChainEquations' /\ b \in 1 .. Len(blks')
      BY <1>2, <1>4, <1>8, ChainsNext
    <2>2. Chain(b)' = (Chain(blks[b].prev) \o blks[b].ents)'
      BY <2>1 DEF ChainEquations
    <2>3. p \in 0 .. Len(blks) /\ p # b
      BY <1>1, <1>2, <1>10
    <2>4. Chain(p)' = Chain(p) /\ Chain(p) \in Seq(Nat)
      BY <1>4, <1>11, <2>3, ChainType
    <2>5. Chain(b)' = Chain(p) \o e
      BY <1>7, <1>8, <2>2, <2>4
    <2>6. Chain(b) = Chain(p) \o blks[b].ents
      BY <1>1, <1>2, <1>4, ChainDef
    <2>7. Chain(p) \o e = Append(Chain(p) \o blks[b].ents, n)
      BY <1>3, <1>4, <1>5, <2>4, AppendBehind
    <2>8. QED
      BY <2>5, <2>6, <2>7
  <1>13. BlocksCounted'
    <2>1. ASSUME NEW c \in 1 .. Len(blks') PROVE BlockKept(c)'
      <3>1. PICK o : o = blks[c].prev
        OBVIOUS
      <3>2. /\ c \in 1 .. Len(blks) /\ o \in 0 .. Len(blks) /\ o # b /\ BlockKept(c)
        BY <1>8, <1>10, <3>1 DEF KeptStore, BlocksCounted
      <3>3. Chain(o)' = Chain(o)
        BY <1>11, <3>2
      <3>4. CASE c = b
        <4>1. Len(e) <= Pow2[blks[b].order]
          <5>1. PICK i, r : i = Len(blks[b].ents) /\ r = Pow2[blks[b].order]
            OBVIOUS
          <5>2. i \in Nat /\ r \in Nat /\ i < r
            BY <1>2, <1>4, <5>1, Pow2Nat DEF HasSpace
          <5>3. i + 1 <= r
            BY ONLY <5>2
          <5>4. QED
            BY <1>7, <5>1, <5>3
        <4>2. QED
          BY <1>1, <1>7, <1>8, <3>1, <3>2, <3>3, <3>4, <4>1 DEF BlockKept
      <3>5. CASE c # b
        BY <1>8, <3>1, <3>2, <3>3, <3>5 DEF BlockKept
      <3>6. QED
        BY <3>4, <3>5
    <2>2. QED
      BY <2>1 DEF BlocksCounted
  <1>14. NoneShared' /\ FrontBlocks'
    <2>1. NoneShared'
      BY <1>6 DEF KeptStore, NoneShared
    <2>2. \A c \in 1 .. Len(blks) : blks'[c].prev = blks[c].prev
      BY <1>1, <1>7, <1>8
    <2>3. FrontBlocks'
      BY <1>6, <1>8, <2>2 DEF KeptStore, FrontBlocks
    <2>4. QED
      BY <2>1, <2>3
  <1>15. ASSUME NEW t \in 1 .. Len(segs), NEW u \in Vertices, segs[t].region[u] = b
         PROVE  t = s /\ u = v
    BY <1>2, <1>3, <1>15 DEF KeptStore, NoneShared
  <1>16. PICK d : d = Append(Chain(b), n)
    OBVIOUS
  <1>17. /\ ChainOrdered(d, n)
         /\ \E k \in DOMAIN d : d[k] = n
         /\ \A k \in DOMAIN Chain(b) : k \in DOMAIN d /\ d[k] = Chain(b)[k]
    <2>1. PICK c : c = Chain(b)
      OBVIOUS
    <2>2. c \in Seq(Nat) /\ m \in Nat /\ ChainOrdered(c, m) /\ n = m + 1 /\ d = Append(c, n)
      BY <1>1, <1>3, <1>16, <2>1
    <2>3. NewestLast(c, d, n)
      BY ONLY <2>2, OrderedStays
    <2>4. QED
      BY <2>1, <2>3 DEF NewestLast
  <1>18. ChainsOrdered'
    <2>1. ASSUME NEW t \in 1 .. Len(segs'), NEW u \in Vertices
          PROVE  ChainOrdered(Chain(segs[t].region[u]), Len(hist[u]))'
      <3>1. PICK c : c = segs[t].region[u]
        OBVIOUS
      <3>2. t \in 1 .. Len(segs) /\ c \in 0 .. Len(blks)
        BY <1>6, <3>1, RegionChain
      <3>3. CASE c = b
        <4>1. u = v
          BY <1>15, <3>1, <3>2, <3>3
        <4>2. Chain(c)' = d /\ Len(hist'[u]) = n
          BY <1>9, <1>12, <1>16, <3>3, <4>1
        <4>3. QED
          BY <1>6, <1>17, <3>1, <4>2 DEF ChainOrdered, Increasing
      <3>4. CASE c # b
        <4>1. Chain(c)' = Chain(c)
          BY <1>11, <3>2, <3>4
        <4>2. PICK x, i, j : x = Chain(c) /\ i = Len(hist[u]) /\ j = Len(hist'[u])
          OBVIOUS
        <4>3. ChainOrdered(x, i) /\ x \in Seq(Nat) /\ i \in Nat
          BY <3>1, <3>2, <4>2, RegionChain DEF KeptStore, ChainsOrdered
        <4>4. j = i \/ j = i + 1
          BY <1>1, <1>9, <4>2
        <4>5. ChainOrdered(x, j)
          <5>1. \A k \in 1 .. Len(x) : x[k] \in Nat /\ x[k] <= i
            BY <4>3 DEF ChainOrdered
          <5>2. \A k \in 1 .. Len(x) : x[k] <= j
            BY <4>3, <4>4, <5>1
          <5>3. QED
            BY <4>3, <5>2 DEF ChainOrdered
        <4>6. QED
          BY <1>6, <3>1, <4>1, <4>2, <4>5 DEF ChainOrdered, Increasing
      <3>5. QED
        BY <3>3, <3>4
    <2>2. QED
      BY <2>1 DEF ChainsOrdered
  <1>19. EdgesChained'
    <2> SUFFICES ASSUME NEW u \in Vertices, NEW i \in 1 .. Len(hist'[u])
                 PROVE  \E t \in 1 .. Len(segs') : InChain(t, u, i)'
      BY DEF EdgesChained
    <2>1. CASE u = v /\ i = n
      <3>1. InChain(s, v, n)'
        BY <1>2, <1>6, <1>12, <1>16, <1>17 DEF InChain
      <3>2. QED
        BY <1>2, <1>6, <2>1, <3>1
    <2>2. CASE ~ (u = v /\ i = n)
      <3>1. i \in 1 .. Len(hist[u])
        BY <1>1, <1>3, <1>9, <2>2
      <3>2. PICK t \in 1 .. Len(segs) : InChain(t, u, i)
        BY <3>1 DEF KeptStore, EdgesChained
      <3>3. PICK c : c = segs[t].region[u]
        OBVIOUS
      <3>4. c \in 0 .. Len(blks) /\ segs'[t].region[u] = c
        BY <1>6, <3>3, RegionChain
      <3>5. \E k \in DOMAIN Chain(c) : Chain(c)[k] = i
        BY <3>2, <3>3 DEF InChain
      <3>6. CASE c = b
        <4>1. Chain(c)' = d
          BY <1>12, <1>16, <3>6
        <4>2. \E k \in DOMAIN d : d[k] = i
          BY <1>17, <3>5, <3>6
        <4>3. InChain(t, u, i)'
          BY <3>4, <4>1, <4>2 DEF InChain
        <4>4. QED
          BY <1>6, <4>3
      <3>7. CASE c # b
        <4>1. Chain(c)' = Chain(c)
          BY <1>11, <3>4, <3>7
        <4>2. InChain(t, u, i)'
          BY <3>4, <3>5, <4>1 DEF InChain
        <4>3. QED
          BY <1>6, <4>2
      <3>8. QED
        BY <3>6, <3>7
    <2>3. QED
      BY <2>1, <2>2
  <1>20. QED
    BY <1>1, <1>6, <1>8, <1>13, <1>14, <1>15, <1>18, <1>19 DEF KeptStore

(* What a writer does leaves the other vertices' blocks as they are. *)
OthersHold(v) ==
  \A t \in 1 .. Len(segs), u \in Vertices :
    u # v /\ segs[t].region[u] # 0 =>
      /\ segs'[t].region[u] = segs[t].region[u]
      /\ blks'[segs[t].region[u]] = blks[segs[t].region[u]]

LEMMA KeptStoreStep ==
  ASSUME Types, KeptInv, Next, NEW w \in Writers, LockStep(w) \/ StoreStep(w)
  PROVE  KeptStore' /\ OthersHold(wr[w].v)
  <1>0. /\ KeptStore /\ WriterKept(w)
        /\ Len(segs) \in Nat /\ Len(blks) \in Nat /\ blks \in Seq(Block)
    BY DEF KeptInv, Types, SegTypes, BlockTypes
  <1>a. ASSUME blks' = blks, hist' = hist, Len(segs') = Len(segs),
               \A t \in 1 .. Len(segs) : segs'[t].region = segs[t].region
        PROVE  KeptStore' /\ OthersHold(wr[w].v)
    <2>1. /\ Len(segs') \in Nat /\ Len(segs) <= Len(segs')
          /\ \A t \in Len(segs) + 1 .. Len(segs'), u \in Vertices : segs'[t].region[u] = 0
      BY <1>0, <1>a
    <2>2. KeptStore'
      BY <1>0, <1>a, <2>1, KeptAdded
    <2>3. QED
      BY <1>a, <2>2 DEF OthersHold
  <1>1. CASE LockStep(w) \/ AppendEpoch(w) \/ (MergeSegment(w) /\ MergeCrashes(w))
    <2>1. UNCHANGED <<hist, segs, blks>>
      BY <1>1, LockStepFrame DEF AppendEpoch, MergeSegment, MergeCrashes
    <2>2. QED
      BY <1>a, <2>1
  <1>2. CASE Inits(w)
    <2>1. /\ Len(segs') = Len(segs) + 1
          /\ \A t \in 1 .. Len(segs) : segs'[t] = segs[t]
          /\ segs'[Len(segs) + 1].region = [v \in Vertices |-> 0]
          /\ hist' = hist /\ blks' = blks
      BY <1>2, InitSegs DEF Inits, InitSegment
    <2>2. /\ Len(segs') \in Nat /\ Len(segs) <= Len(segs')
          /\ \A t \in 1 .. Len(segs) : segs'[t].region = segs[t].region
          /\ \A t \in Len(segs) + 1 .. Len(segs'), u \in Vertices : segs'[t].region[u] = 0
      BY <1>0, <2>1
    <2>3. KeptStore'
      BY <1>0, <2>1, <2>2, KeptAdded
    <2>4. QED
      BY <2>1, <2>3 DEF OthersHold
  <1>3. CASE SegmentFull(w) \/ CreateTable(w) \/ ReplaceTable(w)
    <2>1. CASE SegmentFull(w)
      <3>1. /\ Len(segs') = Len(segs) /\ blks' = blks /\ hist' = hist
            /\ \A t \in 1 .. Len(segs) : segs'[t].region = segs[t].region
        BY <2>1, FullSegs DEF OtherSegsKept, SegmentFull
      <3>2. QED
        BY <1>a, <3>1
    <2>2. CASE CreateTable(w) \/ ReplaceTable(w)
      <3>1. /\ Len(segs') = Len(segs) /\ blks' = blks /\ hist' = hist
            /\ \A t \in 1 .. Len(segs) : segs'[t].region = segs[t].region
        BY <2>2, TableSegs DEF OtherSegsKept, CreateTable, ReplaceTable
      <3>2. QED
        BY <1>a, <3>1
    <2>3. QED
      BY <1>3, <2>1, <2>2
  <1>4. CASE GrowBlock(w)
    <2>1. PICK s, v, n : s = wr[w].seg /\ v = wr[w].v /\ n = Len(blks) + 1
      OBVIOUS
    <2>2. /\ KeptStore'
          /\ \A t \in 1 .. Len(segs), u \in Vertices :
               ~ (t = s /\ u = v) => segs'[t].region[u] = segs[t].region[u]
      BY <1>0, <1>4, <2>1, KeptGrow
    <2>3. PICK y : blks' = Append(blks, y)
      BY <1>4 DEF GrowBlock
    <2>4. \A c \in 1 .. Len(blks) : blks'[c] = blks[c]
      BY <1>0, <2>3
    <2>5. \A t \in 1 .. Len(segs), u \in Vertices : segs[t].region[u] \in 0 .. Len(blks)
      BY RegionChain
    <2>6. QED
      BY <1>0, <2>1, <2>2, <2>4, <2>5 DEF OthersHold
  <1>5. CASE MergeSegment(w) /\ ~ MergeCrashes(w)
    <2>1. PICK M, at : MergesInto(w, M, at)
      BY <1>5, MergeBlocks
    <2>2. PICK v, k : v = wr[w].v /\ k = Len(segs) + 1
      OBVIOUS
    <2>3. KeptStore' /\ \A t \in 1 .. Len(segs) : segs'[t] = segs[t]
      BY <1>0, <1>5, <2>1, <2>2, KeptMerge
    <2>4. \A c \in 1 .. Len(blks) : blks'[c] = blks[c]
      BY <1>5, MergeBlocks
    <2>5. \A t \in 1 .. Len(segs), u \in Vertices : segs[t].region[u] \in 0 .. Len(blks)
      BY RegionChain
    <2>6. QED
      BY <1>0, <2>3, <2>4, <2>5 DEF OthersHold
  <1>6. CASE AppendEdge(w)
    <2>1. HoldsBlock(wr[w])
      <3>1. wr[w].pc \in {"table", "edge"}
        BY <1>6 DEF AppendEdge
      <3>2. QED
        BY <1>0, <3>1 DEF WriterKept
    <2>2. PICK b : b = wr[w].blk
      OBVIOUS
    <2>3. /\ KeptStore' /\ segs' = segs
          /\ \A c \in 1 .. Len(blks) : c # b => blks'[c] = blks[c]
          /\ \A t \in 1 .. Len(segs), u \in Vertices :
               segs[t].region[u] = b => u = wr[w].v
      BY <1>0, <1>6, <2>1, <2>2, KeptAppend
    <2>4. \A t \in 1 .. Len(segs), u \in Vertices : segs[t].region[u] \in 0 .. Len(blks)
      BY RegionChain
    <2>5. QED
      BY <1>0, <2>3, <2>4 DEF OthersHold
  <1>7. QED
    BY <1>1, <1>2, <1>3, <1>4, <1>5, <1>6 DEF StoreStep

(* The futexes of the other writers' vertices stay with them. *)
LEMMA FutexKept ==
  ASSUME Types, KeptInv, NEW w \in Writers, LockStep(w) \/ StoreStep(w),
         NEW x \in Writers, x # w, NEW v, v = wr[x].v,
         wr[x].pc \notin {"idle", "futex"}
  PROVE  /\ v \in Vertices /\ futex'[v] = x
         /\ wr[w].pc \notin {"idle", "futex"} => v # wr[w].v
  <1>1. /\ futex[v] = x /\ v \in Vertices /\ NoOne \notin Writers
        /\ wr[w].pc \notin {"idle", "futex"} => futex[wr[w].v] = w
    BY WriterAt, SegGraphAssumption DEF KeptInv, WriterKept
  <1>2. CASE LockFutex(w)
    <2>1. PICK u : u = wr[w].v
      OBVIOUS
    <2>2. futex' = [futex EXCEPT ![u] = w] /\ futex[u] = NoOne /\ wr[w].pc = "futex"
      BY <1>2, <2>1 DEF LockFutex
    <2>3. u # v /\ futex \in [Vertices -> Writers \cup {NoOne}]
      BY <1>1, <2>2 DEF Types, LockTypes
    <2>4. QED
      BY <1>1, <2>2, <2>3
  <1>3. CASE AppendEdge(w)
    <2>1. futex' = [futex EXCEPT ![wr[w].v] = NoOne] /\ wr[w].pc \notin {"idle", "futex"}
      BY <1>3 DEF AppendEdge, Released
    <2>2. v # wr[w].v /\ futex \in [Vertices -> Writers \cup {NoOne}]
      BY <1>1, <2>1 DEF Types, LockTypes
    <2>3. QED
      BY <1>1, <2>1, <2>2
  <1>4. CASE ~ LockFutex(w) /\ ~ AppendEdge(w)
    <2>1. futex' = futex
      BY <1>4 DEF LockStep, StoreStep, LocateSegment, Restart, Reshare, UseBlock,
                  OutOfMemory, PutEdge, InitFails, Inits, InitSegment, GrowBlock, SegmentFull, MergeSegment,
                  CreateTable, ReplaceTable, AppendEpoch, locks
    <2>2. QED
      BY <1>1, <2>1
  <1>5. QED
    BY <1>2, <1>3, <1>4

LEMMA OthersKept ==
  ASSUME Types, KeptInv, Next, NEW w \in Writers, LockStep(w) \/ StoreStep(w),
         OthersHold(wr[w].v), NEW x \in Writers, x # w, wr'[x] = wr[x]
  PROVE  WriterKept(x)'
  <1>1. PICK q : q = wr[x]
    OBVIOUS
  <1>2. WriterKept(x)
    BY DEF KeptInv
  <1>3. CASE q.pc \in {"idle", "futex"}
    BY <1>1, <1>3 DEF WriterKept
  <1>4. CASE q.pc \notin {"idle", "futex"}
    <2>1. /\ q.v \in Vertices /\ futex'[q.v] = x
          /\ wr[w].pc \notin {"idle", "futex"} => q.v # wr[w].v
      BY <1>1, <1>4, FutexKept
    <2>2. /\ q.pc \in {"reshare", "table", "append", "edge"} => q.seg \in 1 .. Len(segs)
          /\ q.pc \in {"table", "append", "edge"} => q.blk # 0
      BY <1>1, WriterAt
    <2>3. ASSUME HoldsBlock(q), q.blk # 0, q.seg \in 1 .. Len(segs) PROVE HoldsBlock(q)'
      <3>1. PICK s, v, b : s = q.seg /\ v = q.v /\ b = q.blk
        OBVIOUS
      <3>2. b = segs[s].region[v] /\ HasSpace(b) /\ b # 0
        BY <2>3, <3>1 DEF HoldsBlock
      <3>3. segs'[s].region[v] = b /\ blks'[b] = blks[b]
        <4>1. CASE wr[w].pc \notin {"idle", "futex"}
          BY <2>1, <2>3, <3>1, <3>2, <4>1 DEF OthersHold
        <4>2. CASE wr[w].pc \in {"idle", "futex"}
          <5>1. LockStep(w)
            BY <4>2 DEF StoreStep, Inits, InitSegment, GrowBlock, NeedsBlock, SegmentFull,
                        MergeSegment, CreateTable, ReplaceTable, NewEpochDue,
                        AppendEpoch, AppendEdge
          <5>2. segs' = segs /\ blks' = blks
            BY <5>1, LockStepFrame
          <5>3. QED
            BY <3>2, <5>2
        <4>3. QED
          BY <4>1, <4>2
      <3>4. QED
        BY <3>1, <3>2, <3>3 DEF HoldsBlock, HasSpace
    <2>4. /\ q.pc \notin {"idle", "futex"} => futex[q.v] = x
          /\ q.pc = "init" => q.seg = 0 /\ q.blk = 0
          /\ q.pc = "reshare" => q.blk = 0 \/ HoldsBlock(q)
          /\ q.pc \in {"table", "append", "edge"} => HoldsBlock(q)
      BY <1>1, <1>2 DEF WriterKept
    <2>5. /\ q.pc = "reshare" => q.blk = 0 \/ HoldsBlock(q)'
          /\ q.pc \in {"table", "append", "edge"} => HoldsBlock(q)'
      BY <2>2, <2>3, <2>4
    <2>6. wr'[x] = q
      BY <1>1
    <2>7. QED
      BY <2>1, <2>4, <2>5, <2>6 DEF WriterKept, HoldsBlock, HasSpace
  <1>5. QED
    BY <1>3, <1>4

LEMMA OneWriterMoves ==
  ASSUME Types, NEW w \in Writers, LockStep(w) \/ StoreStep(w), NEW x \in Writers, x # w
  PROVE  wr'[x] = wr[x]
  <1>1. \A q : wr' = [wr EXCEPT ![w] = q] => wr'[x] = wr[x]
    BY DEF Types, WriterTypes
  <1>2. CASE LockStep(w)
    BY <1>1, <1>2 DEF LockStep, LockFutex, LocateSegment, Restart, Reshare, UseBlock,
                      OutOfMemory, PutEdge, InitFails, InitSegment
  <1>3. CASE StoreStep(w)
    <2>1. CASE MergeSegment(w)
      BY <1>1, <2>1 DEF MergeSegment
    <2>2. CASE ~ MergeSegment(w)
      BY <1>1, <1>3, <2>2 DEF StoreStep, Inits, InitSegment, GrowBlock, SegmentFull, CreateTable,
                              ReplaceTable, AppendEpoch, AppendEdge
    <2>3. QED
      BY <2>1, <2>2
  <1>4. QED
    BY <1>2, <1>3

LEMMA KeptStep ==
  ASSUME Types, KeptInv, [Next]_vars
  PROVE  KeptInv'
  <1>0. KeptStore /\ \A w \in Writers : WriterKept(w)
    BY DEF KeptInv
  <1>1. CASE \/ \E e \in LogEpochs : NextEpoch(e)
             \/ Recycle
             \/ \E r \in Readers : Read(r)
             \/ UNCHANGED vars
    <2>1. UNCHANGED <<hist, segs, blks, futex, wr>>
      <3>1. CASE \E e \in LogEpochs : NextEpoch(e)
        BY <3>1 DEF NextEpoch, store, locks
      <3>2. CASE Recycle
        BY <3>2 DEF Recycle, locks
      <3>3. CASE \E r \in Readers : Read(r)
        BY <3>3, ReadFrame
      <3>4. CASE UNCHANGED vars
        BY <3>4 DEF vars, store, locks
      <3>5. QED
        BY <1>1, <3>1, <3>2, <3>3, <3>4
    <2>2. /\ Len(segs') \in Nat /\ Len(segs) <= Len(segs')
          /\ \A t \in 1 .. Len(segs) : segs'[t].region = segs[t].region
          /\ \A t \in Len(segs) + 1 .. Len(segs'), u \in Vertices : segs'[t].region[u] = 0
      BY <2>1 DEF Types, SegTypes
    <2>3. KeptStore'
      BY <1>0, <2>1, <2>2, KeptAdded
    <2>4. \A w \in Writers : WriterKept(w)'
      BY <1>0, <2>1 DEF WriterKept, HoldsBlock, HasSpace
    <2>5. QED
      BY <2>3, <2>4 DEF KeptInv
  <1>2. ASSUME NEW w \in Writers, LockStep(w) \/ StoreStep(w), Next
        PROVE  KeptInv'
    <2> DEFINE p == wr[w]
               q == wr'[w]
    <2>0. /\ p \in WriterType /\ wr \in [Writers -> WriterType]
          /\ futex \in [Vertices -> Writers \cup {NoOne}]
          /\ p.seg \in 0 .. Len(segs) /\ WriterKept(w)
      BY <1>0, WriterAt DEF Types, WriterTypes, LockTypes
    <2>g. /\ p.pc \in {"reshare", "block", "merge", "table", "append", "edge"} =>
               p.seg \in 1 .. Len(segs)
          /\ p.pc # "idle" => p.v \in Vertices
          /\ p.pc \notin {"idle", "futex"} => futex[p.v] = w
      BY <2>0, WriterAt DEF WriterKept
    <2>1. KeptStore' /\ OthersHold(wr[w].v)
      BY <1>2, KeptStoreStep
    <2>2. ASSUME NEW x \in Writers, x # w PROVE WriterKept(x)'
      <3>1. wr'[x] = wr[x]
        BY <1>2, <2>2, OneWriterMoves
      <3>2. QED
        BY <1>2, <2>1, <2>2, <3>1, OthersKept
    <2>3. WriterKept(w)'
      <3>1. CASE LockStep(w)
        <4>1. segs' = segs /\ blks' = blks
          BY <3>1, LockStepFrame
        <4>2. CASE LocateSegment(w)
          <5>1. /\ q.pc \in {"init", "block"} /\ q.v = p.v /\ q.blk = 0
                /\ q.pc = "init" => q.seg = 0
                /\ p.pc = "start" /\ futex' = futex
            BY <2>0, <4>2 DEF LocateSegment, WriterType
          <5>2. QED
            BY <2>g, <5>1 DEF WriterKept
        <4>3. CASE Restart(w)
          <5>1. q.pc = "start" /\ q.v = p.v /\ p.pc \in {"init", "merge"} /\ futex' = futex
            BY <2>0, <4>3 DEF Restart, WriterType, locks
          <5>2. QED
            BY <2>g, <5>1 DEF WriterKept
        <4>4. CASE Reshare(w)
          <5>1. /\ q.pc = (IF p.blk = 0 THEN "block" ELSE "table")
                /\ q.v = p.v /\ q.seg = p.seg /\ q.blk = p.blk
                /\ p.pc = "reshare" /\ futex' = futex
            BY <2>0, <4>4 DEF Reshare, WriterType
          <5>2. p.blk # 0 => HoldsBlock(p)
            BY <2>0, <5>1 DEF WriterKept
          <5>3. QED
            BY <2>g, <4>1, <5>1, <5>2 DEF WriterKept, HoldsBlock, HasSpace
        <4>5. CASE UseBlock(w)
          <5>1. /\ q.pc = "table" /\ q.v = p.v /\ q.seg = p.seg
                /\ q.blk = segs[p.seg].region[p.v] /\ HasSpace(q.blk)
                /\ p.pc = "block" /\ futex' = futex
            BY <2>0, <4>5 DEF UseBlock, WriterType, locks
          <5>2. QED
            BY <2>g, <4>1, <5>1 DEF WriterKept, HoldsBlock, HasSpace
        <4>6. CASE OutOfMemory(w)
          <5>1. q.pc = "idle"
            BY <2>0, <4>6 DEF OutOfMemory, IdleWriter
          <5>2. QED
            BY <5>1 DEF WriterKept
        <4>7. CASE \E u \in Vertices : PutEdge(w, u)
          <5>1. PICK u \in Vertices : PutEdge(w, u)
            BY <4>7
          <5>2. q.pc = "futex"
            BY <2>0, <5>1 DEF PutEdge, IdleWriter
          <5>3. QED
            BY <5>2 DEF WriterKept
        <4>8. CASE LockFutex(w)
          <5>1. q.pc = "start" /\ q.v = p.v /\ futex'[p.v] = w
            BY <2>0, <2>g, <4>8 DEF LockFutex, WriterType
          <5>2. QED
            BY <5>1 DEF WriterKept
        <4>9. CASE InitFails(w)
          <5>1. q.pc = "dead" /\ q.v = p.v /\ p.pc = "init" /\ futex' = futex
            BY <2>0, <4>9 DEF InitFails, InitSegment, WriterType, locks
          <5>2. QED
            BY <2>g, <5>1 DEF WriterKept
        <4>10. QED
          BY <3>1, <4>2, <4>3, <4>4, <4>5, <4>6, <4>7, <4>8, <4>9 DEF LockStep
      <3>2. CASE Inits(w)
        <4>1. /\ q.pc = "reshare" /\ q.v = p.v /\ q.blk = p.blk /\ p.pc = "init"
              /\ futex' = futex
          BY <2>0, <3>2 DEF Inits, InitSegment, WriterType, locks
        <4>2. p.blk = 0
          BY <2>0, <4>1 DEF WriterKept
        <4>3. QED
          BY <2>g, <4>1, <4>2 DEF WriterKept
      <3>3. CASE GrowBlock(w)
        <4>1. PICK s, v, n : s = wr[w].seg /\ v = wr[w].v /\ n = Len(blks) + 1
          OBVIOUS
        <4>2. segs'[s].region[v] = n /\ HasSpace(n)'
          BY <1>0, <1>2, <3>3, <4>1, KeptGrow
        <4>3. /\ q.pc = "table" /\ q.v = v /\ q.seg = s /\ q.blk = n
              /\ p.pc = "block" /\ futex' = futex
          BY <2>0, <3>3, <4>1 DEF GrowBlock, NeedsBlock, WriterType, locks
        <4>4. QED
          BY <2>g, <4>1, <4>2, <4>3 DEF WriterKept, HoldsBlock, HasSpace
      <3>4. CASE SegmentFull(w) \/ (MergeSegment(w) /\ MergeCrashes(w))
        <4>1. /\ q.pc \in {"merge", "crashed"} /\ q.v = p.v
              /\ p.pc \in {"block", "merge"} /\ futex' = futex
          BY <2>0, <3>4 DEF SegmentFull, NeedsBlock, MergeSegment, MergeCrashes,
                            WriterType, locks
        <4>2. QED
          BY <2>g, <4>1 DEF WriterKept
      <3>5. CASE MergeSegment(w) /\ ~ MergeCrashes(w)
        <4>1. PICK M, at : MergesInto(w, M, at)
          BY <3>5, MergeBlocks
        <4>2. PICK v, k : v = wr[w].v /\ k = Len(segs) + 1
          OBVIOUS
        <4>3. segs'[k].region[v] = at[v] /\ HasSpace(at[v])'
          BY <1>0, <1>2, <3>5, <4>1, <4>2, KeptMerge
        <4>4. /\ q.pc = "reshare" /\ q.v = v /\ q.seg = k /\ q.blk = at[v]
              /\ p.pc = "merge" /\ futex' = futex
          BY <2>0, <3>5, <4>1, <4>2 DEF MergeSegment, MergeCrashes, MergesInto,
                                        WriterType, locks
        <4>5. QED
          BY <2>g, <4>2, <4>3, <4>4 DEF WriterKept, HoldsBlock, HasSpace
      <3>6. CASE CreateTable(w) \/ ReplaceTable(w) \/ AppendEpoch(w)
        <4>1. /\ q.pc \in {"edge", "append"} /\ q.v = p.v /\ q.seg = p.seg /\ q.blk = p.blk
              /\ p.pc \in {"table", "append"} /\ futex' = futex /\ blks' = blks
          BY <2>0, <3>6 DEF CreateTable, ReplaceTable, AppendEpoch, NewEpochDue,
                            WriterType, locks
        <4>2. PICK s, v, b : s = p.seg /\ v = p.v /\ b = p.blk
          OBVIOUS
        <4>3. /\ s \in 1 .. Len(segs) /\ v \in Vertices /\ futex[v] = w
              /\ b = segs[s].region[v] /\ HasSpace(b)
          BY <2>0, <2>g, <4>1, <4>2 DEF WriterKept, HoldsBlock
        <4>4. segs'[s].region = segs[s].region
          <5>1. CASE AppendEpoch(w)
            BY <5>1 DEF AppendEpoch
          <5>2. CASE CreateTable(w) \/ ReplaceTable(w)
            BY <1>2, <4>2, <5>2, TableSegs
          <5>3. QED
            BY <3>6, <5>1, <5>2
        <4>5. QED
          BY <4>1, <4>2, <4>3, <4>4 DEF WriterKept, HoldsBlock, HasSpace
      <3>7. CASE AppendEdge(w)
        <4>1. q.pc = "idle"
          BY <2>0, <3>7 DEF AppendEdge, IdleWriter
        <4>2. QED
          BY <4>1 DEF WriterKept
      <3>8. QED
        BY <1>2, <3>1, <3>2, <3>3, <3>4, <3>5, <3>6, <3>7 DEF StoreStep
    <2>4. QED
      BY <2>1, <2>2, <2>3 DEF KeptInv
  <1>3. QED
    BY <1>1, <1>2, NextCases

LEMMA InitKept == Init => KeptInv
  <1> SUFFICES ASSUME Init PROVE KeptInv
    OBVIOUS
  <1>1. /\ segs = << >> /\ blks = << >>
        /\ hist = [v \in Vertices |-> << >>]
        /\ wr = [w \in Writers |-> IdleWriter]
    BY DEF Init
  <1>2. Len(segs) = 0 /\ Len(blks) = 0 /\ \A v \in Vertices : Len(hist[v]) = 0
    BY <1>1
  <1>3. KeptStore
    BY <1>2 DEF KeptStore, BlocksCounted, NoneShared, FrontBlocks, ChainsOrdered, EdgesChained
  <1>4. QED
    BY <1>1, <1>3 DEF KeptInv, WriterKept, IdleWriter

-----------------------------------------------------------------------------
(* With any number of writers: a merge finds room. *)

HeldIn(s) == [v \in Vertices |-> Held(segs[s].region[v])]

(* What is held fits in the segment, and alloc has counted it. *)
SegFits(s) ==
  /\ segs[s].order \in 1 .. Len(segs)
  /\ segs[s].used \in Nat
  /\ Total(HeldIn(s), Vertices) <= segs[s].used
  /\ Total(HeldIn(s), Vertices) <= SegSlots[segs[s].order]

FitsStore ==
  /\ allocs \in Nat /\ Len(segs) <= allocs /\ allocs <= MemLimit
  /\ \A s \in 1 .. Len(segs) : SegFits(s)

FitsInv == FitsStore /\ MergeFits

LEMMA HeldInType ==
  ASSUME Types, NEW s \in 1 .. Len(segs), NEW g, g = HeldIn(s)
  PROVE  /\ \A v \in Vertices : g[v] = Held(segs[s].region[v]) /\ g[v] \in Nat
         /\ Total(g, Vertices) \in Nat
  <1>1. ASSUME NEW v \in Vertices
        PROVE  g[v] = Held(segs[s].region[v]) /\ g[v] \in Nat
    <2>1. segs[s].region[v] \in 0 .. Len(blks)
      BY RegionChain
    <2>2. g[v] = Held(segs[s].region[v])
      BY DEF HeldIn
    <2>3. QED
      BY <2>1, <2>2, HeldType DEF Types
  <1>2. QED
    BY <1>1, SlotsFinite, SegGraphAssumption

(* A segment that keeps its blocks. *)
LEMMA SegFitsKept ==
  ASSUME Types, BlocksGrow, Len(segs') \in Nat, Len(segs) <= Len(segs'),
         NEW s \in 1 .. Len(segs), SegFits(s),
         segs'[s].order = segs[s].order, segs'[s].region = segs[s].region,
         segs'[s].used \in Nat, segs'[s].used >= segs[s].used
  PROVE  SegFits(s)'
  <1>1. PICK g, h : g = HeldIn(s) /\ h = HeldIn(s)'
    OBVIOUS
  <1>2. \A b \in 0 .. Len(blks) : Held(b)' = Held(b)
    BY DEF Held, BlocksGrow
  <1>3. ASSUME NEW v \in Vertices PROVE h[v] = g[v]
    <2>1. PICK b : b = segs[s].region[v]
      OBVIOUS
    <2>2. b \in 0 .. Len(blks) /\ segs'[s].region[v] = b
      BY <2>1, RegionChain
    <2>3. h[v] = Held(b)' /\ g[v] = Held(b)
      BY <1>1, <2>1, <2>2 DEF HeldIn
    <2>4. QED
      BY <1>2, <2>2, <2>3
  <1>4. Total(h, Vertices) = Total(g, Vertices)
    BY <1>3, TotalSame
  <1>5. Total(g, Vertices) \in Nat /\ Len(segs) \in Nat
    BY <1>1, HeldInType DEF Types, SegTypes
  <1>6. /\ segs[s].order \in 1 .. Len(segs) /\ segs[s].used \in Nat
        /\ Total(g, Vertices) <= segs[s].used
        /\ Total(g, Vertices) <= SegSlots[segs[s].order]
    BY <1>1 DEF SegFits
  <1>7. /\ segs'[s].order \in 1 .. Len(segs')
        /\ Total(h, Vertices) <= segs'[s].used
        /\ Total(h, Vertices) <= SegSlots[segs'[s].order]
    BY <1>4, <1>5, <1>6
  <1>8. QED
    BY <1>1, <1>7 DEF SegFits

(* Every segment keeps its blocks. *)
LEMMA FitsKept ==
  ASSUME Types, FitsStore, BlocksGrow, Len(segs') = Len(segs),
         allocs' \in {allocs, allocs + 1}, allocs' <= MemLimit,
         \A s \in 1 .. Len(segs) :
           /\ segs'[s].order = segs[s].order
           /\ segs'[s].region = segs[s].region
           /\ segs'[s].used \in Nat /\ segs'[s].used >= segs[s].used
  PROVE  FitsStore'
  <1>1. Len(segs) \in Nat /\ allocs \in Nat /\ Len(segs) <= allocs
    BY DEF FitsStore, Types, SegTypes
  <1>2. \A s \in 1 .. Len(segs) : SegFits(s)'
    BY <1>1, SegFitsKept DEF FitsStore
  <1>3. QED
    BY <1>1, <1>2 DEF FitsStore

(* A new segment behind the present ones. *)
LEMMA FitsAdded ==
  ASSUME Types, FitsStore, BlocksGrow, NEW k, k = Len(segs) + 1, Len(segs') = k,
         \A s \in 1 .. Len(segs) : segs'[s] = segs[s],
         allocs' \in {allocs + 1, allocs + 2}, allocs' <= MemLimit, SegFits(k)'
  PROVE  FitsStore'
  <1>1. /\ Len(segs) \in Nat /\ allocs \in Nat /\ Len(segs) <= allocs /\ MemLimit \in Nat
    BY SegGraphAssumption DEF FitsStore, Types, SegTypes
  <1>2. \A s \in 1 .. Len(segs) : segs[s].used \in Nat /\ SegFits(s)
    BY DEF FitsStore, SegFits
  <1>3. ASSUME NEW s \in 1 .. Len(segs) PROVE SegFits(s)'
    <2>1. /\ segs'[s].order = segs[s].order /\ segs'[s].region = segs[s].region
          /\ segs'[s].used \in Nat /\ segs'[s].used >= segs[s].used
          /\ Len(segs') \in Nat /\ Len(segs) <= Len(segs')
      BY <1>1, <1>2
    <2>2. QED
      BY <1>2, <2>1, SegFitsKept
  <1>4. \A s \in 1 .. Len(segs') : SegFits(s)'
    BY <1>1, <1>3
  <1>5. allocs' \in Nat /\ Len(segs') <= allocs' /\ allocs' <= MemLimit
    BY <1>1
  <1>6. QED
    BY <1>4, <1>5 DEF FitsStore

(* The first segment holds nothing yet. *)
LEMMA FitsInit ==
  ASSUME Types, FitsStore, Next, NEW w \in Writers, Inits(w)
  PROVE  FitsStore'
  <1>1. PICK k : k = Len(segs) + 1
    OBVIOUS
  <1>2. /\ Len(segs') = k /\ segs'[k].order = 1 /\ segs'[k].used = 0
        /\ segs'[k].region = [v \in Vertices |-> 0]
        /\ \A s \in 1 .. Len(segs) : segs'[s] = segs[s]
    BY <1>1, InitSegs
  <1>3. /\ allocs' = allocs + 2 /\ allocs + 2 <= MemLimit /\ allocs \in Nat
        /\ MemLimit \in Nat /\ 1 <= MemLimit
    BY SegGraphAssumption DEF Inits, InitSegment, FitsStore
  <1>4. PICK h : h = HeldIn(k)'
    OBVIOUS
  <1>5. \A v \in Vertices : h[v] = 0
    BY <1>2, <1>4 DEF HeldIn, Held
  <1>6. Total(h, Vertices) = 0
    <2>1. Total(h, Vertices) = Total(h, {})
      BY <1>5, TotalPart
    <2>2. QED
      BY <2>1, SlotsNone
  <1>7. 0 <= SegSlots[1]
    <2>1. 1 \in 1 .. MemLimit
      BY <1>3
    <2>2. SegSlots[1] \in Nat
      BY <2>1, SlotsGrow
    <2>3. QED
      BY <2>2
  <1>8. 1 \in 1 .. k
    BY <1>1 DEF Types, SegTypes
  <1>9. SegFits(k)'
    BY <1>2, <1>4, <1>6, <1>7, <1>8 DEF SegFits
  <1>10. BlocksGrow
    BY BlockStep
  <1>11. QED
    BY <1>1, <1>2, <1>3, <1>9, <1>10, FitsAdded

(* A new block counts the entries behind it only if the old one has them. *)
LEMMA NewBlockHeld ==
  ASSUME BlockTypes, BlocksCounted, NEW b \in 0 .. Len(blks)
  PROVE  LET o == NewBlockOrder(b) IN
         /\ o \in Nat
         /\ NewBlock(b, o).order = o
         /\ NewBlock(b, o).prevnum \in Nat
         /\ NewBlock(b, o).prevnum <= Held(b)
  <1>1. PICK o : o = NewBlockOrder(b)
    OBVIOUS
  <1>2. o \in Nat /\ Held(b) \in Nat
    BY <1>1, NewOrderType, HeldType
  <1>3. NewBlock(b, o).order = o
    BY DEF NewBlock
  <1>4. CASE b = 0
    <2>1. NewBlock(b, o).prevnum = 0
      BY <1>4 DEF NewBlock
    <2>2. QED
      BY <1>1, <1>2, <1>3, <2>1
  <1>5. CASE b # 0
    <2>1. PICK p, n, k : p = blks[b].prevnum /\ n = Len(blks[b].ents) /\ k = blks[b].order
      OBVIOUS
    <2>2. /\ b \in 1 .. Len(blks) /\ p \in Nat /\ n \in Nat /\ k \in Nat
          /\ n <= Pow2[k]
      <3>1. b \in 1 .. Len(blks) /\ Len(blks) \in Nat
        BY <1>5 DEF BlockTypes
      <3>2. p \in Nat /\ n \in Nat /\ k \in Nat
        BY <2>1, <3>1, BlockFields
      <3>3. n <= Pow2[k]
        BY <2>1, <3>1 DEF BlocksCounted, BlockKept
      <3>4. QED
        BY <3>1, <3>2, <3>3
    <2>3. Held(b) = p + BlockSlots(k) /\ BlockSlots(k) = 3 + Pow2[k] /\ Pow2[k] \in Nat
      BY <2>1, <2>2, HeldType, SlotsNat
    <2>4. NewBlock(b, o).prevnum \in {0, p + n}
      BY <1>5, <2>1 DEF NewBlock
    <2>5. NewBlock(b, o).prevnum \in Nat /\ NewBlock(b, o).prevnum <= Held(b)
      <3>1. PICK x, h, r : x = NewBlock(b, o).prevnum /\ h = Held(b) /\ r = Pow2[k]
        OBVIOUS
      <3>2. /\ p \in Nat /\ n \in Nat /\ r \in Nat /\ n <= r /\ h = p + (3 + r)
            /\ x \in {0, p + n}
        BY <2>2, <2>3, <2>4, <3>1
      <3>3. x \in Nat /\ x <= h
        BY ONLY <3>2
      <3>4. QED
        BY <3>1, <3>3
    <2>6. QED
      BY <1>1, <1>2, <1>3, <2>5
  <1>6. QED
    BY <1>4, <1>5

LEMMA FitsGrow ==
  ASSUME Types, KeptInv, FitsStore, Next, NEW w \in Writers, GrowBlock(w)
  PROVE  FitsStore'
  <1>1. PICK s, v, b, n, o : /\ s = wr[w].seg /\ v = wr[w].v /\ b = Region(wr[w].seg, wr[w].v)
                             /\ n = Len(blks) + 1 /\ o = NewBlockOrder(b)
    OBVIOUS
  <1>2. PICK y : y = NewBlock(b, o)
    OBVIOUS
  <1>3. /\ b \in 0 .. Len(blks) /\ blks' = Append(blks, y) /\ y \in Block
        /\ blks \in Seq(Block) /\ Len(blks) \in Nat
    BY <1>1, <1>2, GrowBlocks DEF Types, BlockTypes
  <1>4. /\ s \in 1 .. Len(segs) /\ v \in Vertices
        /\ segs'[s].order = segs[s].order /\ segs'[s].used = SlotsAfter(w)
        /\ segs'[s].region = [segs[s].region EXCEPT ![v] = n]
        /\ Len(segs') = Len(segs)
        /\ \A t \in 1 .. Len(segs) : t # s => segs'[t] = segs[t]
    BY <1>1, GrowSegs DEF OtherSegsKept
  <1>5. s # 0 /\ Len(segs) \in Nat /\ segs[s].region \in [Vertices -> 0 .. Len(blks)]
    <2>1. segs[s].region \in [Vertices -> 0 .. Len(blks)]
      BY <1>4, SegmentFields DEF Types
    <2>2. Len(segs) \in Nat
      BY DEF Types, SegTypes
    <2>3. QED
      BY <1>4, <2>1, <2>2
  <1>6. /\ b = segs[s].region[v]
        /\ SlotsAfter(w) = segs[s].used + BlockSlots(o)
        /\ SlotsAfter(w) <= SegSlots[segs[s].order]
        /\ allocs' = allocs
    <2>1. b = segs[s].region[v]
      BY <1>1, <1>5 DEF Region
    <2>2. SlotsAfter(w) = segs[s].used + BlockSlots(NewBlockOrder(segs[s].region[v]))
      BY <1>1 DEF SlotsAfter
    <2>3. SlotsAfter(w) <= SegSlots[segs[s].order] /\ allocs' = allocs
      BY <1>1 DEF GrowBlock
    <2>4. QED
      BY <1>1, <2>1, <2>2, <2>3
  <1>7. /\ o \in Nat /\ y.order = o /\ y.prevnum \in Nat /\ y.prevnum <= Held(b)
        /\ BlockSlots(o) \in Nat
    BY <1>1, <1>2, <1>3, NewBlockHeld, SlotsNat DEF Types, KeptInv, KeptStore
  <1>8. /\ n \in Nat /\ n # 0 /\ blks'[n] = y
        /\ \A c \in 1 .. Len(blks) : blks'[c] = blks[c]
    BY <1>1, <1>3
  <1>9. PICK g, h : g = HeldIn(s) /\ h = HeldIn(s)'
    OBVIOUS
  <1>10. /\ \A u \in Vertices : g[u] \in Nat /\ g[u] = Held(segs[s].region[u])
         /\ Total(g, Vertices) \in Nat
    BY <1>4, <1>9, HeldInType
  <1>11. h[v] = y.prevnum + BlockSlots(o)
    <2>1. segs'[s].region[v] = n
      BY <1>4, <1>5
    <2>2. Held(n)' = y.prevnum + BlockSlots(o)
      BY <1>7, <1>8 DEF Held
    <2>3. h[v] = Held(n)'
      BY <1>4, <1>9, <2>1 DEF HeldIn
    <2>4. QED
      BY <2>2, <2>3
  <1>12. \A u \in Vertices \ {v} : h[u] = g[u]
    <2> SUFFICES ASSUME NEW u \in Vertices \ {v} PROVE h[u] = g[u]
      OBVIOUS
    <2>1. PICK c : c = segs[s].region[u]
      OBVIOUS
    <2>2. segs'[s].region[u] = c /\ c \in 0 .. Len(blks)
      BY ONLY <1>4, <1>5, <2>1, u \in Vertices \ {v}
    <2>3. Held(c)' = Held(c)
      BY <1>8, <2>2 DEF Held
    <2>4. h[u] = Held(c)'
      BY <1>9, <2>2 DEF HeldIn
    <2>5. QED
      BY <1>10, <2>1, <2>3, <2>4
  <1>13. h[v] <= g[v] + BlockSlots(o) /\ h[v] \in Nat
    <2>1. g[v] = Held(b) /\ g[v] \in Nat
      BY <1>4, <1>6, <1>10
    <2>2. QED
      BY <1>7, <1>11, <2>1
  <1>14. Total(h, Vertices) <= Total(g, Vertices) + BlockSlots(o)
         /\ Total(h, Vertices) \in Nat
    <2>1. \A u \in Vertices : g[u] \in Nat /\ h[u] \in Nat
      BY <1>10, <1>12, <1>13
    <2>2. QED
      BY <1>4, <1>7, <1>12, <1>13, <2>1, TotalGrows, SlotsFinite, SegGraphAssumption
  <1>15. /\ segs[s].order \in 1 .. Len(segs) /\ segs[s].used \in Nat
         /\ Total(g, Vertices) <= segs[s].used
         /\ allocs \in Nat /\ Len(segs) <= allocs /\ allocs <= MemLimit
    BY <1>4, <1>9 DEF FitsStore, SegFits
  <1>16. /\ segs'[s].used \in Nat /\ Total(h, Vertices) <= segs'[s].used
         /\ Total(h, Vertices) <= SegSlots[segs[s].order]
    <2>1. segs'[s].used = segs[s].used + BlockSlots(o)
      BY <1>4, <1>6
    <2>2. Total(h, Vertices) <= segs[s].used + BlockSlots(o)
      BY ONLY <1>7, <1>10, <1>14, <1>15
    <2>3. segs'[s].used <= SegSlots[segs[s].order]
      BY <1>4, <1>6
    <2>4. SegSlots[segs[s].order] \in Nat
      <3>1. segs[s].order \in 1 .. MemLimit
        BY ONLY <1>5, <1>15, SlotsGrow
      <3>2. QED
        BY <3>1, SlotsGrow
    <2>5. QED
      BY ONLY <1>7, <1>14, <1>15, <2>1, <2>2, <2>3, <2>4, SMTT(30)
  <1>17. SegFits(s)'
    BY <1>4, <1>9, <1>15, <1>16 DEF SegFits
  <1>18. ASSUME NEW t \in 1 .. Len(segs), t # s PROVE SegFits(t)'
    <2>1. SegFits(t) /\ segs'[t] = segs[t] /\ BlocksGrow
      BY <1>4, <1>18, BlockStep DEF FitsStore
    <2>2. segs[t].used \in Nat
      BY <2>1 DEF SegFits
    <2>3. /\ segs'[t].order = segs[t].order /\ segs'[t].region = segs[t].region
          /\ segs'[t].used \in Nat /\ segs'[t].used >= segs[t].used
          /\ Len(segs') \in Nat /\ Len(segs) <= Len(segs')
      BY <1>4, <1>5, <2>1, <2>2
    <2>4. QED
      BY <2>1, <2>3, SegFitsKept
  <1>19. QED
    BY <1>4, <1>6, <1>15, <1>17, <1>18 DEF FitsStore

(* Slots of a merged block, against those of the block it is made from. *)
LEMMA MergedBlockSlots ==
  ASSUME Types, KeptStore, NEW s \in 1 .. Len(segs), NEW u \in Vertices, NEW v \in Vertices,
         NEW b, b = segs[s].region[u],
         NEW g, g = SlotsFor(s, v)[u], NEW h, h = HeldIn(s)[u]
  PROVE  /\ g \in Nat /\ g = BlockSlots(MergedOrder(s, u, v))
         /\ u = v => IF b = 0 THEN g = 4 ELSE g <= 2 * h - 2
         /\ u # v /\ u \in Merged(s, v) => g <= 2 * h - 4
  <1>1. PICK n, k : n = Len(Chain(b)) /\ k = MergedOrder(s, u, v)
    OBVIOUS
  <1>2. b \in 0 .. Len(blks) /\ n \in Nat
    BY <1>1, RegionChain
  <1>3. /\ k \in Nat /\ Pow2[k] \in Nat /\ Pow2[k] > k
        /\ u = v => Pow2[k] <= 2 * n + 1
        /\ u # v /\ n >= 1 => Pow2[k] <= 2 * n - 1
    BY <1>1, MergedOrderHolds
  <1>4. g = BlockSlots(k) /\ BlockSlots(k) = 3 + Pow2[k]
    BY <1>1, <1>3, SlotsNat DEF SlotsFor
  <1>5. h \in Nat /\ (b # 0 => n + 3 <= h)
    <2>1. h = Held(b) /\ h \in Nat
      <3>1. PICK f : f = HeldIn(s)
        OBVIOUS
      <3>2. QED
        BY <3>1, HeldInType
    <2>2. ASSUME b # 0 PROVE n + 3 <= h
      <3>1. PICK p, m, o, c, d : /\ p = blks[b].prevnum /\ m = Len(blks[b].ents)
                                 /\ o = blks[b].order
                                 /\ c = Chain(blks[b].prev) /\ d = blks[b].ents
        OBVIOUS
      <3>2. /\ b \in 1 .. Len(blks) /\ p \in Nat /\ m \in Nat /\ o \in Nat
            /\ blks[b].prev \in 0 .. Len(blks) /\ d \in Seq(Nat)
        <4>1. BlockTypes /\ b \in 1 .. Len(blks)
          BY <1>2, <2>2 DEF Types
        <4>2. /\ p \in Nat /\ m \in Nat /\ o \in Nat /\ d \in Seq(Nat)
              /\ blks[b].prev \in 0 .. b - 1 /\ Len(blks) \in Nat
          BY ONLY <3>1, <4>1, BlockFields
        <4>3. QED
          BY <4>1, <4>2
      <3>3. p = Len(c) /\ m <= Pow2[o]
        BY <3>1, <3>2 DEF KeptStore, BlocksCounted, BlockKept
      <3>4. n = p + m
        <4>1. c \in Seq(Nat) /\ Chain(b) = c \o d
          BY <3>1, <3>2, ChainType, ChainDef DEF Types
        <4>2. Len(c \o d) = Len(c) + Len(d)
          BY <3>2, <4>1
        <4>3. QED
          BY <1>1, <3>1, <3>3, <4>1, <4>2
      <3>5. h = p + (3 + Pow2[o]) /\ Pow2[o] \in Nat
        BY <2>1, <2>2, <3>1, <3>2, SlotsNat DEF Held
      <3>6. PICK r : r = Pow2[o]
        OBVIOUS
      <3>7. r \in Nat /\ m <= r /\ h = p + (3 + r)
        BY <3>3, <3>5, <3>6
      <3>8. QED
        BY ONLY <3>2, <3>4, <3>7
    <2>3. QED
      BY <2>1, <2>2
  <1>6. b = 0 => n = 0
    BY <1>1, ChainDef DEF Types
  <1>7. u # v /\ u \in Merged(s, v) => n >= 1
    <2> SUFFICES ASSUME u # v, u \in Merged(s, v) PROVE n >= 1
      OBVIOUS
    <2>1. Chain(b) # << >> /\ Chain(b) \in Seq(Nat)
      BY RegionChain DEF Merged
    <2>2. n # 0
      BY <1>1, <2>1
    <2>3. QED
      BY <1>2, <2>2
  <1>8. u = v /\ b = 0 => g = 4
    <2> SUFFICES ASSUME u = v, b = 0 PROVE g = 4
      OBVIOUS
    <2>1. Pow2[k] <= 1 /\ Pow2[k] > k
      BY <1>3, <1>6
    <2>2. Pow2[k] = 1
      BY <1>3, <2>1
    <2>3. QED
      BY <1>4, <2>2
  <1>9. u = v /\ b # 0 => g <= 2 * h - 2
    BY ONLY <1>2, <1>3, <1>4, <1>5
  <1>10. u # v /\ u \in Merged(s, v) => g <= 2 * h - 4
    BY ONLY <1>2, <1>3, <1>4, <1>5, <1>6, <1>7
  <1>11. g \in Nat /\ g = BlockSlots(MergedOrder(s, u, v))
    BY <1>1, <1>3, <1>4
  <1>12. QED
    BY <1>8, <1>9, <1>10, <1>11

(* The unchecked allocations of merge_segment succeed. *)
LEMMA MergeHasRoom ==
  ASSUME Types, KeptStore, FitsStore, NEW w \in Writers, MergeSegment(w)
  PROVE  /\ ~ MergeCrashes(w)
         /\ MergeOrder(wr[w].seg) \in 1 .. Len(segs) + 1
  <1>1. PICK s, v, M, k : /\ s = wr[w].seg /\ v = wr[w].v /\ M = Merged(s, v)
                          /\ k = segs[s].order
    OBVIOUS
  <1>2. s \in 1 .. Len(segs) /\ v \in Vertices /\ Len(segs) \in Nat
    BY <1>1, WriterAt DEF MergeSegment, Types, SegTypes
  <1>3. M \in SUBSET Vertices /\ v \in M /\ IsFiniteSet(Vertices) /\ IsFiniteSet(M)
    <2>1. M \in SUBSET Vertices /\ v \in M
      BY <1>1, <1>2 DEF Merged
    <2>2. QED
      BY <2>1, FS_Subset, SegGraphAssumption
  <1>4. /\ k \in 1 .. Len(segs) /\ Total(HeldIn(s), Vertices) <= SegSlots[k]
        /\ Len(segs) <= allocs /\ allocs \in Nat /\ allocs < MemLimit /\ MemLimit \in Nat
    BY <1>1, <1>2, SegGraphAssumption DEF FitsStore, SegFits, MergeSegment
  <1>5. PICK g, h, b : g = HeldIn(s) /\ h = SlotsFor(s, v) /\ b = segs[s].region[v]
    OBVIOUS
  <1>6. /\ \A u \in Vertices : g[u] \in Nat /\ h[u] \in Nat
        /\ b = 0 => h[v] = 4
        /\ b # 0 => h[v] <= 2 * g[v] - 2
        /\ \A u \in M : u # v => h[u] <= 2 * g[u] - 4
    <2>1. \A u \in Vertices : g[u] \in Nat
      BY <1>2, <1>5, HeldInType
    <2>2. ASSUME NEW u \in Vertices, NEW c, c = segs[s].region[u],
                 NEW x, x = SlotsFor(s, v)[u], NEW y, y = HeldIn(s)[u]
          PROVE  /\ x \in Nat
                 /\ u = v => IF c = 0 THEN x = 4 ELSE x <= 2 * y - 2
                 /\ u # v /\ u \in Merged(s, v) => x <= 2 * y - 4
      BY <1>2, <2>2, MergedBlockSlots
    <2>3. ASSUME NEW u \in Vertices
          PROVE  /\ h[u] \in Nat
                 /\ u = v => IF b = 0 THEN h[u] = 4 ELSE h[u] <= 2 * g[u] - 2
                 /\ u # v /\ u \in M => h[u] <= 2 * g[u] - 4
      BY <1>1, <1>5, <2>2
    <2>4. QED
      BY <1>2, <1>3, <2>1, <2>3
  <1>7. MergedSlots(s, v) = Total(h, M)
    <2>1. \A u \in Vertices : BlockSlots(MergedOrder(s, u, v)) \in Nat
      BY <1>2, <1>5, <1>6 DEF SlotsFor
    <2>2. QED
      BY <1>1, <1>5, <2>1, MergedSlotsTotal
  <1>8. Total(g, M) \in Nat /\ Total(g, M) <= SegSlots[k]
    <2>1. /\ Total(g, M) \in Nat /\ Total(g, Vertices) \in Nat
          /\ IsFiniteSet(Slots(g, Vertices))
      BY <1>3, <1>6, SlotsFinite
    <2>2. Slots(g, M) \subseteq Slots(g, Vertices)
      BY <1>3 DEF Slots
    <2>3. Total(g, M) <= Total(g, Vertices)
      BY <2>1, <2>2, FS_Subset DEF Total
    <2>4. SegSlots[k] \in Nat
      <3>1. k \in 1 .. MemLimit
        BY ONLY <1>2, <1>4
      <3>2. QED
        BY <3>1, SlotsGrow
    <2>5. QED
      BY <1>4, <1>5, <2>1, <2>3, <2>4
  <1>9. SegSlots[k] \in Nat /\ SegSlots[k] >= 2
        /\ SegSlots[k + 1] \in Nat /\ SegSlots[k + 1] >= 2 * SegSlots[k]
    <2>1. k \in 1 .. MemLimit /\ k + 1 \in 1 .. MemLimit /\ k + 1 <= MemLimit
      BY ONLY <1>2, <1>4
    <2>2. QED
      BY <2>1, SlotsGrow
  <1>10. Total(h, M) \in Nat /\ Total(h, M) <= 2 * SegSlots[k]
    <2>0. Total(h, M) \in Nat
      BY <1>3, <1>6, SlotsFinite
    <2>1. CASE b # 0
      <3>1. \A u \in M : g[u] \in Nat /\ h[u] \in Nat /\ h[u] <= 2 * g[u]
        <4>1. ASSUME NEW u \in M PROVE g[u] \in Nat /\ h[u] \in Nat /\ h[u] <= 2 * g[u]
          <5>1. u \in Vertices /\ (h[u] <= 2 * g[u] - 2 \/ h[u] <= 2 * g[u] - 4)
            BY <1>3, <1>6, <2>1
          <5>2. QED
            BY <1>6, <5>1
        <4>2. QED
          BY <4>1
      <3>2. Total(h, M) <= 2 * Total(g, M)
        BY <1>3, <3>1, TotalDoubled
      <3>3. QED
        BY ONLY <1>8, <1>9, <2>0, <3>2
    <2>2. CASE b = 0
      <3>1. PICK N : N = M \ {v}
        OBVIOUS
      <3>2. N \in SUBSET Vertices /\ IsFiniteSet(N)
        BY <1>3, <3>1, FS_Subset
      <3>3. /\ Total(h, M) = Total(h, N) + 4 /\ Total(h, N) \in Nat
            /\ Total(g, M) = Total(g, N) + g[v] /\ Total(g, N) \in Nat /\ g[v] \in Nat
        <4>1. h[v] = 4
          BY <1>6, <2>2
        <4>2. /\ Total(h, M) = Total(h, M \ {v}) + h[v] /\ Total(h, M \ {v}) \in Nat
              /\ Total(g, M) = Total(g, M \ {v}) + g[v] /\ Total(g, M \ {v}) \in Nat
              /\ g[v] \in Nat
          <5>1. (\A u \in Vertices : h[u] \in Nat) /\ \A u \in Vertices : g[u] \in Nat
            BY <1>6
          <5>2. Total(h, M) = Total(h, M \ {v}) + h[v] /\ Total(h, M \ {v}) \in Nat
            BY ONLY <1>3, <5>1, TotalSplit
          <5>3. /\ Total(g, M) = Total(g, M \ {v}) + g[v] /\ Total(g, M \ {v}) \in Nat
                /\ g[v] \in Nat
            BY ONLY <1>3, <5>1, TotalSplit
          <5>4. QED
            BY <5>2, <5>3
        <4>3. QED
          BY <3>1, <4>1, <4>2
      <3>4. CASE N = {}
        <4>1. Total(h, N) = 0
          BY <3>4, SlotsNone
        <4>2. QED
          BY ONLY <1>9, <2>0, <3>3, <4>1
      <3>5. CASE N # {}
        <4>1. PICK x \in N : TRUE
          BY <3>5
        <4>2. PICK P : P = N \ {x}
          OBVIOUS
        <4>3. P \in SUBSET Vertices /\ IsFiniteSet(P)
          BY <3>2, <4>2, FS_Subset
        <4>4. /\ Total(h, N) = Total(h, P) + h[x] /\ Total(h, P) \in Nat /\ h[x] \in Nat
              /\ Total(g, N) = Total(g, P) + g[x] /\ Total(g, P) \in Nat /\ g[x] \in Nat
          <5>1. (\A u \in Vertices : h[u] \in Nat) /\ \A u \in Vertices : g[u] \in Nat
            BY <1>6
          <5>2. /\ Total(h, N) = Total(h, N \ {x}) + h[x] /\ Total(h, N \ {x}) \in Nat
                /\ h[x] \in Nat
            BY ONLY <1>3, <3>2, x \in N, <5>1, TotalSplit
          <5>3. /\ Total(g, N) = Total(g, N \ {x}) + g[x] /\ Total(g, N \ {x}) \in Nat
                /\ g[x] \in Nat
            BY ONLY <1>3, <3>2, x \in N, <5>1, TotalSplit
          <5>4. QED
            BY <4>2, <5>2, <5>3
        <4>5. \A u \in N : h[u] <= 2 * g[u] - 4
          BY <1>6, <3>1
        <4>6. Total(h, P) <= 2 * Total(g, P)
          <5>1. \A u \in P : g[u] \in Nat /\ h[u] \in Nat /\ h[u] <= 2 * g[u]
            <6>1. ASSUME NEW u \in P PROVE g[u] \in Nat /\ h[u] \in Nat /\ h[u] <= 2 * g[u]
              <7>1. u \in Vertices /\ h[u] <= 2 * g[u] - 4
                BY <3>2, <4>2, <4>5
              <7>2. QED
                BY <1>6, <7>1
            <6>2. QED
              BY <6>1
          <5>2. QED
            BY <4>3, <5>1, TotalDoubled
        <4>7. h[x] <= 2 * g[x] - 4
          BY <4>1, <4>5
        <4>8. QED
          BY ONLY <1>8, <1>9, <2>0, <3>3, <4>4, <4>6, <4>7
      <3>6. QED
        BY <3>4, <3>5
    <2>3. QED
      BY <2>0, <2>1, <2>2
  <1>11. MergeOrder(wr[w].seg) = k + 1
    BY <1>1 DEF MergeOrder
  <1>12. ~ MergeCrashes(w)
    <2>1. ~ (Total(h, M) > SegSlots[k + 1])
      BY ONLY <1>9, <1>10
    <2>2. QED
      BY <1>1, <1>7, <1>11, <2>1 DEF MergeCrashes
  <1>13. QED
    BY <1>2, <1>4, <1>11, <1>12

(* After the merge every vertex holds the slots of its new block. *)
LEMMA FitsMerge ==
  ASSUME Types, KeptStore, FitsStore, Next, NEW w \in Writers, MergeSegment(w)
  PROVE  FitsStore'
  <1>1. ~ MergeCrashes(w) /\ MergeOrder(wr[w].seg) \in 1 .. Len(segs) + 1
    BY MergeHasRoom
  <1>2. PICK M, at : MergesInto(w, M, at)
    BY <1>1, MergeBlocks
  <1>3. PICK s, v, k, z : s = wr[w].seg /\ v = wr[w].v /\ k = Len(segs) + 1 /\ z = Len(blks)
    OBVIOUS
  <1>4. /\ M = Merged(s, v) /\ M \in SUBSET Vertices /\ v \in M
        /\ at \in [M -> z + 1 .. Len(blks')]
        /\ \A x, y \in M : x # y => at[x] # at[y]
        /\ \A i \in z + 1 .. Len(blks') :
             \E u \in M : at[u] = i /\ blks'[i] = MergedBlock(s, u, v)
    BY <1>2, <1>3 DEF MergesInto
  <1>5. /\ s \in 1 .. Len(segs) /\ Len(segs') = k
        /\ \A t \in 1 .. Len(segs) : segs'[t] = segs[t]
        /\ segs'[k].order = MergeOrder(s) /\ segs'[k].used = MergedSlots(s, v)
        /\ \A u \in M : segs'[k].region[u] = at[u]
        /\ \A u \in Vertices \ M : segs'[k].region[u] = 0
    BY <1>1, <1>2, <1>3, MergeSegs
  <1>6. /\ Len(segs) \in Nat /\ z \in Nat /\ k # 0 /\ v \in Vertices
    BY <1>3, <1>4, <1>5 DEF Types, SegTypes, BlockTypes
  <1>7. \A u \in M : at[u] \in z + 1 .. Len(blks') /\ blks'[at[u]] = MergedBlock(s, u, v)
    <2> SUFFICES ASSUME NEW u \in M
                 PROVE  at[u] \in z + 1 .. Len(blks') /\ blks'[at[u]] = MergedBlock(s, u, v)
      OBVIOUS
    <2>1. at[u] \in z + 1 .. Len(blks')
      BY <1>4
    <2>2. PICK x \in M : at[x] = at[u] /\ blks'[at[u]] = MergedBlock(s, x, v)
      BY <1>4, <2>1
    <2>3. x = u
      BY <1>4, <2>2
    <2>4. QED
      BY <2>1, <2>2, <2>3
  <1>8. PICK g, h : g = HeldIn(k)' /\ h = SlotsFor(s, v)
    OBVIOUS
  <1>9. \A u \in Vertices : h[u] \in Nat /\ h[u] = BlockSlots(MergedOrder(s, u, v))
    BY <1>5, <1>6, <1>8, MergedBlockSlots
  <1>10. \A u \in M : g[u] = h[u]
    <2> SUFFICES ASSUME NEW u \in M PROVE g[u] = h[u]
      OBVIOUS
    <2>1. PICK c : c = at[u]
      OBVIOUS
    <2>2. c # 0 /\ blks'[c].prevnum = 0 /\ blks'[c].order = MergedOrder(s, u, v)
      <3>1. c \in z + 1 .. Len(blks') /\ blks'[c] = MergedBlock(s, u, v)
        BY <1>7, <2>1
      <3>2. c # 0
        BY <1>6, <3>1
      <3>3. /\ MergedBlock(s, u, v).prevnum = 0
            /\ MergedBlock(s, u, v).order = MergedOrder(s, u, v)
        BY DEF MergedBlock
      <3>4. QED
        BY <3>1, <3>2, <3>3
    <2>3. segs'[k].region[u] = c /\ u \in Vertices
      BY <1>4, <1>5, <2>1
    <2>4. g[u] = Held(c)'
      BY <1>8, <2>3 DEF HeldIn
    <2>5. Held(c)' = 0 + h[u]
      BY <1>9, <2>2, <2>3 DEF Held
    <2>6. QED
      BY <1>9, <2>3, <2>4, <2>5
  <1>11. \A u \in Vertices \ M : g[u] = 0
    <2> SUFFICES ASSUME NEW u \in Vertices \ M PROVE g[u] = 0
      OBVIOUS
    <2>1. segs'[k].region[u] = 0
      BY <1>5
    <2>2. QED
      BY <1>8, <2>1 DEF HeldIn, Held
  <1>12. Total(g, Vertices) = MergedSlots(s, v)
    <2>1. Total(g, Vertices) = Total(g, M)
      BY <1>4, <1>11, TotalPart
    <2>2. Total(g, M) = Total(h, M)
      BY <1>10, TotalSame
    <2>3. \A u \in Vertices : BlockSlots(MergedOrder(s, u, v)) \in Nat
      BY <1>9
    <2>4. MergedSlots(s, v) = Total(h, M)
      BY <1>4, <1>6, <1>8, <2>3, MergedSlotsTotal
    <2>5. QED
      BY <2>1, <2>2, <2>4
  <1>13. Total(g, Vertices) \in Nat
    <2>1. \A u \in Vertices : g[u] \in Nat
      BY <1>9, <1>10, <1>11
    <2>2. QED
      BY <2>1, SlotsFinite, SegGraphAssumption
  <1>14. /\ allocs' \in Nat /\ Len(segs) + 1 <= allocs' /\ allocs' <= MemLimit
    <2>1. /\ allocs' = allocs + 1 /\ allocs < MemLimit /\ allocs \in Nat /\ MemLimit \in Nat
          /\ Len(segs) <= allocs
      BY SegGraphAssumption DEF MergeSegment, FitsStore
    <2>2. QED
      BY ONLY <1>6, <2>1
  <1>15. Total(g, Vertices) <= SegSlots[MergeOrder(s)]
    <2>1. MergeOrder(s) \in 1 .. MemLimit
      BY ONLY <1>1, <1>3, <1>6, <1>14, SlotsGrow
    <2>2. SegSlots[MergeOrder(s)] \in Nat
      BY <2>1, SlotsGrow
    <2>3. ~ (MergedSlots(s, v) > SegSlots[MergeOrder(s)])
      BY <1>1, <1>3 DEF MergeCrashes
    <2>4. QED
      BY <1>12, <1>13, <2>2, <2>3
  <1>16. SegFits(k)'
    BY <1>1, <1>3, <1>5, <1>6, <1>8, <1>12, <1>13, <1>15 DEF SegFits
  <1>17. BlocksGrow /\ allocs' = allocs + 1 /\ allocs < MemLimit
    BY BlockStep DEF MergeSegment
  <1>18. QED
    BY <1>3, <1>5, <1>14, <1>16, <1>17, FitsAdded

LEMMA FitsStep ==
  ASSUME Types, KeptInv, FitsInv, [Next]_vars
  PROVE  FitsInv'
  <1>0. /\ FitsStore /\ \A w \in Writers : wr[w].pc # "crashed"
        /\ allocs \in Nat /\ allocs <= MemLimit /\ KeptStore
        /\ \A s \in 1 .. Len(segs) : segs[s].used \in Nat
    BY DEF FitsInv, FitsStore, SegFits, MergeFits, KeptInv
  <1>1. ASSUME BlocksGrow, UNCHANGED segs, allocs' \in {allocs, allocs + 1},
               allocs' <= MemLimit
        PROVE  FitsStore'
    <2>1. \A s \in 1 .. Len(segs) : segs[s].used \in Nat /\ segs[s].used >= segs[s].used
      BY <1>0
    <2>2. QED
      BY <1>0, <1>1, <2>1, FitsKept
  <1>2. CASE \/ \E e \in LogEpochs : NextEpoch(e)
             \/ Recycle
             \/ \E r \in Readers : Read(r)
             \/ UNCHANGED vars
    <2>1. UNCHANGED <<segs, blks, allocs, wr>>
      <3>1. CASE \E e \in LogEpochs : NextEpoch(e)
        BY <3>1 DEF NextEpoch, store
      <3>2. CASE Recycle
        BY <3>2 DEF Recycle
      <3>3. CASE \E r \in Readers : Read(r)
        BY <3>3, ReadFrame
      <3>4. CASE UNCHANGED vars
        BY <3>4 DEF vars, store
      <3>5. QED
        BY <1>2, <3>1, <3>2, <3>3, <3>4
    <2>2. FitsStore'
      BY <1>0, <1>1, <2>1, BlocksSame DEF Types
    <2>3. MergeFits'
      BY <1>0, <2>1 DEF MergeFits
    <2>4. QED
      BY <2>2, <2>3 DEF FitsInv
  <1>3. ASSUME NEW w \in Writers, LockStep(w) \/ StoreStep(w), Next
        PROVE  FitsInv'
    <2> DEFINE q == wr'[w]
    <2>0. /\ wr[w] \in WriterType /\ wr \in [Writers -> WriterType]
          /\ \A x \in Writers : wr[x].pc # "crashed"
      BY <1>0 DEF Types, WriterTypes
    <2>b. BlocksGrow
      BY <1>3, BlockStep
    <2>o. \A x \in Writers : x # w => wr'[x] = wr[x]
      BY <1>3, OneWriterMoves
    <2>s. SUFFICES FitsStore' /\ q.pc # "crashed"
      BY <2>0, <2>o DEF FitsInv, MergeFits
    <2>1. CASE LockStep(w)
      <3>1. FitsStore'
        <4>1. allocs' \in {allocs, allocs + 1} /\ allocs' <= MemLimit
          <5>1. CASE InitFails(w)
            BY <1>0, <5>1 DEF InitFails, InitSegment
          <5>2. CASE ~ InitFails(w)
            BY <1>0, <2>1, <5>2 DEF LockStep, LockFutex, LocateSegment, Restart, Reshare,
                                    UseBlock, OutOfMemory, PutEdge, store
          <5>3. QED
            BY <5>1, <5>2
        <4>2. QED
          BY <1>1, <2>1, <2>b, <4>1, LockStepFrame
      <3>2. q.pc # "crashed"
        <4>1. CASE LocateSegment(w)
          BY <2>0, <4>1 DEF LocateSegment, WriterType
        <4>2. CASE Restart(w)
          BY <2>0, <4>2 DEF Restart, WriterType
        <4>3. CASE Reshare(w)
          BY <2>0, <4>3 DEF Reshare, WriterType
        <4>4. CASE UseBlock(w)
          BY <2>0, <4>4 DEF UseBlock, WriterType
        <4>5. CASE OutOfMemory(w)
          BY <2>0, <4>5 DEF OutOfMemory, IdleWriter
        <4>6. CASE \E u \in Vertices : PutEdge(w, u)
          BY <2>0, <4>6 DEF PutEdge, IdleWriter
        <4>7. CASE LockFutex(w)
          BY <2>0, <4>7 DEF LockFutex, WriterType
        <4>8. CASE InitFails(w)
          BY <2>0, <4>8 DEF InitFails, InitSegment, WriterType
        <4>9. QED
          BY <2>1, <4>1, <4>2, <4>3, <4>4, <4>5, <4>6, <4>7, <4>8 DEF LockStep
      <3>3. QED
        BY <3>1, <3>2
    <2>2. CASE Inits(w)
      <3>1. FitsStore'
        BY <1>0, <1>3, <2>2, FitsInit
      <3>2. q.pc = "reshare"
        BY <2>0, <2>2 DEF Inits, InitSegment, WriterType
      <3>3. QED
        BY <3>1, <3>2
    <2>3. CASE GrowBlock(w)
      <3>1. FitsStore'
        BY <1>0, <1>3, <2>3, FitsGrow
      <3>2. q.pc = "table"
        BY <2>0, <2>3 DEF GrowBlock, NeedsBlock, WriterType
      <3>3. QED
        BY <3>1, <3>2
    <2>4. CASE SegmentFull(w)
      <3>1. PICK s, v, b : s = wr[w].seg /\ v = wr[w].v /\ b = segs[wr[w].seg].region[wr[w].v]
        OBVIOUS
      <3>2. /\ Len(segs') = Len(segs) /\ s \in 1 .. Len(segs)
            /\ \A t \in 1 .. Len(segs) : t # s => segs'[t] = segs[t]
            /\ segs'[s].order = segs[s].order /\ segs'[s].used = SlotsAfter(w)
            /\ segs'[s].region = segs[s].region
        BY <1>3, <2>4, <3>1, FullSegs DEF OtherSegsKept
      <3>3. v \in Vertices
        BY <2>4, <3>1, WriterAt DEF SegmentFull, NeedsBlock
      <3>4. /\ SlotsAfter(w) = segs[s].used + BlockSlots(NewBlockOrder(b))
            /\ BlockSlots(NewBlockOrder(b)) \in Nat
        <4>1. b \in 0 .. Len(blks)
          BY <3>1, <3>2, <3>3, RegionChain
        <4>2. BlockSlots(NewBlockOrder(b)) \in Nat
          BY <4>1, NewOrderType, SlotsNat DEF Types
        <4>3. QED
          BY <3>1, <4>2 DEF SlotsAfter
      <3>5. segs[s].used \in Nat
        BY <1>0, <3>2
      <3>6. segs'[s].used \in Nat /\ segs'[s].used >= segs[s].used
        BY <3>2, <3>4, <3>5
      <3>7. allocs' = allocs /\ q.pc = "merge"
        BY <2>0, <2>4 DEF SegmentFull, WriterType
      <3>8. \A t \in 1 .. Len(segs) :
              /\ segs'[t].order = segs[t].order /\ segs'[t].region = segs[t].region
              /\ segs'[t].used \in Nat /\ segs'[t].used >= segs[t].used
        BY <1>0, <3>2, <3>6
      <3>9. FitsStore'
        BY <1>0, <2>b, <3>2, <3>7, <3>8, FitsKept
      <3>10. QED
        BY <3>7, <3>9
    <2>5. CASE MergeSegment(w)
      <3>1. FitsStore' /\ ~ MergeCrashes(w)
        BY <1>0, <1>3, <2>5, FitsMerge, MergeHasRoom
      <3>2. q.pc = "reshare"
        BY <2>0, <2>5, <3>1 DEF MergeSegment, MergeCrashes, WriterType
      <3>3. QED
        BY <3>1, <3>2
    <2>6. CASE CreateTable(w) \/ ReplaceTable(w)
      <3>1. PICK s : s = wr[w].seg
        OBVIOUS
      <3>2. /\ Len(segs') = Len(segs) /\ s \in 1 .. Len(segs)
            /\ \A t \in 1 .. Len(segs) : t # s => segs'[t] = segs[t]
            /\ segs'[s].order = segs[s].order /\ segs'[s].used = segs[s].used
            /\ segs'[s].region = segs[s].region
        BY <1>3, <2>6, <3>1, TableSegs DEF OtherSegsKept
      <3>3. \A t \in 1 .. Len(segs) :
              /\ segs'[t].order = segs[t].order /\ segs'[t].region = segs[t].region
              /\ segs'[t].used \in Nat /\ segs'[t].used >= segs[t].used
        BY <1>0, <3>2
      <3>4. /\ allocs' = allocs + 1 /\ allocs < MemLimit
            /\ q.pc \in {"edge", "append"}
        BY <2>0, <2>6 DEF CreateTable, ReplaceTable, WriterType
      <3>5. allocs' <= MemLimit
        BY <1>0, <3>4, SlotsGrow
      <3>6. FitsStore'
        BY <1>0, <2>b, <3>2, <3>3, <3>4, <3>5, FitsKept
      <3>7. QED
        BY <3>4, <3>6
    <2>7. CASE AppendEpoch(w)
      <3>1. UNCHANGED <<segs, allocs>> /\ q.pc = "edge"
        BY <2>0, <2>7 DEF AppendEpoch, WriterType
      <3>2. QED
        BY <1>0, <1>1, <2>b, <3>1
    <2>8. CASE AppendEdge(w)
      <3>1. UNCHANGED <<segs, allocs>> /\ q.pc = "idle"
        BY <2>0, <2>8 DEF AppendEdge, IdleWriter
      <3>2. QED
        BY <1>0, <1>1, <2>b, <3>1
    <2>9. QED
      BY <1>3, <2>1, <2>2, <2>3, <2>4, <2>5, <2>6, <2>7, <2>8 DEF StoreStep
  <1>4. QED
    BY <1>2, <1>3, NextCases

LEMMA InitFits == Init => FitsInv
  <1> SUFFICES ASSUME Init PROVE FitsInv
    OBVIOUS
  <1>1. /\ segs = << >> /\ allocs = 0 /\ wr = [w \in Writers |-> IdleWriter]
    BY DEF Init
  <1>2. FitsStore
    BY <1>1, SlotsGrow DEF FitsStore
  <1>3. MergeFits
    BY <1>1 DEF MergeFits, IdleWriter
  <1>4. QED
    BY <1>2, <1>3 DEF FitsInv

(* merge_segment allocates the compacted blocks from the new segment and    *)
(* does not look at the result.  The allocations succeed, with any number   *)
(* of writers and whatever the histories, the block orders and the sizes of *)
(* segments that at least double: a block is less than twice as large as    *)
(* what it holds, and what it holds was in the segment that became full.    *)
THEOREM MergesFit == Spec => []MergeFits
  <1>1. Init => Types /\ KeptInv /\ FitsInv
    BY InitTypes, InitKept, InitFits
  <1>2. Types /\ KeptInv /\ FitsInv /\ [Next]_vars => Types' /\ KeptInv' /\ FitsInv'
    BY TypesStep, KeptStep, FitsStep
  <1>3. FitsInv => MergeFits
    BY DEF FitsInv
  <1>4. QED
    BY <1>1, <1>2, <1>3, PTL DEF Spec

(* With any number of writers, put_edge loses nothing it returned from: a   *)
(* merge cannot crash, a block that is appended to has room, because its    *)
(* vertex's futex keeps every other writer away from it until the edge is   *)
(* in, and the chains that growing and merging make repeat and reorder no   *)
(* edge.  That the edge is in the chain of the current segment does not     *)
(* follow: the shared lock is taken again without locating the segment.     *)
THEOREM EdgesCorrect == Spec => []EdgesKept
  <1>1. Init => Types /\ KeptInv /\ FitsInv
    BY InitTypes, InitKept, InitFits
  <1>2. Types /\ KeptInv /\ FitsInv /\ [Next]_vars => Types' /\ KeptInv' /\ FitsInv'
    BY TypesStep, KeptStep, FitsStep
  <1>3. Types /\ KeptInv /\ FitsInv => EdgesKept
    <2> SUFFICES ASSUME Types, KeptInv, FitsInv PROVE EdgesKept
      OBVIOUS
    <2>1. MergeFits /\ ChainsOrdered /\ EdgesChained
      BY DEF FitsInv, KeptInv, KeptStore
    <2>2. DOMAIN segs = 1 .. Len(segs)
      BY DEF Types, SegTypes
    <2>3. ASSUME NEW v \in Vertices PROVE DOMAIN hist[v] = 1 .. Len(hist[v])
      BY DEF Types, ListTypes
    <2>4. \A v \in Vertices : \A i \in DOMAIN hist[v] : \E s \in DOMAIN segs : InChain(s, v, i)
      BY <2>1, <2>2, <2>3 DEF EdgesChained
    <2>5. ASSUME NEW v \in Vertices, NEW s \in DOMAIN segs, NEW c, c = Chain(segs[s].region[v])
          PROVE  \A j, k \in DOMAIN c : j < k => c[j] < c[k]
      <3>1. s \in 1 .. Len(segs)
        BY <2>2
      <3>2. c \in Seq(Nat) /\ ChainOrdered(c, Len(hist[v]))
        BY <2>1, <2>5, <3>1, RegionChain DEF ChainsOrdered
      <3>3. QED
        BY <3>2 DEF ChainOrdered, Increasing
    <2>6. QED
      BY <2>1, <2>4, <2>5 DEF EdgesKept
  <1>4. QED
    BY <1>1, <1>2, <1>3, PTL DEF Spec
=============================================================================
