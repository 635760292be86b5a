-------------------------- MODULE ConverterProofs ---------------------------
(***************************************************************************)
(* What the converter writes, for any number of parser threads, timeouts   *)
(* and restarts: the entries of the binlog in its order, once each, with   *)
(* dense ids that resolve; and, when epochs are counted in logs and the    *)
(* binlog carries transactions, epochs that never decrease and cut a       *)
(* transaction at most behind its first message.                           *)
(***************************************************************************)
EXTENDS Converter, FiniteSetTheorems, WellFoundedInduction, TLAPS

GidType == [fid : Nat, offset : Int]

LogType == [msg : Nat, part : Nat, epoch : Int, offset : Nat, gids : Seq(GidType)]

MessageType == [ents : Seq(Entry), last : BOOLEAN, tx : Nat]

GidMaps == UNION {[D -> GidType] : D \in SUBSET Oids}

Item == [msg : Nat, part : Nat]

Step1Type == [pc : {"pop", "push"}, msg : Nat, todo : Nat, count : Nat]

Step2Type ==
  [idx : Threads, left : Nat, msg : Nat, log_count : Nat, epoch : Int, last_tx_id : Int,
   last_log_count : Nat, bulk_load_finished : BOOLEAN, processed_count : Nat,
   last_processed_offset : Nat, catch_up_mode : BOOLEAN,
   oid2gid : GidMaps, vertex_nums : Nat,
   vertex_nums_per_fragment : [0 .. SubgraphNum - 1 -> Nat]]

Types ==
  /\ binlog \in Seq(MessageType) /\ unified \in Seq(LogType) /\ buffer \in Seq(LogType)
  /\ main \in [next : Nat \ {0}, idx : Threads]
  /\ binlogQ \in [Threads -> Seq(Nat)]
  /\ entryQ \in [Threads -> Seq(Item)]
  /\ countQ \in [Threads -> Seq(Nat)]
  /\ step1 \in [Threads -> Step1Type]
  /\ \A t \in Threads : step1[t].todo <= step1[t].count
  /\ step2 \in Step2Type

-----------------------------------------------------------------------------
(* The pipeline.  pipe[t] lists the messages dealt to thread t that are not *)
(* collected yet, oldest first, with NO_MESSAGE for a timeout; nx is the    *)
(* first message that is not collected; off[t][j] is how far in front of    *)
(* the entries of the j-th of them the queue of thread t begins.            *)

Amounts == [Nat -> Nat]

Entries == [m \in Nat |-> IF m \in DOMAIN binlog THEN Len(binlog[m].ents) ELSE 0]

Before(t, i) == IF t < i THEN 1 ELSE 0

(* Does the collecting thread work on a message? *)
Busy == step2.left > 0 \/ step2.msg # 0

(* Threads get messages in turn, the next one is of thread d, and are asked *)
(* for them in turn, from thread c.                                         *)
Dealt(pipe, c, d) ==
  \A t \in Threads : Len(pipe[t]) = Len(pipe[NumThreads - 1]) + Before(t, d) - Before(t, c)

(* The round in which the collecting thread gets to the j-th of thread t. *)
Round(t, j, c) == j + Before(t, c)

(* The messages lo .. hi - 1 are there, in that order. *)
Slots(pipe, lo, hi) ==
  \A t \in Threads : \A j \in 1 .. Len(pipe[t]) :
    pipe[t][j] = NO_MESSAGE \/ pipe[t][j] \in lo .. hi - 1

Covers(pipe, lo, hi) ==
  \A m \in lo .. hi - 1 : \E t \in Threads : \E j \in 1 .. Len(pipe[t]) : pipe[t][j] = m

Earlier(t, i, u, j, c) ==
  Round(t, i, c) < Round(u, j, c) \/ (Round(t, i, c) = Round(u, j, c) /\ t < u)

InTurn(pipe, c) ==
  \A t, u \in Threads : \A i \in 1 .. Len(pipe[t]), j \in 1 .. Len(pipe[u]) :
    pipe[t][i] # NO_MESSAGE /\ pipe[u][j] # NO_MESSAGE /\ Earlier(t, i, u, j, c)
      => pipe[t][i] < pipe[u][j]

(* A lane: the messages p of one thread and their entries, e[m] of message  *)
(* m.  The first tk of p are collected, left entries of them are to come;   *)
(* then come those counted in cq, the one that step1 has in hand (h = 1),   *)
(* message m with count entries of which d are pushed, and those in bq.     *)
(* o[j] is how far in front of the entries of p[j] the queue q begins.      *)
Placed(p, e, tk, bq, h, m, count, d, cq) ==
  LET c == tk + Len(cq) IN
  /\ Len(p) = c + h + Len(bq)
  /\ \A j \in 1 .. Len(cq) : cq[j] = e[p[tk + j]]
  /\ h = 1 => m = p[c + 1] /\ count = e[p[c + 1]] /\ d <= count
  /\ \A j \in 1 .. Len(bq) : bq[j] = p[c + h + j]

Offsets(p, o, e, tk, left) ==
  /\ o[1] = IF tk = 1 THEN left - e[p[1]] ELSE 0
  /\ \A j \in 1 .. Len(p) : o[j + 1] = o[j] + e[p[j]]
  /\ \A i, j \in 1 .. Len(p) + 1 : i <= j => o[i] <= o[j]

Queued(p, o, e, n, h, d, q) ==
  /\ h = 0 => d = 0
  /\ Len(q) = o[n + 1] + d
  /\ \A j \in 1 .. Len(p) : \A k \in 1 .. e[p[j]] :
       o[j] + k \in 1 .. Len(q) => q[o[j] + k] = [msg |-> p[j], part |-> k]

Typed(p, o, e, tk, left, bq, h, m, count, d, cq, q) ==
  /\ p \in Seq(Nat) /\ o \in [Nat -> Int] /\ e \in Amounts
  /\ tk \in {0, 1} /\ left \in Nat /\ bq \in Seq(Nat) /\ h \in {0, 1} /\ m \in Nat
  /\ count \in Nat /\ d \in Nat /\ cq \in Seq(Nat) /\ q \in Seq(Item)

Lane(p, o, e, tk, left, bq, h, m, count, d, cq, q) ==
  /\ Typed(p, o, e, tk, left, bq, h, m, count, d, cq, q)
  /\ Placed(p, e, tk, bq, h, m, count, d, cq)
  /\ Offsets(p, o, e, tk, left)
  /\ Queued(p, o, e, tk + Len(cq), h, d, q)

Order(pipe, c, d, lo, hi) ==
  Dealt(pipe, c, d) /\ Slots(pipe, lo, hi) /\ Covers(pipe, lo, hi) /\ InTurn(pipe, c)

Taken(t) == IF t = step2.idx /\ Busy THEN 1 ELSE 0

Hand(t) == IF step1[t].pc = "push" THEN 1 ELSE 0

ThreadSound(t, p, o) ==
  Lane(p, o, Entries, Taken(t), step2.left, binlogQ[t], Hand(t), step1[t].msg, step1[t].count,
       step1[t].count - step1[t].todo, countQ[t], entryQ[t])

(* The message the collecting thread works on. *)
AtWork(pipe, nx) ==
  Busy => /\ Len(pipe[step2.idx]) > 0 /\ pipe[step2.idx][1] = nx
          /\ step2.left <= Entries[nx]
          /\ step2.msg = IF step2.left = Entries[nx] THEN 0 ELSE nx

Pipeline(pipe, off, nx) ==
  /\ pipe \in [Threads -> Seq(Nat)] /\ off \in [Threads -> [Nat -> Int]]
  /\ nx \in 1 .. main.next /\ main.next <= Len(binlog) + 1
  /\ Order(pipe, step2.idx, main.idx, nx, main.next)
  /\ \A t \in Threads : ThreadSound(t, pipe[t], off[t])
  /\ AtWork(pipe, nx)

-----------------------------------------------------------------------------
(* Sequences and numbers. *)

LEMMA AppendFacts ==
  ASSUME NEW S, NEW s \in Seq(S), NEW x \in S
  PROVE  /\ Append(s, x) \in Seq(S)
         /\ Len(Append(s, x)) = Len(s) + 1
         /\ \A i \in 1 .. Len(s) : Append(s, x)[i] = s[i]
         /\ Append(s, x)[Len(s) + 1] = x
  OBVIOUS

LEMMA TailFacts ==
  ASSUME NEW S, NEW s \in Seq(S), s # << >>
  PROVE  /\ Head(s) \in S /\ Tail(s) \in Seq(S)
         /\ Len(Tail(s)) = Len(s) - 1
         /\ Head(s) = s[1]
         /\ \A i \in 1 .. Len(s) - 1 : Tail(s)[i] = s[i + 1]
  OBVIOUS

LEMMA Numbers ==
  /\ NumThreads \in Nat /\ NumThreads > 0 /\ Capacity \in Nat /\ Capacity > 0
  /\ Threads = 0 .. NumThreads - 1 /\ NumThreads - 1 \in Threads /\ 0 \in Threads
  /\ LogsPerEpoch \in Nat /\ LogsPerEpoch > 0 /\ SubgraphNum \in Nat /\ SubgraphNum > 0
  /\ UseLogsPerEpoch \in BOOLEAN /\ EnableBulkLoad \in BOOLEAN /\ TxIds \in BOOLEAN
  BY ConverterAssumption DEF Threads

LEMMA NextThreadFacts ==
  ASSUME NEW t \in Threads
  PROVE  /\ NextThread(t) \in Threads
         /\ t = NumThreads - 1 => NextThread(t) = 0
         /\ t # NumThreads - 1 => NextThread(t) = t + 1
  BY Numbers DEF NextThread

LEMMA EntryFacts ==
  ASSUME NEW e \in Entry
  PROVE  /\ e.op \in {"insert", "update", "delete", "edge"}
         /\ e.op # "edge" => e.ids \in [1 .. 1 -> Oids]
         /\ e.op = "edge" => e.ids \in [1 .. 2 -> Oids]
         /\ 1 \in DOMAIN e.ids /\ \A k \in DOMAIN e.ids : e.ids[k] \in Oids
         /\ DOMAIN e.ids \in {1 .. 1, 1 .. 2}
  <1>1. CASE e \in [op : {"insert", "update", "delete"}, ids : [1 .. 1 -> Oids]]
    BY <1>1
  <1>2. CASE e \in [op : {"edge"}, ids : [1 .. 2 -> Oids]]
    BY <1>2
  <1>3. QED
    BY <1>1, <1>2 DEF Entry

-----------------------------------------------------------------------------
(* The steps of the collecting thread, field by field. *)

LEMMA Step2Edits ==
  ASSUME NEW s \in Step2Type
  PROVE  /\ \A t \in Threads : [s EXCEPT !.idx = t] \in Step2Type
         /\ \A n, c \in Nat : [s EXCEPT !.left = n, !.log_count = c] \in Step2Type
  <1>1. ASSUME NEW t \in Threads PROVE [s EXCEPT !.idx = t] \in Step2Type
    BY DEF Step2Type
  <1>2. ASSUME NEW n \in Nat, NEW c \in Nat
        PROVE  [s EXCEPT !.left = n, !.log_count = c] \in Step2Type
    BY DEF Step2Type
  <1>3. QED
    BY <1>1, <1>2

LEMMA TakeCountFacts ==
  ASSUME Types, TakeCount
  PROVE  LET t == step2.idx
             n == Head(countQ[t])
         IN  /\ ~Busy /\ countQ[t] # << >> /\ n \in Nat
             /\ countQ' = [countQ EXCEPT ![t] = Tail(@)]
             /\ step2' \in Step2Type
             /\ n = 0 => step2' = [step2 EXCEPT !.idx = NextThread(t)]
             /\ n # 0 => step2' = [step2 EXCEPT !.left = n, !.log_count = step2.log_count + 1]
             /\ UNCHANGED <<binlog, unified, buffer, main, binlogQ, entryQ, step1>>
  <1> DEFINE t == step2.idx
             n == Head(countQ[t])
  <1>0. step2 \in Step2Type /\ step2.log_count + 1 \in Nat /\ t \in Threads
    <2>1. step2 \in Step2Type
      BY DEF Types
    <2>2. QED
      BY <2>1 DEF Step2Type
  <1>1. t \in Threads /\ countQ[t] \in Seq(Nat) /\ countQ[t] # << >>
    BY <1>0 DEF Types, TakeCount
  <1>2. n \in Nat
    BY <1>1
  <1>3. n = 0 => step2' = [step2 EXCEPT !.idx = NextThread(t)]
    BY DEF TakeCount
  <1>4. n # 0 => step2' = [step2 EXCEPT !.left = n, !.log_count = step2.log_count + 1]
    BY DEF TakeCount
  <1>5. step2' \in Step2Type
    <2>1. CASE n = 0
      <3>1. step2' = [step2 EXCEPT !.idx = NextThread(t)] /\ NextThread(t) \in Threads
        BY <2>1, <1>1, <1>3, NextThreadFacts
      <3>2. QED
        BY <1>0, <3>1, Step2Edits
    <2>2. CASE n # 0
      <3>1. step2' = [step2 EXCEPT !.left = n, !.log_count = step2.log_count + 1]
        BY <2>2, <1>4
      <3>2. QED
        BY <1>0, <1>2, <3>1, Step2Edits
    <2>3. QED
      BY <2>1, <2>2
  <1>6. ~Busy
    BY DEF TakeCount, Busy, Types, Step2Type
  <1>7. QED
    BY <1>1, <1>2, <1>3, <1>4, <1>5, <1>6 DEF TakeCount

(* The numbering of step2. *)
Map(s) == s.oid2gid
Nums(s) == s.vertex_nums
NumsIn(s) == s.vertex_nums_per_fragment

GidOf(s) == LET fid == Nums(s) % SubgraphNum IN [fid |-> fid, offset |-> NumsIn(s)[fid]]

LEMMA GidOfType ==
  ASSUME NEW s \in Step2Type
  PROVE  /\ GidOf(s) \in GidType /\ GidOf(s).fid \in 0 .. SubgraphNum - 1
         /\ GidOf(s).fid = Nums(s) % SubgraphNum
         /\ GidOf(s).offset = NumsIn(s)[GidOf(s).fid]
  <1>1. Nums(s) \in Nat /\ NumsIn(s) \in [0 .. SubgraphNum - 1 -> Nat]
    BY DEF Step2Type, Nums, NumsIn
  <1>2. Nums(s) % SubgraphNum \in 0 .. SubgraphNum - 1
    BY <1>1, Numbers
  <1>3. QED
    BY <1>1, <1>2, Numbers DEF GidOf, GidType

LEMMA SetGidType ==
  ASSUME NEW map \in GidMaps, NEW o \in Oids, NEW g \in GidType
  PROVE  /\ SetGid(map, o, g) \in GidMaps
         /\ DOMAIN SetGid(map, o, g) = DOMAIN map \cup {o}
         /\ SetGid(map, o, g)[o] = g
         /\ \A q \in DOMAIN map \ {o} : SetGid(map, o, g)[q] = map[q]
  <1>1. PICK D \in SUBSET Oids : map \in [D -> GidType]
    BY DEF GidMaps
  <1>2. SetGid(map, o, g) \in [D \cup {o} -> GidType]
    BY <1>1 DEF SetGid
  <1>3. D \cup {o} \in SUBSET Oids
    OBVIOUS
  <1>4. SetGid(map, o, g) \in GidMaps
    BY <1>2, <1>3 DEF GidMaps
  <1>5. QED
    BY <1>1, <1>4 DEF SetGid

LEMMA GetGidType ==
  ASSUME NEW s \in Step2Type, NEW o
  PROVE  GetGid(s, o) \in GidType
  <1>1. PICK D \in SUBSET Oids : s.oid2gid \in [D -> GidType]
    BY DEF GidMaps, Step2Type
  <1>2. NoGid \in GidType
    BY DEF NoGid, GidType
  <1>3. QED
    BY <1>1, <1>2 DEF GetGid

(* What does not depend on the entry that is numbered. *)
Rest(s, r) ==
  /\ r.idx = s.idx /\ r.left = s.left /\ r.msg = s.msg /\ r.log_count = s.log_count
  /\ r.epoch = s.epoch /\ r.last_tx_id = s.last_tx_id /\ r.last_log_count = s.last_log_count
  /\ r.bulk_load_finished = s.bulk_load_finished /\ r.processed_count = s.processed_count
  /\ r.last_processed_offset = s.last_processed_offset /\ r.catch_up_mode = s.catch_up_mode

LEMMA CountsFacts ==
  ASSUME NEW s \in Step2Type, NEW fid \in 0 .. SubgraphNum - 1, NEW map \in GidMaps
  PROVE  /\ Counts(s, fid, map) \in Step2Type
         /\ Rest(s, Counts(s, fid, map))
         /\ Nums(Counts(s, fid, map)) = Nums(s) + 1
         /\ NumsIn(Counts(s, fid, map)) = [NumsIn(s) EXCEPT ![fid] = NumsIn(s)[fid] + 1]
         /\ Map(Counts(s, fid, map)) = map
  <1> DEFINE c == [NumsIn(s) EXCEPT ![fid] = NumsIn(s)[fid] + 1]
  <1>0. NumsIn(s) \in [0 .. SubgraphNum - 1 -> Nat]
    BY DEF Step2Type, NumsIn
  <1>1. c \in [0 .. SubgraphNum - 1 -> Nat]
    BY <1>0
  <1>2. Counts(s, fid, map) =
          [s EXCEPT !.vertex_nums = Nums(s) + 1, !.vertex_nums_per_fragment = c, !.oid2gid = map]
    BY DEF Counts, Nums, NumsIn
  <1> DEFINE u == Nums(s) + 1
  <1>3. u \in Nat
    <2>1. Nums(s) \in Nat
      BY DEF Step2Type, Nums
    <2>2. QED
      BY <2>1
  <1>4. Counts(s, fid, map) =
          [s EXCEPT !.vertex_nums = u, !.vertex_nums_per_fragment = c, !.oid2gid = map]
    BY <1>2
  <1> HIDE DEF c, u
  <1>5. /\ Counts(s, fid, map) \in Step2Type
        /\ Rest(s, Counts(s, fid, map))
        /\ Nums(Counts(s, fid, map)) = u
        /\ NumsIn(Counts(s, fid, map)) = c
        /\ Map(Counts(s, fid, map)) = map
    <2>1. Counts(s, fid, map) \in Step2Type
      <3>1. PICK r : r = [s EXCEPT !.vertex_nums = u]
        OBVIOUS
      <3>2. r \in Step2Type
        BY ONLY <1>3, <3>1, s \in Step2Type DEF Step2Type
      <3>3. PICK q : q = [r EXCEPT !.vertex_nums_per_fragment = c]
        OBVIOUS
      <3>4. q \in Step2Type
        BY ONLY <1>1, <3>2, <3>3 DEF Step2Type
      <3>5. [q EXCEPT !.oid2gid = map] \in Step2Type
        BY ONLY <3>4, map \in GidMaps DEF Step2Type
      <3>6. Counts(s, fid, map) = [q EXCEPT !.oid2gid = map]
        BY <1>4, <3>1, <3>3 DEF Step2Type
      <3>7. QED
        BY <3>5, <3>6
    <2>2. Rest(s, Counts(s, fid, map))
      BY <1>4 DEF Rest, Step2Type
    <2>3. /\ Nums(Counts(s, fid, map)) = u
          /\ NumsIn(Counts(s, fid, map)) = c
          /\ Map(Counts(s, fid, map)) = map
      BY <1>4 DEF Nums, NumsIn, Map, Step2Type
    <2>4. QED
      BY <2>1, <2>2, <2>3
  <1>6. QED
    BY <1>5 DEF c, u

LEMMA ParseAgainFacts ==
  ASSUME NEW s \in Step2Type, NEW e \in Entry
  PROVE  LET r == ParseAgain(s, e) IN
         /\ r.next \in Step2Type /\ Rest(s, r.next)
         /\ r.gids \in Seq(GidType) /\ DOMAIN r.gids = DOMAIN e.ids
         /\ e.op = "insert" =>
              /\ r.gids[1] = GidOf(s)
              /\ Nums(r.next) = Nums(s) + 1
              /\ NumsIn(r.next) =
                   [NumsIn(s) EXCEPT ![GidOf(s).fid] = NumsIn(s)[GidOf(s).fid] + 1]
              /\ Map(r.next) = SetGid(Map(s), e.ids[1], GidOf(s))
         /\ e.op # "insert" =>
              /\ r.next = s
              /\ \A k \in DOMAIN e.ids : r.gids[k] = GetGid(s, e.ids[k])
  <1> DEFINE r == ParseAgain(s, e)
  <1>1. CASE e.op = "insert"
    <2> DEFINE map == SetGid(Map(s), e.ids[1], GidOf(s))
    <2>1. /\ r.gids = <<GidOf(s)>>
          /\ r.next = Counts(s, GidOf(s).fid, map)
      BY <1>1 DEF ParseAgain, GenerateGid, GidOf, Nums, NumsIn, Map
    <2>2. map \in GidMaps
      BY EntryFacts, GidOfType, SetGidType DEF Step2Type, Map
    <2>3. /\ r.next \in Step2Type /\ Rest(s, r.next)
          /\ Nums(r.next) = Nums(s) + 1
          /\ NumsIn(r.next) =
                   [NumsIn(s) EXCEPT ![GidOf(s).fid] = NumsIn(s)[GidOf(s).fid] + 1]
          /\ Map(r.next) = map
      BY <2>1, <2>2, CountsFacts, GidOfType
    <2>4. r.gids \in Seq(GidType) /\ DOMAIN r.gids = 1 .. 1 /\ r.gids[1] = GidOf(s)
      BY <2>1, GidOfType
    <2>5. DOMAIN e.ids = 1 .. 1
      BY <1>1, EntryFacts
    <2>6. QED
      BY <1>1, <2>3, <2>4, <2>5
  <1>2. CASE e.op # "insert"
    <2>1. r.gids = [k \in DOMAIN e.ids |-> GetGid(s, e.ids[k])] /\ r.next = s
      BY <1>2 DEF ParseAgain
    <2>2. r.gids \in [DOMAIN e.ids -> GidType]
      BY <2>1, GetGidType
    <2>3. PICK n \in Nat : DOMAIN e.ids = 1 .. n
      BY EntryFacts
    <2>4. r.gids \in Seq(GidType)
      BY <2>2, <2>3
    <2>5. QED
      BY <1>2, <2>1, <2>4 DEF Rest
  <1>3. QED
    BY <1>1, <1>2

LEMMA CountedFacts ==
  ASSUME NEW s \in Step2Type
  PROVE  /\ Counted(s) \in Step2Type
         /\ Counted(s).idx = s.idx /\ Counted(s).left = s.left /\ Counted(s).msg = s.msg
         /\ Counted(s).log_count = s.log_count /\ Counted(s).epoch = s.epoch
         /\ Counted(s).last_tx_id = s.last_tx_id
         /\ Counted(s).last_log_count = s.last_log_count
         /\ Counted(s).bulk_load_finished = s.bulk_load_finished
         /\ Counted(s).processed_count = s.processed_count + 1
         /\ Counted(s).last_processed_offset = s.last_processed_offset
         /\ Counted(s).catch_up_mode = CatchUp(s)
         /\ Map(Counted(s)) = Map(s) /\ Nums(Counted(s)) = Nums(s)
         /\ NumsIn(Counted(s)) = NumsIn(s)
  <1> DEFINE p == s.processed_count + 1
             c == CatchUp(s)
  <1>1. p \in Nat /\ c \in BOOLEAN
    <2>1. s.processed_count \in Nat /\ s.catch_up_mode \in BOOLEAN
      BY DEF Step2Type
    <2>2. QED
      BY <2>1 DEF CatchUp
  <1>2. Counted(s) = [s EXCEPT !.catch_up_mode = c, !.processed_count = p]
    BY DEF Counted
  <1> HIDE DEF p, c
  <1>3. /\ Counted(s) \in Step2Type
        /\ Counted(s).idx = s.idx /\ Counted(s).left = s.left /\ Counted(s).msg = s.msg
        /\ Counted(s).log_count = s.log_count /\ Counted(s).epoch = s.epoch
        /\ Counted(s).last_tx_id = s.last_tx_id
        /\ Counted(s).last_log_count = s.last_log_count
        /\ Counted(s).bulk_load_finished = s.bulk_load_finished
        /\ Counted(s).processed_count = p
        /\ Counted(s).last_processed_offset = s.last_processed_offset
        /\ Counted(s).catch_up_mode = c
        /\ Map(Counted(s)) = Map(s) /\ Nums(Counted(s)) = Nums(s)
        /\ NumsIn(Counted(s)) = NumsIn(s)
    BY <1>1, <1>2 DEF Step2Type, Map, Nums, NumsIn
  <1>4. QED
    BY <1>3 DEF p, c

(* The log of an entry. *)
LogOf(e, g) ==
  [msg |-> e.msg, part |-> e.part, epoch |-> step2.epoch,
   offset |-> step2.processed_count + 1, gids |-> g]

(* Numbering an entry with global ids g. *)
Numbered(ent, g) ==
  /\ g \in Seq(GidType) /\ DOMAIN g = DOMAIN ent.ids
  /\ ent.op = "insert" =>
       /\ g[1] = GidOf(step2)
       /\ Nums(step2') = Nums(step2) + 1
       /\ NumsIn(step2') =
            [NumsIn(step2) EXCEPT ![GidOf(step2).fid] = NumsIn(step2)[GidOf(step2).fid] + 1]
       /\ Map(step2') = SetGid(Map(step2), ent.ids[1], GidOf(step2))
  /\ ent.op # "insert" =>
       /\ UNCHANGED <<Nums(step2), NumsIn(step2), Map(step2)>>
       /\ \A k \in DOMAIN ent.ids : g[k] = GetGid(step2, ent.ids[k])

LEMMA TakeEntryFacts ==
  ASSUME Types, TakeEntry, NEW e \in [msg : Nat, part : Nat],
         e = Head(entryQ[step2.idx]), e.msg \in DOMAIN binlog,
         e.part \in DOMAIN binlog[e.msg].ents
  PROVE  LET t == step2.idx IN
         /\ step2.left > 0 /\ entryQ[t] # << >>
         /\ entryQ' = [entryQ EXCEPT ![t] = Tail(@)]
         /\ step2' \in Step2Type
         /\ step2'.idx = t /\ step2'.left = step2.left - 1 /\ step2'.msg = e.msg
         /\ step2'.log_count = step2.log_count /\ step2'.epoch = step2.epoch
         /\ step2'.last_tx_id = step2.last_tx_id
         /\ step2'.last_log_count = step2.last_log_count
         /\ step2'.bulk_load_finished = step2.bulk_load_finished
         /\ step2'.processed_count = step2.processed_count + 1
         /\ step2'.last_processed_offset = step2.last_processed_offset
         /\ step2'.catch_up_mode = CatchUp(step2)
         /\ \E g \in Seq(GidType) :
              /\ Numbered(binlog[e.msg].ents[e.part], g)
              /\ buffer' = IF CatchUp(step2) THEN buffer ELSE Append(buffer, LogOf(e, g))
         /\ UNCHANGED <<binlog, unified, main, binlogQ, countQ, step1>>
  <1> DEFINE t == step2.idx
             ent == binlog[e.msg].ents[e.part]
             n == step2.left - 1
             c == Counted(step2)
             s == [c EXCEPT !.left = n, !.msg = e.msg]
             r == ParseAgain(s, ent)
  <1>0. step2 \in Step2Type
    BY DEF Types
  <1>1. step2.left > 0 /\ step2.left \in Nat /\ n \in Nat /\ e.msg \in Nat
    <2>1. step2.left > 0
      BY DEF TakeEntry
    <2>2. step2.left \in Nat
      BY <1>0 DEF Step2Type
    <2>3. QED
      BY <2>1, <2>2
  <1>2. c \in Step2Type /\ c.left = step2.left
    BY <1>0, CountedFacts
  <1>3. step2' = r.next
    BY <1>2 DEF TakeEntry
  <1>4. ent \in Entry
    <2>1. binlog[e.msg] \in MessageType
      BY DEF Types
    <2>2. binlog[e.msg].ents \in Seq(Entry)
      BY <2>1 DEF MessageType
    <2>3. QED
      BY <2>2
  <1>5. /\ s \in Step2Type
        /\ s.idx = t /\ s.left = n /\ s.msg = e.msg
        /\ s.log_count = step2.log_count /\ s.epoch = step2.epoch
        /\ s.last_tx_id = step2.last_tx_id /\ s.last_log_count = step2.last_log_count
        /\ s.bulk_load_finished = step2.bulk_load_finished
        /\ s.processed_count = step2.processed_count + 1
        /\ s.last_processed_offset = step2.last_processed_offset
        /\ s.catch_up_mode = CatchUp(step2)
        /\ Map(s) = Map(step2) /\ Nums(s) = Nums(step2) /\ NumsIn(s) = NumsIn(step2)
    <2> HIDE DEF n, c
    <2>0. s = [c EXCEPT !.left = n, !.msg = e.msg]
      OBVIOUS
    <2> HIDE DEF s
    <2>1. /\ s \in Step2Type /\ s.idx = c.idx /\ s.left = n /\ s.msg = e.msg
          /\ s.log_count = c.log_count /\ s.epoch = c.epoch
          /\ s.last_tx_id = c.last_tx_id /\ s.last_log_count = c.last_log_count
          /\ s.bulk_load_finished = c.bulk_load_finished
          /\ s.processed_count = c.processed_count
          /\ s.last_processed_offset = c.last_processed_offset
          /\ s.catch_up_mode = c.catch_up_mode
          /\ Map(s) = Map(c) /\ Nums(s) = Nums(c) /\ NumsIn(s) = NumsIn(c)
      BY <1>1, <1>2, <2>0 DEF Step2Type, Map, Nums, NumsIn
    <2>2. QED
      BY <1>0, <2>1, CountedFacts DEF c
  <1> HIDE DEF s
  <1>6. GidOf(s) = GidOf(step2) /\ \A o : GetGid(s, o) = GetGid(step2, o)
    BY <1>5 DEF GidOf, GetGid, Map
  <1> HIDE DEF ent
  <1>7. /\ r.next \in Step2Type /\ Rest(s, r.next)
        /\ r.gids \in Seq(GidType) /\ Numbered(ent, r.gids)
    <2>1. /\ r.next \in Step2Type /\ Rest(s, r.next)
          /\ r.gids \in Seq(GidType) /\ DOMAIN r.gids = DOMAIN ent.ids
          /\ ent.op = "insert" =>
               /\ r.gids[1] = GidOf(s)
               /\ Nums(r.next) = Nums(s) + 1
               /\ NumsIn(r.next) =
                    [NumsIn(s) EXCEPT ![GidOf(s).fid] = NumsIn(s)[GidOf(s).fid] + 1]
               /\ Map(r.next) = SetGid(Map(s), ent.ids[1], GidOf(s))
          /\ ent.op # "insert" =>
               /\ r.next = s
               /\ \A k \in DOMAIN ent.ids : r.gids[k] = GetGid(s, ent.ids[k])
      BY <1>4, <1>5, ParseAgainFacts
    <2> HIDE DEF r
    <2>2. Nums(step2)' = Nums(step2') /\ NumsIn(step2)' = NumsIn(step2')
          /\ Map(step2)' = Map(step2')
      BY DEF Nums, NumsIn, Map
    <2>3. CASE ent.op = "insert"
      BY <1>3, <1>5, <1>6, <2>1, <2>3 DEF Numbered
    <2>4. CASE ent.op # "insert"
      BY <1>3, <1>5, <1>6, <2>1, <2>2, <2>4 DEF Numbered
    <2>5. QED
      BY <2>1, <2>3, <2>4
  <1>8. buffer' = IF CatchUp(step2) THEN buffer ELSE Append(buffer, LogOf(e, r.gids))
    <2>1. [[msg |-> e.msg, part |-> e.part, epoch |-> step2.epoch, offset |-> 0,
            gids |-> r.gids] EXCEPT !.offset = step2.processed_count + 1] = LogOf(e, r.gids)
      BY DEF LogOf
    <2>2. buffer' = IF CatchUp(step2) THEN buffer
                    ELSE Append(buffer,
                           [[msg |-> e.msg, part |-> e.part, epoch |-> step2.epoch, offset |-> 0,
                             gids |-> r.gids] EXCEPT !.offset = step2.processed_count + 1])
      BY <1>2 DEF TakeEntry, Produce, s, ent
    <2> HIDE DEF r
    <2>3. QED
      BY <2>1, <2>2
  <1> HIDE DEF r
  <1>9. /\ step2'.idx = t /\ step2'.left = n /\ step2'.msg = e.msg
        /\ step2'.log_count = step2.log_count /\ step2'.epoch = step2.epoch
        /\ step2'.last_tx_id = step2.last_tx_id
        /\ step2'.last_log_count = step2.last_log_count
        /\ step2'.bulk_load_finished = step2.bulk_load_finished
        /\ step2'.processed_count = step2.processed_count + 1
        /\ step2'.last_processed_offset = step2.last_processed_offset
        /\ step2'.catch_up_mode = CatchUp(step2)
    BY <1>3, <1>5, <1>7 DEF Rest
  <1>10. QED
    BY <1>1, <1>3, <1>7, <1>8, <1>9 DEF TakeEntry, ent

(* What the calculation of the epoch leaves alone. *)
EpochRest(s, r) ==
  /\ r.idx = s.idx /\ r.left = s.left /\ r.msg = s.msg /\ r.log_count = s.log_count
  /\ r.bulk_load_finished = s.bulk_load_finished /\ r.processed_count = s.processed_count
  /\ r.last_processed_offset = s.last_processed_offset /\ r.catch_up_mode = s.catch_up_mode
  /\ Map(r) = Map(s) /\ Nums(r) = Nums(s) /\ NumsIn(r) = NumsIn(s)

(* With epochs counted in logs and transaction ids: the epoch does not      *)
(* change, because of the bulk load or inside a transaction; or the         *)
(* transaction changes; or both change.                                     *)
SameEpoch(s, tx) == (EnableBulkLoad /\ ~s.bulk_load_finished) \/ tx = s.last_tx_id

EpochChange(s, r, tx) ==
  IF SameEpoch(s, tx)
  THEN r.epoch = s.epoch /\ r.last_tx_id = s.last_tx_id /\ r.last_log_count = s.last_log_count
  ELSE /\ r.last_tx_id = tx
       /\ IF s.log_count - s.last_log_count >= LogsPerEpoch
          THEN r.epoch = s.epoch + 1 /\ r.last_log_count = s.log_count
          ELSE r.epoch = s.epoch /\ r.last_log_count = s.last_log_count

LEMMA EpochAfterFacts ==
  ASSUME NEW s \in Step2Type, NEW tx \in Nat, NEW elapsed \in BOOLEAN
  PROVE  LET r == EpochAfter(s, tx, elapsed) IN
         /\ r \in Step2Type /\ EpochRest(s, r)
         /\ UseLogsPerEpoch /\ TxIds => EpochChange(s, r, tx)
  <1> DEFINE r == EpochAfter(s, tx, elapsed)
             due == IF UseLogsPerEpoch THEN s.log_count - s.last_log_count >= LogsPerEpoch
                    ELSE elapsed
             counted == IF UseLogsPerEpoch THEN s.log_count \div LogsPerEpoch
                        ELSE IF elapsed THEN s.epoch + 1 ELSE s.epoch
             e == s.epoch + 1
             l == IF UseLogsPerEpoch THEN s.log_count ELSE s.last_log_count
  <1>0. /\ s.log_count \in Nat /\ s.last_log_count \in Nat /\ s.epoch \in Int
        /\ s.last_tx_id \in Int
    BY DEF Step2Type
  <1>1. counted \in Int /\ e \in Int /\ l \in Nat /\ tx \in Int
    BY <1>0, Numbers
  <1>2. CASE EnableBulkLoad /\ ~s.bulk_load_finished
    <2>1. r = s
      BY <1>2 DEF EpochAfter
    <2>2. QED
      BY <1>2, <2>1 DEF EpochRest, EpochChange, SameEpoch
  <1>3. CASE ~(EnableBulkLoad /\ ~s.bulk_load_finished) /\ ~TxIds
    <2>1. r = [s EXCEPT !.epoch = counted]
      BY <1>3 DEF EpochAfter
    <2> HIDE DEF r, counted
    <2>2. r \in Step2Type /\ EpochRest(s, r)
      BY <1>1, <2>1 DEF Step2Type, EpochRest, Map, Nums, NumsIn
    <2>3. QED
      BY <1>3, <2>2 DEF r
  <1>4. CASE ~(EnableBulkLoad /\ ~s.bulk_load_finished) /\ TxIds /\ tx = s.last_tx_id
    <2>1. r = s
      BY <1>4 DEF EpochAfter
    <2>2. QED
      BY <1>4, <2>1 DEF EpochRest, EpochChange, SameEpoch
  <1>5. CASE ~(EnableBulkLoad /\ ~s.bulk_load_finished) /\ TxIds /\ tx # s.last_tx_id /\ ~due
    <2>1. r = [s EXCEPT !.last_tx_id = tx]
      BY <1>5 DEF EpochAfter
    <2> HIDE DEF r
    <2>2. /\ r \in Step2Type /\ EpochRest(s, r)
          /\ r.last_tx_id = tx /\ r.epoch = s.epoch /\ r.last_log_count = s.last_log_count
      BY <1>1, <2>1 DEF Step2Type, EpochRest, Map, Nums, NumsIn
    <2>3. QED
      BY <1>5, <2>2 DEF r, EpochChange, SameEpoch
  <1>6. CASE ~(EnableBulkLoad /\ ~s.bulk_load_finished) /\ TxIds /\ tx # s.last_tx_id /\ due
    <2>1. r = [s EXCEPT !.last_tx_id = tx, !.epoch = e, !.last_log_count = l]
      BY <1>6 DEF EpochAfter
    <2> HIDE DEF r, e, l
    <2>2. /\ r \in Step2Type /\ EpochRest(s, r)
          /\ r.last_tx_id = tx /\ r.epoch = e /\ r.last_log_count = l
      BY <1>1, <2>1 DEF Step2Type, EpochRest, Map, Nums, NumsIn
    <2>3. UseLogsPerEpoch => l = s.log_count /\ s.log_count - s.last_log_count >= LogsPerEpoch
      BY <1>6 DEF l
    <2>4. QED
      BY <1>6, <2>2, <2>3 DEF r, e, EpochChange, SameEpoch
  <1>7. QED
    BY <1>2, <1>3, <1>4, <1>5, <1>6

(* The log of the end of the initial snapshot. *)
EndLog ==
  [msg |-> step2.msg, part |-> 0, epoch |-> 1, offset |-> step2.processed_count + 1,
   gids |-> << >>]

LEMMA EndMessageFacts ==
  ASSUME Types, NEW elapsed \in BOOLEAN, EndMessage(elapsed), step2.msg \in DOMAIN binlog
  PROVE  LET m == binlog[step2.msg] IN
         /\ step2.left = 0 /\ step2.msg # 0
         /\ step2' \in Step2Type
         /\ step2'.idx = NextThread(step2.idx) /\ step2'.left = 0 /\ step2'.msg = 0
         /\ step2'.log_count = step2.log_count
         /\ step2'.last_processed_offset = step2.last_processed_offset
         /\ UNCHANGED <<Map(step2), Nums(step2), NumsIn(step2)>>
         /\ step2'.processed_count = step2.processed_count + (IF m.last THEN 1 ELSE 0)
         /\ step2'.catch_up_mode = IF m.last THEN CatchUp(step2) ELSE step2.catch_up_mode
         /\ buffer' = IF m.last /\ ~CatchUp(step2) THEN Append(buffer, EndLog) ELSE buffer
         /\ m.last => /\ step2'.bulk_load_finished = TRUE /\ step2'.last_tx_id = m.tx
                      /\ step2'.last_log_count = step2.log_count /\ step2'.epoch = 1
         /\ ~m.last => /\ step2'.bulk_load_finished = step2.bulk_load_finished
                       /\ UseLogsPerEpoch /\ TxIds => EpochChange(step2, step2', m.tx)
         /\ UNCHANGED <<binlog, unified, main, binlogQ, entryQ, countQ, step1>>
  <1> DEFINE m == binlog[step2.msg]
             s == EpochAfter(step2, m.tx, elapsed)
             c == Counted(s)
             b == BulkLoadFinished(s, m.tx)
             end == IF m.last THEN b ELSE s
             i == NextThread(step2.idx)
  <1>0. step2 \in Step2Type /\ step2.idx \in Threads /\ i \in Threads
    <2>1. step2 \in Step2Type
      BY DEF Types
    <2>2. step2.idx \in Threads
      BY <2>1 DEF Step2Type
    <2>3. QED
      BY <2>1, <2>2, NextThreadFacts
  <1>1. m \in MessageType /\ m.tx \in Nat /\ m.tx \in Int /\ m.last \in BOOLEAN
    <2>1. m \in MessageType
      BY DEF Types
    <2>2. QED
      BY <2>1 DEF MessageType
  <1>2. /\ s \in Step2Type /\ EpochRest(step2, s)
        /\ UseLogsPerEpoch /\ TxIds => EpochChange(step2, s, m.tx)
    BY <1>0, <1>1, EpochAfterFacts
  <1>3. CatchUp(s) = CatchUp(step2)
    BY <1>2 DEF EpochRest, CatchUp
  <1>4. step2' = [end EXCEPT !.msg = 0, !.idx = i] /\ step2.left = 0 /\ step2.msg # 0
    <2>1. end.idx = step2.idx
      <3>1. CASE m.last
        <4>1. b.idx = c.idx
          BY DEF BulkLoadFinished
        <4>2. QED
          BY <1>2, <3>1, <4>1, CountedFacts DEF EpochRest
      <3>2. CASE ~m.last
        BY <1>2, <3>2 DEF EpochRest
      <3>3. QED
        BY <3>1, <3>2
    <2>2. QED
      BY <2>1 DEF EndMessage
  <1>5. CASE ~m.last
    <2>1. step2' = [s EXCEPT !.msg = 0, !.idx = i] /\ buffer' = buffer
      BY <1>4, <1>5 DEF EndMessage
    <2> HIDE DEF s, i
    <2>2. /\ step2' \in Step2Type /\ step2'.idx = i /\ step2'.msg = 0 /\ step2'.left = s.left
          /\ step2'.log_count = s.log_count /\ step2'.epoch = s.epoch
          /\ step2'.last_tx_id = s.last_tx_id /\ step2'.last_log_count = s.last_log_count
          /\ step2'.bulk_load_finished = s.bulk_load_finished
          /\ step2'.processed_count = s.processed_count
          /\ step2'.last_processed_offset = s.last_processed_offset
          /\ step2'.catch_up_mode = s.catch_up_mode
          /\ Map(step2') = Map(s) /\ Nums(step2') = Nums(s) /\ NumsIn(step2') = NumsIn(s)
      BY <1>0, <1>2, <2>1 DEF Step2Type, Map, Nums, NumsIn
    <2>3. UseLogsPerEpoch /\ TxIds => EpochChange(step2, step2', m.tx)
      BY <1>2, <2>2 DEF EpochChange
    <2>4. step2.processed_count \in Nat
      BY <1>0 DEF Step2Type
    <2>5. Map(step2)' = Map(step2') /\ Nums(step2)' = Nums(step2')
          /\ NumsIn(step2)' = NumsIn(step2')
      BY DEF Nums, NumsIn, Map
    <2>6. UNCHANGED <<binlog, unified, main, binlogQ, entryQ, countQ, step1>>
      BY DEF EndMessage, queues
    <2>7. QED
      BY <1>2, <1>4, <1>5, <2>1, <2>2, <2>3, <2>4, <2>5, <2>6 DEF EpochRest, i
  <1>6. CASE m.last
    <2>1. step2' = [b EXCEPT !.msg = 0, !.idx = i]
      BY <1>4, <1>6
    <2>2. b = [c EXCEPT !.bulk_load_finished = TRUE, !.last_tx_id = m.tx,
                        !.last_log_count = s.log_count, !.epoch = 1]
      BY DEF BulkLoadFinished
    <2>3. c \in Step2Type /\ s.log_count \in Nat
      <3>1. c \in Step2Type
        BY <1>2, CountedFacts
      <3>2. s.log_count \in Nat
        BY <1>2 DEF Step2Type
      <3>3. QED
        BY <3>1, <3>2
    <2>4. buffer' = IF CatchUp(step2) THEN buffer ELSE Append(buffer, EndLog)
      <3>1. s.processed_count = step2.processed_count
        BY <1>2 DEF EpochRest
      <3>2. [[msg |-> step2.msg, part |-> 0, epoch |-> 1, offset |-> 0, gids |-> << >>]
              EXCEPT !.offset = step2.processed_count + 1] = EndLog
        BY DEF EndLog
      <3>3. buffer' = IF CatchUp(s) THEN buffer
                      ELSE Append(buffer,
                             [[msg |-> step2.msg, part |-> 0, epoch |-> 1, offset |-> 0,
                               gids |-> << >>] EXCEPT !.offset = s.processed_count + 1])
        BY <1>6 DEF EndMessage, Produce
      <3> HIDE DEF s
      <3>4. QED
        BY <1>3, <3>1, <3>2, <3>3
    <2> DEFINE tx == m.tx
               lc == s.log_count
               yes == TRUE
               one == 1
    <2>5. tx \in Int /\ lc \in Nat /\ yes \in BOOLEAN /\ one \in Int
      BY <1>1, <2>3
    <2>6. b = [c EXCEPT !.bulk_load_finished = yes, !.last_tx_id = tx,
                        !.last_log_count = lc, !.epoch = one]
      BY <2>2
    <2> HIDE DEF b, c, i, tx, lc, yes, one
    <2>7. /\ b \in Step2Type /\ b.left = c.left
          /\ b.log_count = c.log_count /\ b.epoch = one
          /\ b.last_tx_id = tx /\ b.last_log_count = lc
          /\ b.bulk_load_finished = yes
          /\ b.processed_count = c.processed_count
          /\ b.last_processed_offset = c.last_processed_offset
          /\ b.catch_up_mode = c.catch_up_mode
          /\ Map(b) = Map(c) /\ Nums(b) = Nums(c) /\ NumsIn(b) = NumsIn(c)
      BY <2>3, <2>5, <2>6 DEF Step2Type, Map, Nums, NumsIn
    <2>8. /\ step2' \in Step2Type /\ step2'.idx = i /\ step2'.msg = 0 /\ step2'.left = b.left
          /\ step2'.log_count = b.log_count /\ step2'.epoch = b.epoch
          /\ step2'.last_tx_id = b.last_tx_id /\ step2'.last_log_count = b.last_log_count
          /\ step2'.bulk_load_finished = b.bulk_load_finished
          /\ step2'.processed_count = b.processed_count
          /\ step2'.last_processed_offset = b.last_processed_offset
          /\ step2'.catch_up_mode = b.catch_up_mode
          /\ Map(step2') = Map(b) /\ Nums(step2') = Nums(b) /\ NumsIn(step2') = NumsIn(b)
      BY <1>0, <2>1, <2>7 DEF Step2Type, Map, Nums, NumsIn
    <2>9. /\ c.left = step2.left /\ c.log_count = step2.log_count
          /\ c.processed_count = step2.processed_count + 1
          /\ c.last_processed_offset = step2.last_processed_offset
          /\ c.catch_up_mode = CatchUp(step2)
          /\ Map(c) = Map(step2) /\ Nums(c) = Nums(step2) /\ NumsIn(c) = NumsIn(step2)
          /\ lc = step2.log_count
      BY <1>2, <1>3, CountedFacts DEF EpochRest, c, lc
    <2>10. Map(step2)' = Map(step2') /\ Nums(step2)' = Nums(step2')
           /\ NumsIn(step2)' = NumsIn(step2')
      BY DEF Nums, NumsIn, Map
    <2>11. UNCHANGED <<binlog, unified, main, binlogQ, entryQ, countQ, step1>>
      BY DEF EndMessage, queues
    <2>12. QED
      BY <1>4, <1>6, <2>4, <2>7, <2>8, <2>9, <2>10, <2>11 DEF i, tx, yes, one
  <1>7. QED
    BY <1>1, <1>5, <1>6

-----------------------------------------------------------------------------
(* The order of the messages in the pipeline. *)

(* The oldest message of the thread whose turn it is is the next one. *)
LEMMA HeadIsNext ==
  ASSUME NEW pipe \in [Threads -> Seq(Nat)], NEW c \in Threads, NEW d \in Threads,
         NEW lo \in Nat \ {0}, NEW hi \in Nat, Order(pipe, c, d, lo, hi),
         Len(pipe[c]) > 0, pipe[c][1] # NO_MESSAGE
  PROVE  pipe[c][1] = lo /\ lo < hi
  <1> DEFINE m == pipe[c][1]
  <1>2. pipe[c] \in Seq(Nat) /\ 1 \in 1 .. Len(pipe[c])
    OBVIOUS
  <1>3. m \in lo .. hi - 1
    BY <1>2 DEF Order, Slots
  <1>4. PICK u \in Threads : \E j \in 1 .. Len(pipe[u]) : pipe[u][j] = lo
    <2>1. lo \in lo .. hi - 1
      BY <1>3
    <2>2. QED
      BY <2>1 DEF Order, Covers
  <1>6. PICK j \in 1 .. Len(pipe[u]) : pipe[u][j] = lo
    BY <1>4
  <1>7. CASE u = c /\ j = 1
    BY <1>3, <1>6, <1>7
  <1>8. CASE ~(u = c /\ j = 1)
    <2>1. Earlier(c, 1, u, j, c)
      BY <1>2, <1>8, Numbers, SMTT(30) DEF Earlier, Round, Before
    <2>2. m < lo
      BY <1>2, <1>6, <2>1 DEF Order, InTurn, NO_MESSAGE
    <2>3. QED
      BY <1>3, <2>2
  <1>9. QED
    BY <1>7, <1>8

LEMMA BeforeFacts ==
  ASSUME NEW t \in Threads, NEW c \in Threads
  PROVE  /\ Before(t, c) \in Int /\ Before(t, c) \in {0, 1}
         /\ (Before(t, c) = 1) <=> (t < c)
         /\ Before(NumThreads - 1, c) = 0 /\ Before(t, 0) = 0 /\ Before(t, t) = 0
  BY Numbers DEF Before

LEMMA EarlierFacts ==
  ASSUME NEW t \in Threads, NEW u \in Threads, NEW i \in Nat, NEW j \in Nat, NEW c \in Threads
  PROVE  /\ ~(Earlier(t, i, u, j, c) /\ Earlier(u, j, t, i, c))
         /\ ~Earlier(t, i, t, i, c)
  <1>1. Round(t, i, c) \in Int /\ Round(u, j, c) \in Int
    BY BeforeFacts DEF Round
  <1>2. t \in Int /\ u \in Int
    BY Numbers
  <1>3. QED
    BY <1>1, <1>2 DEF Earlier

LEMMA HeadFirst ==
  ASSUME NEW c \in Threads, NEW t \in Threads, NEW i \in Nat \ {0}, ~(t = c /\ i = 1)
  PROVE  Earlier(c, 1, t, i, c)
  BY Numbers DEF Earlier, Round, Before

(* A message or a timeout joins the pipeline behind everything in it. *)
LEMMA OrderDeal ==
  ASSUME NEW pipe \in [Threads -> Seq(Nat)], NEW c \in Threads, NEW d \in Threads,
         NEW lo \in Nat \ {0}, NEW hi \in Nat, lo <= hi, Order(pipe, c, d, lo, hi),
         NEW m \in Nat, NEW hi1 \in Nat,
         \/ m = NO_MESSAGE /\ hi1 = hi
         \/ m = hi /\ hi1 = hi + 1,
         NEW pipe1 \in [Threads -> Seq(Nat)],
         pipe1 = [pipe EXCEPT ![d] = Append(pipe[d], m)]
  PROVE  Order(pipe1, c, NextThread(d), lo, hi1)
  <1> DEFINE n == Len(pipe[d])
             last == NumThreads - 1
  <1>1. /\ \A t \in Threads : Len(pipe[t]) \in Nat /\ Len(pipe1[t]) \in Nat
        /\ \A t \in Threads : t # d => pipe1[t] = pipe[t]
        /\ Len(pipe1[d]) = n + 1 /\ pipe1[d][n + 1] = m
        /\ \A j \in 1 .. n : pipe1[d][j] = pipe[d][j]
    BY AppendFacts
  <1>2. \A t \in Threads : \A j \in 1 .. Len(pipe1[t]) :
          \/ j \in 1 .. Len(pipe[t]) /\ pipe1[t][j] = pipe[t][j]
          \/ t = d /\ j = n + 1 /\ pipe1[t][j] = m
    BY <1>1
  <1>0. last \in Threads /\ last \in Nat /\ Threads = 0 .. last
    BY Numbers
  <1>3. Dealt(pipe1, c, NextThread(d))
    <2>1. \A t \in Threads : Len(pipe[t]) = Len(pipe[last]) + Before(t, d) - Before(t, c)
      BY DEF Order, Dealt
    <2>2. ASSUME NEW t \in Threads
          PROVE  Len(pipe1[t]) = Len(pipe1[last]) + Before(t, NextThread(d)) - Before(t, c)
      <3>0. /\ Len(pipe[t]) = Len(pipe[last]) + Before(t, d) - Before(t, c)
            /\ Len(pipe[t]) \in Nat /\ Len(pipe[last]) \in Nat
            /\ Before(t, c) \in Int /\ Before(t, d) \in Int
        BY <1>0, <1>1, <2>1, BeforeFacts
      <3>1. CASE d = last
        <4>1. NextThread(d) = 0 /\ Before(t, 0) = 0
          BY <3>1, NextThreadFacts, BeforeFacts
        <4>2. Len(pipe1[last]) = Len(pipe[last]) + 1
          BY <1>1, <3>1
        <4>3. CASE t = d
          <5>1. Before(t, c) = 0
            BY <3>1, <4>3, BeforeFacts
          <5>2. QED
            BY <3>0, <3>1, <4>1, <4>2, <4>3, <5>1, <1>1
        <4>4. CASE t # d
          <5>1. Before(t, d) = 1
            BY <1>0, <3>1, <4>4, BeforeFacts
          <5>2. Len(pipe1[t]) = Len(pipe[t])
            BY <1>1, <4>4
          <5> HIDE DEF last
          <5>3. QED
            BY <3>0, <4>1, <4>2, <5>1, <5>2, SMTT(30)
        <4>5. QED
          BY <4>3, <4>4
      <3>2. CASE d # last
        <4>1. NextThread(d) = d + 1 /\ d + 1 \in Threads
          BY <3>2, NextThreadFacts
        <4>2. Len(pipe1[last]) = Len(pipe[last])
          BY <1>0, <1>1, <3>2
        <4>3. CASE t = d
          <5>1. Before(t, d + 1) = 1 /\ Before(t, d) = 0
            BY <1>0, <4>1, <4>3 DEF Before
          <5>2. Len(pipe1[t]) = Len(pipe[t]) + 1
            BY <1>1, <4>3
          <5> HIDE DEF last
          <5>3. QED
            BY <3>0, <4>1, <4>2, <5>1, <5>2, SMTT(30)
        <4>4. CASE t # d
          <5>1. Before(t, d + 1) = Before(t, d)
            BY <1>0, <4>1, <4>4 DEF Before
          <5>2. Len(pipe1[t]) = Len(pipe[t])
            BY <1>1, <4>4
          <5> HIDE DEF last
          <5>3. QED
            BY <3>0, <4>1, <4>2, <5>1, <5>2
        <4>5. QED
          BY <4>3, <4>4
      <3>3. QED
        BY <3>1, <3>2
    <2>3. QED
      BY <2>2 DEF Dealt
  <1>4. Slots(pipe1, lo, hi1)
    <2>1. ASSUME NEW t \in Threads, NEW j \in 1 .. Len(pipe1[t])
          PROVE  pipe1[t][j] = NO_MESSAGE \/ pipe1[t][j] \in lo .. hi1 - 1
      <3>1. CASE j \in 1 .. Len(pipe[t]) /\ pipe1[t][j] = pipe[t][j]
        <4>1. pipe1[t][j] = NO_MESSAGE \/ pipe1[t][j] \in lo .. hi - 1
          BY <3>1 DEF Order, Slots
        <4>2. QED
          BY <4>1, SMTT(30)
      <3>2. CASE pipe1[t][j] = m
        BY <3>2
      <3>3. QED
        BY <1>2, <3>1, <3>2
    <2>2. QED
      BY <2>1 DEF Slots
  <1>5. Covers(pipe1, lo, hi1)
    <2>1. ASSUME NEW k \in lo .. hi1 - 1
          PROVE  \E t \in Threads : \E j \in 1 .. Len(pipe1[t]) : pipe1[t][j] = k
      <3>1. CASE k \in lo .. hi - 1
        <4>1. PICK t \in Threads : \E j \in 1 .. Len(pipe[t]) : pipe[t][j] = k
          BY <3>1 DEF Order, Covers
        <4>2. PICK j \in 1 .. Len(pipe[t]) : pipe[t][j] = k
          BY <4>1
        <4>3. j \in 1 .. Len(pipe1[t]) /\ pipe1[t][j] = k
          BY <1>1, <4>2
        <4>4. QED
          BY <4>3
      <3>2. CASE k = m
        <4>1. n + 1 \in 1 .. Len(pipe1[d])
          BY <1>1
        <4>2. QED
          BY <1>1, <3>2, <4>1
      <3>3. QED
        BY <3>1, <3>2
    <2>2. QED
      BY <2>1 DEF Covers
  <1>6. InTurn(pipe1, c)
    <2>0. ASSUME NEW t \in Threads, NEW j \in 1 .. Len(pipe[t])
          PROVE  Earlier(t, j, d, n + 1, c)
      <3>1. Len(pipe[t]) = Len(pipe[last]) + Before(t, d) - Before(t, c)
        BY DEF Order, Dealt
      <3>2. n = Len(pipe[last]) + Before(d, d) - Before(d, c)
        BY DEF Order, Dealt
      <3>3. /\ n \in Nat /\ Len(pipe[t]) \in Nat /\ Len(pipe[last]) \in Nat
            /\ Before(t, c) \in Int /\ Before(d, c) \in Int /\ Before(d, d) = 0
            /\ Before(t, d) = 0 \/ (Before(t, d) = 1 /\ t < d)
        BY <1>0, <1>1, BeforeFacts
      <3>4. Len(pipe[t]) + Before(t, c) = n + Before(d, c) + Before(t, d)
        <4> DEFINE l == Len(pipe[t])
                   z == Len(pipe[last])
                   x == Before(t, c)
                   y == Before(d, c)
                   e == Before(t, d)
        <4>1. l = z + e - x /\ n = z + 0 - y
          BY <3>1, <3>2, <3>3
        <4>2. l \in Int /\ z \in Int /\ x \in Int /\ y \in Int /\ e \in Int /\ n \in Int
          BY <3>3, BeforeFacts
        <4> HIDE DEF n, last, l, z, x, y, e
        <4>3. l + x = n + y + e
          BY <4>1, <4>2
        <4>4. QED
          BY <4>3 DEF l, x, y, e
      <3> HIDE DEF n, last
      <3>6. j \in Int /\ j <= Len(pipe[t])
        BY <3>3
      <3> DEFINE x == Before(t, c)
                 y == Before(d, c)
                 l == Len(pipe[t])
      <3>7. x \in Int /\ y \in Int /\ l \in Int /\ n \in Int
        BY <3>3
      <3>8. CASE Before(t, d) = 0
        <4>1. l + x = n + y + 0
          BY <3>4, <3>8
        <4> HIDE DEF x, y, l
        <4>2. j + x < (n + 1) + y
          BY <3>6, <3>7, <4>1 DEF l
        <4>3. QED
          BY <4>2 DEF Earlier, Round, x, y
      <3>9. CASE Before(t, d) = 1 /\ t < d
        <4>1. l + x = n + y + 1
          BY <3>4, <3>9
        <4> HIDE DEF x, y, l
        <4>2. j + x < (n + 1) + y \/ j + x = (n + 1) + y
          BY <3>6, <3>7, <4>1 DEF l
        <4>3. QED
          BY <3>9, <4>2 DEF Earlier, Round, x, y
      <3>10. QED
        BY <3>3, <3>8, <3>9
    <2>1. ASSUME NEW t \in Threads, NEW u \in Threads,
                 NEW a \in 1 .. Len(pipe1[t]), NEW b \in 1 .. Len(pipe1[u]),
                 pipe1[t][a] # NO_MESSAGE, pipe1[u][b] # NO_MESSAGE,
                 Earlier(t, a, u, b, c)
          PROVE  pipe1[t][a] < pipe1[u][b]
      <3>0. a \in Nat /\ b \in Nat
        BY <1>1
      <3>1. CASE /\ a \in 1 .. Len(pipe[t]) /\ pipe1[t][a] = pipe[t][a]
                 /\ b \in 1 .. Len(pipe[u]) /\ pipe1[u][b] = pipe[u][b]
        BY <2>1, <3>1 DEF Order, InTurn
      <3>2. CASE /\ a \in 1 .. Len(pipe[t]) /\ pipe1[t][a] = pipe[t][a]
                 /\ u = d /\ b = n + 1 /\ pipe1[u][b] = m
        <4>1. pipe[t][a] \in lo .. hi - 1
          BY <2>1, <3>2 DEF Order, Slots
        <4>2. m = hi
          BY <2>1, <3>2
        <4>3. QED
          BY <3>2, <4>1, <4>2
      <3>3. CASE t = d /\ a = n + 1 /\ b \in 1 .. Len(pipe[u])
        BY <2>0, <2>1, <3>0, <3>3, EarlierFacts
      <3>4. CASE t = d /\ a = n + 1 /\ u = d /\ b = n + 1
        BY <2>1, <3>0, <3>4, EarlierFacts
      <3>5. QED
        BY <1>2, <3>1, <3>2, <3>3, <3>4
    <2>3. QED
      BY <2>1, SMTT(30) DEF InTurn
  <1>7. QED
    BY <1>3, <1>4, <1>5, <1>6 DEF Order

(* The collecting thread is done with the oldest message of the thread whose *)
(* turn it is, or hears of a timeout.                                        *)
LEMMA OrderCollect ==
  ASSUME NEW pipe \in [Threads -> Seq(Nat)], NEW c \in Threads, NEW d \in Threads,
         NEW lo \in Nat \ {0}, NEW hi \in Nat, lo <= hi, Order(pipe, c, d, lo, hi),
         Len(pipe[c]) > 0,
         NEW lo1 \in Nat, lo1 = IF pipe[c][1] = NO_MESSAGE THEN lo ELSE lo + 1,
         NEW pipe1 \in [Threads -> Seq(Nat)],
         pipe1 = [pipe EXCEPT ![c] = Tail(pipe[c])]
  PROVE  Order(pipe1, NextThread(c), d, lo1, hi) /\ lo1 <= hi
  <1> DEFINE last == NumThreads - 1
             c1 == NextThread(c)
             old(t, j) == IF t = c THEN j + 1 ELSE j
             K == IF c = last THEN 1 ELSE 0
  <1>0. last \in Threads /\ last \in Nat /\ Threads = 0 .. last /\ c1 \in Threads
    BY Numbers, NextThreadFacts
  <1>1. /\ \A t \in Threads : Len(pipe[t]) \in Nat /\ Len(pipe1[t]) \in Nat
        /\ \A t \in Threads : t # c => pipe1[t] = pipe[t]
        /\ Len(pipe1[c]) = Len(pipe[c]) - 1
        /\ \A j \in 1 .. Len(pipe[c]) - 1 : pipe1[c][j] = pipe[c][j + 1]
    <2>1. pipe[c] \in Seq(Nat) /\ pipe[c] # << >>
      OBVIOUS
    <2>2. QED
      BY <2>1, TailFacts
  <1>2. \A t \in Threads : \A j \in 1 .. Len(pipe1[t]) :
          /\ old(t, j) \in 1 .. Len(pipe[t]) /\ pipe1[t][j] = pipe[t][old(t, j)]
          /\ ~(t = c /\ old(t, j) = 1)
    BY <1>1
  <1>3. \A t \in Threads : \A j \in Nat :
          Round(t, old(t, j), c) = Round(t, j, c1) + K /\ Round(t, j, c1) \in Int
    <2>1. ASSUME NEW t \in Threads, NEW j \in Nat
          PROVE  Round(t, old(t, j), c) = Round(t, j, c1) + K /\ Round(t, j, c1) \in Int
      <3>1. CASE c = last
        <4>1. c1 = 0 /\ Before(t, c1) = 0
          BY <3>1, NextThreadFacts, BeforeFacts
        <4>2. CASE t = c
          BY <3>1, <4>1, <4>2, BeforeFacts DEF Round
        <4>3. CASE t # c
          <5>1. Before(t, c) = 1
            BY <1>0, <3>1, <4>3, BeforeFacts
          <5>2. QED
            BY <3>1, <4>1, <4>3, <5>1 DEF Round
        <4>4. QED
          BY <4>2, <4>3
      <3>2. CASE c # last
        <4>1. c1 = c + 1 /\ c1 \in Threads
          BY <3>2, <1>0, NextThreadFacts
        <4>2. CASE t = c
          <5>1. Before(t, c1) = 1 /\ Before(t, c) = 0
            BY <1>0, <4>1, <4>2 DEF Before
          <5> HIDE DEF c1
          <5>2. QED
            BY <3>2, <4>2, <5>1 DEF Round
        <4>3. CASE t # c
          <5>1. Before(t, c1) = Before(t, c) /\ Before(t, c) \in Int
            BY <1>0, <4>1, <4>3 DEF Before
          <5> HIDE DEF c1
          <5>2. QED
            BY <3>2, <4>3, <5>1 DEF Round
        <4>4. QED
          BY <4>2, <4>3
      <3>3. QED
        BY <3>1, <3>2
    <2>2. QED
      BY <2>1
  <1>4. Dealt(pipe1, c1, d)
    <2>1. \A t \in Threads : Len(pipe[t]) = Len(pipe[last]) + Before(t, d) - Before(t, c)
      BY DEF Order, Dealt
    <2>2. ASSUME NEW t \in Threads
          PROVE  Len(pipe1[t]) = Len(pipe1[last]) + Before(t, d) - Before(t, c1)
      <3> DEFINE l == Len(pipe[t])
                 l1 == Len(pipe1[t])
                 z == Len(pipe[last])
                 z1 == Len(pipe1[last])
                 e == Before(t, d)
                 x == Before(t, c)
                 x1 == Before(t, c1)
      <3>0. /\ l = z + e - x
            /\ l \in Int /\ l1 \in Int /\ z \in Int /\ z1 \in Int
            /\ e \in Int /\ x \in Int /\ x1 \in Int
        BY <1>0, <1>1, <2>1, BeforeFacts
      <3>1. CASE c = last
        <4>1. x1 = 0 /\ z1 = z - 1
          BY <1>1, <3>1, NextThreadFacts, BeforeFacts
        <4>2. CASE t = c
          <5>1. e = 0 /\ l1 = z1
            BY <3>1, <4>2, BeforeFacts
          <5> HIDE DEF l, l1, z, z1, e, x, x1
          <5>2. l1 = z1 + e - x1
            BY <3>0, <4>1, <5>1
          <5>3. QED
            BY <5>2 DEF l1, z1, e, x1
        <4>3. CASE t # c
          <5>1. x = 1 /\ l1 = l
            BY <1>0, <1>1, <3>1, <4>3, BeforeFacts
          <5> HIDE DEF l, l1, z, z1, e, x, x1
          <5>2. l1 = z1 + e - x1
            BY <3>0, <4>1, <5>1
          <5>3. QED
            BY <5>2 DEF l1, z1, e, x1
        <4>4. QED
          BY <4>2, <4>3
      <3>2. CASE c # last
        <4>1. z1 = z /\ c1 = c + 1
          BY <1>0, <1>1, <3>2, NextThreadFacts
        <4>2. CASE t = c
          <5>1. x1 = 1 /\ x = 0 /\ l1 = l - 1
            BY <1>0, <1>1, <4>1, <4>2 DEF Before
          <5> HIDE DEF l, l1, z, z1, e, x, x1
          <5>2. l1 = z1 + e - x1
            BY <3>0, <4>1, <5>1
          <5>3. QED
            BY <5>2 DEF l1, z1, e, x1
        <4>3. CASE t # c
          <5>1. x1 = x /\ l1 = l
            BY <1>0, <1>1, <4>1, <4>3 DEF Before
          <5> HIDE DEF l, l1, z, z1, e, x, x1
          <5>2. l1 = z1 + e - x1
            BY <3>0, <4>1, <5>1
          <5>3. QED
            BY <5>2 DEF l1, z1, e, x1
        <4>4. QED
          BY <4>2, <4>3
      <3>3. QED
        BY <3>1, <3>2
    <2>3. QED
      BY <2>2 DEF Dealt
  <1>5. pipe[c][1] # NO_MESSAGE => pipe[c][1] = lo /\ lo < hi
    BY HeadIsNext
  <1>6. lo1 <= hi
    BY <1>5
  <1>7. Slots(pipe1, lo1, hi)
    <2>1. ASSUME NEW t \in Threads, NEW j \in 1 .. Len(pipe1[t])
          PROVE  pipe1[t][j] = NO_MESSAGE \/ pipe1[t][j] \in lo1 .. hi - 1
      <3> DEFINE i == old(t, j)
      <3>1. /\ i \in 1 .. Len(pipe[t]) /\ pipe1[t][j] = pipe[t][i] /\ ~(t = c /\ i = 1)
        BY <1>2
      <3>2. pipe[t][i] = NO_MESSAGE \/ pipe[t][i] \in lo .. hi - 1
        BY <3>1 DEF Order, Slots
      <3>3. CASE pipe[c][1] # NO_MESSAGE /\ pipe[t][i] # NO_MESSAGE
        <4>1. Earlier(c, 1, t, i, c)
          <5>1. i \in Nat \ {0}
            BY <1>1, <3>1
          <5> HIDE DEF i
          <5>2. QED
            BY <3>1, <5>1, HeadFirst
        <4>2. 1 \in 1 .. Len(pipe[c])
          BY <1>1
        <4> HIDE DEF i
        <4>3. pipe[c][1] < pipe[t][i]
          BY <3>1, <3>3, <4>1, <4>2 DEF Order, InTurn
        <4> DEFINE v == pipe[t][i]
        <4>4. v \in lo .. hi - 1 /\ lo < v /\ lo1 = lo + 1 /\ v = pipe1[t][j]
          BY <1>5, <3>1, <3>2, <3>3, <4>3
        <4> HIDE DEF v
        <4>5. v \in lo1 .. hi - 1
          <5>1. v \in Int /\ lo <= v /\ v <= hi - 1
            BY <4>4
          <5>2. lo + 1 <= v
            BY <4>4, <5>1, SMTT(30)
          <5>3. QED
            BY <4>4, <5>1, <5>2, SMTT(30)
        <4>6. QED
          BY <4>4, <4>5
      <3>4. CASE pipe[c][1] = NO_MESSAGE
        BY <3>1, <3>2, <3>4
      <3>5. QED
        BY <3>1, <3>3, <3>4
    <2>2. QED
      BY <2>1 DEF Slots
  <1>8. Covers(pipe1, lo1, hi)
    <2>1. ASSUME NEW m \in lo1 .. hi - 1
          PROVE  \E t \in Threads : \E j \in 1 .. Len(pipe1[t]) : pipe1[t][j] = m
      <3>1. m \in lo .. hi - 1 /\ m # NO_MESSAGE
        BY DEF NO_MESSAGE
      <3>2. PICK t \in Threads : \E j \in 1 .. Len(pipe[t]) : pipe[t][j] = m
        BY <3>1 DEF Order, Covers
      <3>3. PICK j \in 1 .. Len(pipe[t]) : pipe[t][j] = m
        BY <3>2
      <3>4. CASE t = c
        <4>1. j # 1
          BY <1>5, <3>1, <3>3, <3>4
        <4>2. j - 1 \in 1 .. Len(pipe[c]) - 1 /\ j - 1 + 1 = j
          BY <1>1, <3>4, <4>1
        <4>3. pipe1[c][j - 1] = pipe[c][j] /\ j - 1 \in 1 .. Len(pipe1[c])
          BY <1>1, <4>2
        <4>4. QED
          BY <3>3, <3>4, <4>3
      <3>5. CASE t # c
        BY <1>1, <3>3, <3>5
      <3>6. QED
        BY <3>4, <3>5
    <2>2. QED
      BY <2>1 DEF Covers
  <1>9. InTurn(pipe1, c1)
    <2>1. ASSUME NEW t \in Threads, NEW u \in Threads,
                 NEW i \in 1 .. Len(pipe1[t]), NEW j \in 1 .. Len(pipe1[u]),
                 pipe1[t][i] # NO_MESSAGE, pipe1[u][j] # NO_MESSAGE, Earlier(t, i, u, j, c1)
          PROVE  pipe1[t][i] < pipe1[u][j]
      <3>1. /\ Round(t, old(t, i), c) = Round(t, i, c1) + K /\ Round(t, i, c1) \in Int
            /\ Round(u, old(u, j), c) = Round(u, j, c1) + K /\ Round(u, j, c1) \in Int
        <4>1. i \in Nat /\ j \in Nat
          BY <1>1
        <4> HIDE DEF old, K
        <4>2. QED
          BY <1>3, <4>1
      <3>2. K \in Int
        OBVIOUS
      <3> HIDE DEF old, K
      <3>3. Earlier(t, old(t, i), u, old(u, j), c)
        BY <2>1, <3>1, <3>2, SMTT(30) DEF Earlier
      <3>4. /\ old(t, i) \in 1 .. Len(pipe[t]) /\ pipe1[t][i] = pipe[t][old(t, i)]
            /\ old(u, j) \in 1 .. Len(pipe[u]) /\ pipe1[u][j] = pipe[u][old(u, j)]
        BY <1>2
      <3>5. InTurn(pipe, c)
        BY DEF Order
      <3>6. QED
        BY <2>1, <3>3, <3>4, <3>5 DEF InTurn
    <2>2. QED
      BY <2>1 DEF InTurn
  <1>10. QED
    BY <1>4, <1>6, <1>7, <1>8, <1>9 DEF Order

-----------------------------------------------------------------------------
(* One lane. *)

LEMMA AmountFacts ==
  ASSUME NEW e \in Amounts, NEW k \in Nat
  PROVE  e[k] \in Nat
  BY DEF Amounts

(* What is where, and of which type, in a lane. *)
Points(p, o, e) ==
  /\ \A j \in 1 .. Len(p) + 1 : o[j] \in Int
  /\ \A j \in 1 .. Len(p) : p[j] \in Nat /\ e[p[j]] \in Nat

LEMMA LaneTypes ==
  ASSUME NEW p, NEW o, NEW e, NEW tk, NEW left, NEW bq, NEW h, NEW m, NEW count, NEW d,
         NEW cq, NEW q,
         Lane(p, o, e, tk, left, bq, h, m, count, d, cq, q)
  PROVE  /\ Len(p) \in Nat /\ Len(bq) \in Nat /\ Len(cq) \in Nat /\ Len(q) \in Nat
         /\ tk + Len(cq) \in Nat /\ tk \in {0, 1} /\ h \in {0, 1}
         /\ left \in Nat /\ m \in Nat /\ count \in Nat /\ d \in Nat
         /\ Points(p, o, e)
  <1>1. p \in Seq(Nat) /\ o \in [Nat -> Int] /\ e \in Amounts
    BY DEF Lane, Typed
  <1>2. /\ bq \in Seq(Nat) /\ cq \in Seq(Nat) /\ q \in Seq(Item)
        /\ tk \in {0, 1} /\ h \in {0, 1}
        /\ left \in Nat /\ m \in Nat /\ count \in Nat /\ d \in Nat
    BY DEF Lane, Typed
  <1>3. Len(p) \in Nat /\ Len(bq) \in Nat /\ Len(cq) \in Nat /\ Len(q) \in Nat
    BY ONLY <1>1, <1>2
  <1>4. tk + Len(cq) \in Nat
    BY ONLY <1>2, <1>3
  <1>5. ASSUME NEW j \in 1 .. Len(p)
        PROVE  p[j] \in Nat
    BY ONLY <1>1
  <1>6. ASSUME NEW j \in 1 .. Len(p)
        PROVE  e[p[j]] \in Nat
    BY ONLY <1>1, <1>5, AmountFacts
  <1>7. ASSUME NEW j \in 1 .. Len(p) + 1
        PROVE  o[j] \in Int
    BY ONLY <1>1, <1>3
  <1>8. Points(p, o, e)
    BY ONLY <1>5, <1>6, <1>7 DEF Points
  <1>9. QED
    BY ONLY <1>2, <1>3, <1>4, <1>8

(* The queue ends where step1 is, in front of what it has not reached. *)
Ends(p, o, n, h, q) ==
  /\ \A j \in n + h + 1 .. Len(p) + 1 : Len(q) <= o[j]
  /\ n + h <= Len(p) /\ (h = 1 => n + 1 \in 1 .. Len(p))

LEMMA LaneEnds ==
  ASSUME NEW p, NEW o, NEW e, NEW tk, NEW left, NEW bq, NEW h, NEW m, NEW count, NEW d,
         NEW cq, NEW q,
         Lane(p, o, e, tk, left, bq, h, m, count, d, cq, q)
  PROVE  Ends(p, o, tk + Len(cq), h, q)
  <1> DEFINE n == tk + Len(cq)
  <1>0. h \in {0, 1} /\ d \in Nat /\ count \in Nat
    BY LaneTypes
  <1>1. n \in Nat /\ Len(p) \in Nat /\ Len(bq) \in Nat /\ Len(q) \in Nat
    BY LaneTypes
  <1>2. Len(p) = n + h + Len(bq)
    BY DEF Lane, Placed
  <1>3. Len(q) = o[n + 1] + d /\ (h = 0 => d = 0)
    BY DEF Lane, Queued
  <1>4. h = 1 => count = e[p[n + 1]] /\ d <= count
    BY DEF Lane, Placed
  <1>5. /\ \A j \in 1 .. Len(p) : o[j + 1] = o[j] + e[p[j]]
        /\ \A i, j \in 1 .. Len(p) + 1 : i <= j => o[i] <= o[j]
    BY DEF Lane, Offsets
  <1>6. /\ \A j \in 1 .. Len(p) + 1 : o[j] \in Int
        /\ \A j \in 1 .. Len(p) : e[p[j]] \in Nat
    BY LaneTypes DEF Points
  <1> HIDE DEF n
  <1>7. n + h <= Len(p) /\ n + h + 1 \in 1 .. Len(p) + 1
    BY ONLY <1>0, <1>1, <1>2
  <1>8. h = 1 => n + 1 \in 1 .. Len(p)
    BY ONLY <1>0, <1>1, <1>7
  <1>9. Len(q) <= o[n + h + 1]
    <2>1. CASE h = 1
      <3>2. o[n + 1 + 1] = o[n + 1] + e[p[n + 1]] /\ e[p[n + 1]] \in Nat
        BY ONLY <1>5, <1>6, <1>8, <2>1
      <3>3. o[n + 1] \in Int
        BY ONLY <1>1, <1>6, <1>8, <2>1
      <3>4. Len(q) <= o[n + 1 + 1]
        <4> DEFINE a == o[n + 1]
                   b == e[p[n + 1]]
                   l == Len(q)
        <4>1. a \in Int /\ b \in Nat /\ d \in Nat /\ l = a + d /\ d <= b
          BY ONLY <1>0, <1>3, <1>4, <2>1, <3>2, <3>3
        <4> HIDE DEF a, b, l
        <4>2. l <= a + b
          BY ONLY <4>1
        <4>3. QED
          BY ONLY <3>2, <4>2 DEF a, b, l
      <3>5. QED
        BY ONLY <2>1, <3>4
    <2>2. CASE h = 0
      <3>2. n + h + 1 = n + 1
        BY ONLY <1>1, <2>2
      <3>3. o[n + 1] \in Int
        BY ONLY <1>6, <1>7, <3>2
      <3>4. QED
        BY ONLY <1>0, <1>1, <1>3, <2>2, <3>2, <3>3
    <2>3. QED
      BY ONLY <1>0, <2>1, <2>2
  <1>10. ASSUME NEW j \in n + h + 1 .. Len(p) + 1
        PROVE  Len(q) <= o[j]
    <2> DEFINE i == n + h + 1
    <2>0. j \in i .. Len(p) + 1
      BY ONLY TRUE
    <2>1. i \in 1 .. Len(p) + 1 /\ i \in Int
      BY ONLY <1>0, <1>1, <1>7
    <2>2. j \in 1 .. Len(p) + 1 /\ i <= j
      BY ONLY <1>1, <2>0, <2>1
    <2>3. Len(q) <= o[i]
      BY ONLY <1>9
    <2> HIDE DEF i
    <2>4. o[i] <= o[j] /\ o[i] \in Int /\ o[j] \in Int
      BY ONLY <1>5, <1>6, <2>1, <2>2
    <2>5. QED
      BY ONLY <1>1, <2>3, <2>4
  <1>11. QED
    BY ONLY <1>7, <1>8, <1>10 DEF n, Ends

(* A message is dealt to the thread. *)
LEMMA LaneDeal ==
  ASSUME NEW p, NEW o, NEW e, NEW tk, NEW left, NEW bq, NEW h, NEW m, NEW count, NEW d,
         NEW cq, NEW q,
         NEW x, x \in Nat,
         Lane(p, o, e, tk, left, bq, h, m, count, d, cq, q)
  PROVE  Lane(Append(p, x), [o EXCEPT ![Len(p) + 2] = o[Len(p) + 1] + e[x]], e, tk, left,
              Append(bq, x), h, m, count, d, cq, q)
  <1> DEFINE n == tk + Len(cq)
             P == Append(p, x)
             B == Append(bq, x)
             y == o[Len(p) + 1] + e[x]
             O == [o EXCEPT ![Len(p) + 2] = y]
  <1>0. h \in {0, 1} /\ d \in Nat /\ count \in Nat /\ x \in Nat /\ tk \in {0, 1} /\ left \in Nat
    BY LaneTypes
  <1>01. n \in Nat /\ Len(p) \in Nat /\ Len(bq) \in Nat /\ Len(q) \in Nat /\ Len(cq) \in Nat
    BY LaneTypes
  <1>1. /\ n \in Nat /\ Len(p) \in Nat /\ Len(bq) \in Nat /\ Len(q) \in Nat /\ Len(cq) \in Nat
        /\ Len(p) + 1 \in Nat /\ Len(p) + 2 \in Nat
    BY ONLY <1>01
  <1>02. /\ p \in Seq(Nat) /\ o \in [Nat -> Int] /\ e \in Amounts
         /\ bq \in Seq(Nat) /\ cq \in Seq(Nat) /\ q \in Seq(Item)
    BY DEF Lane, Typed
  <1>2. /\ P \in Seq(Nat) /\ Len(P) = Len(p) + 1 /\ P[Len(p) + 1] = x
        /\ \A j \in 1 .. Len(p) : P[j] = p[j]
    BY ONLY <1>0, <1>02, AppendFacts
  <1>3. /\ B \in Seq(Nat) /\ Len(B) = Len(bq) + 1 /\ B[Len(bq) + 1] = x
        /\ \A j \in 1 .. Len(bq) : B[j] = bq[j]
    BY ONLY <1>0, <1>02, AppendFacts
  <1>4. e[x] \in Nat /\ o[Len(p) + 1] \in Int
    BY ONLY <1>0, <1>02, <1>1, AmountFacts
  <1>5. y \in Int
    BY ONLY <1>4
  <1> HIDE DEF y
  <1>6. O \in [Nat -> Int] /\ O[Len(p) + 2] = y /\ \A j \in 1 .. Len(p) + 1 : O[j] = o[j]
    BY ONLY <1>02, <1>1, <1>5, SMTT(30)
  <1>7. /\ \A j \in 1 .. Len(p) + 1 : j \in Nat /\ o[j] \in Int
        /\ \A j \in 1 .. Len(p) : e[p[j]] \in Nat
    BY LaneTypes DEF Points
  <1>8. /\ \A j \in n + h + 1 .. Len(p) + 1 : Len(q) <= o[j]
        /\ n + h <= Len(p) /\ (h = 1 => n + 1 \in 1 .. Len(p))
    <2>1. Ends(p, o, n, h, q)
      BY LaneEnds
    <2>2. QED
      BY ONLY <2>1 DEF Ends
  <1>9. Placed(P, e, tk, B, h, m, count, d, cq)
    <2>1. /\ Len(p) = n + h + Len(bq)
          /\ \A j \in 1 .. Len(cq) : cq[j] = e[p[tk + j]]
          /\ h = 1 => m = p[n + 1] /\ count = e[p[n + 1]] /\ d <= count
          /\ \A j \in 1 .. Len(bq) : bq[j] = p[n + h + j]
      BY DEF Lane, Placed
    <2>2. \A j \in 1 .. Len(cq) : tk + j \in 1 .. Len(p)
      <3>1. n + h <= Len(p) /\ n = tk + Len(cq)
        BY ONLY <1>8
      <3> HIDE DEF n
      <3>2. QED
        BY ONLY <1>0, <1>1, <3>1
    <2> HIDE DEF n, P, B
    <2>3. Len(P) = n + h + Len(B)
      BY ONLY <1>0, <1>1, <1>2, <1>3, <2>1
    <2>4. \A j \in 1 .. Len(cq) : cq[j] = e[P[tk + j]]
      BY ONLY <1>2, <2>1, <2>2
    <2>5. h = 1 => m = P[n + 1] /\ count = e[P[n + 1]] /\ d <= count
      BY ONLY <1>2, <1>8, <2>1
    <2>6. ASSUME NEW j \in 1 .. Len(bq) + 1
          PROVE  B[j] = P[n + h + j]
      <3>1. CASE j \in 1 .. Len(bq)
        <4>1. n + h + j \in 1 .. Len(p)
          BY ONLY <1>0, <1>1, <2>1, <3>1, SMTT(30)
        <4>2. QED
          BY ONLY <1>2, <1>3, <2>1, <3>1, <4>1
      <3>2. CASE j = Len(bq) + 1
        <4>1. n + h + j = Len(p) + 1
          BY ONLY <1>0, <1>1, <2>1, <3>2
        <4>2. QED
          BY ONLY <1>2, <1>3, <3>2, <4>1
      <3>3. QED
        BY ONLY <1>1, <1>3, <3>1, <3>2
    <2>7. QED
      BY ONLY <1>1, <1>3, <2>3, <2>4, <2>5, <2>6 DEF Placed, n
  <1>10. Offsets(P, O, e, tk, left)
    <2>1. /\ o[1] = IF tk = 1 THEN left - e[p[1]] ELSE 0
          /\ \A j \in 1 .. Len(p) : o[j + 1] = o[j] + e[p[j]]
          /\ \A i, j \in 1 .. Len(p) + 1 : i <= j => o[i] <= o[j]
      BY DEF Lane, Offsets
    <2>2. tk = 1 => 1 \in 1 .. Len(p)
      BY ONLY <1>0, <1>1, <1>8 DEF n
    <2> HIDE DEF P, O
    <2>3. O[1] = IF tk = 1 THEN left - e[P[1]] ELSE 0
      <3>1. O[1] = o[1]
        <4>1. 1 \in 1 .. Len(p) + 1
          BY ONLY <1>1
        <4>2. QED
          BY ONLY <1>6, <4>1
      <3>2. QED
        BY ONLY <1>2, <2>1, <2>2, <3>1
    <2>4. ASSUME NEW j \in 1 .. Len(p) + 1
          PROVE  O[j + 1] = O[j] + e[P[j]]
      <3>1. CASE j \in 1 .. Len(p)
        <4>1. j + 1 \in 1 .. Len(p) + 1 /\ j \in 1 .. Len(p) + 1
          BY ONLY <1>1, <3>1
        <4>2. QED
          BY ONLY <1>2, <1>6, <2>1, <3>1, <4>1
      <3>2. CASE j = Len(p) + 1
        <4>1. j + 1 = Len(p) + 2 /\ j \in 1 .. Len(p) + 1
          BY ONLY <1>1, <3>2
        <4>2. QED
          BY ONLY <1>2, <1>6, <3>2, <4>1 DEF y
      <3>3. QED
        BY ONLY <1>1, <1>2, <3>1, <3>2
    <2>5. ASSUME NEW i \in 1 .. Len(p) + 2, NEW j \in 1 .. Len(p) + 2, i <= j
          PROVE  O[i] <= O[j]
      <3>1. CASE j \in 1 .. Len(p) + 1
        <4>1. i \in 1 .. Len(p) + 1
          BY ONLY <1>1, <1>2, <2>5, <3>1
        <4>2. QED
          BY ONLY <1>6, <2>1, <2>5, <3>1, <4>1
      <3>2. CASE j = Len(p) + 2 /\ i \in 1 .. Len(p) + 1
        <4>1. o[i] <= o[Len(p) + 1] /\ o[i] \in Int
          BY ONLY <1>1, <1>7, <2>1, <3>2
        <4>2. O[i] = o[i] /\ O[j] = y
          BY ONLY <1>6, <3>2
        <4> DEFINE a == o[Len(p) + 1]
                   b == e[x]
        <4>3. y = a + b /\ a \in Int /\ b \in Nat /\ o[i] <= a
          BY ONLY <1>4, <4>1 DEF y
        <4> HIDE DEF a, b
        <4>4. o[i] <= y
          BY ONLY <4>1, <4>3
        <4>5. QED
          BY ONLY <4>2, <4>4
      <3>3. CASE j = Len(p) + 2 /\ i = Len(p) + 2
        BY ONLY <1>5, <1>6, <3>3
      <3>4. QED
        BY ONLY <1>1, <1>2, <3>1, <3>2, <3>3
    <2>6. QED
      BY ONLY <1>1, <1>2, <2>3, <2>4, <2>5 DEF Offsets
  <1>11. Queued(P, O, e, n, h, d, q)
    <2>1. /\ h = 0 => d = 0
          /\ Len(q) = o[n + 1] + d
          /\ \A j \in 1 .. Len(p) : \A k \in 1 .. e[p[j]] :
               o[j] + k \in 1 .. Len(q) => q[o[j] + k] = [msg |-> p[j], part |-> k]
      BY DEF Lane, Queued
    <2> HIDE DEF P, O, n
    <2>2. O[n + 1] = o[n + 1]
      <3>1. n + 1 \in 1 .. Len(p) + 1
        BY ONLY <1>0, <1>1, <1>8
      <3>2. QED
        BY ONLY <1>6, <3>1
    <2>3. ASSUME NEW j \in 1 .. Len(p) + 1, NEW k \in 1 .. e[P[j]], O[j] + k \in 1 .. Len(q)
          PROVE  q[O[j] + k] = [msg |-> P[j], part |-> k]
      <3>1. CASE j \in 1 .. Len(p)
        <4>1. j \in 1 .. Len(p) + 1
          BY ONLY <1>1, <3>1
        <4>2. O[j] = o[j] /\ P[j] = p[j]
          BY ONLY <1>2, <1>6, <3>1, <4>1
        <4>3. k \in 1 .. e[p[j]] /\ o[j] + k \in 1 .. Len(q)
          BY ONLY <2>3, <4>2
        <4>4. QED
          BY ONLY <2>1, <3>1, <4>2, <4>3
      <3>2. CASE j = Len(p) + 1
        <4>1. Len(p) + 1 \in n + h + 1 .. Len(p) + 1 /\ Len(p) + 1 \in 1 .. Len(p) + 1
          BY ONLY <1>0, <1>1, <1>8
        <4>2. Len(q) <= o[Len(p) + 1] /\ O[j] = o[Len(p) + 1]
          BY ONLY <1>6, <1>8, <3>2, <4>1
        <4> DEFINE a == o[Len(p) + 1]
        <4>3. a \in Int /\ Len(q) <= a /\ a + k \in 1 .. Len(q)
          BY ONLY <1>4, <2>3, <4>2
        <4>4. k \in Nat \ {0}
          BY ONLY <1>2, <1>4, <3>2
        <4> HIDE DEF a
        <4>5. FALSE
          BY ONLY <1>1, <4>3, <4>4
        <4>6. QED
          BY ONLY <4>5
      <3>3. QED
        BY ONLY <1>1, <1>2, <3>1, <3>2
    <2>4. QED
      BY ONLY <1>1, <1>2, <2>1, <2>2, <2>3 DEF Queued
  <1>12. QED
    <2>1. Typed(P, O, e, tk, left, B, h, m, count, d, cq, q)
      <3>1. /\ e \in Amounts /\ tk \in {0, 1} /\ left \in Nat /\ h \in {0, 1} /\ m \in Nat
            /\ count \in Nat /\ d \in Nat /\ cq \in Seq(Nat) /\ q \in Seq(Item)
        BY DEF Lane, Typed
      <3> HIDE DEF P, O, B
      <3>2. QED
        BY ONLY <1>2, <1>3, <1>6, <3>1 DEF Typed
    <2>2. QED
      BY ONLY <2>1, <1>9, <1>10, <1>11 DEF Lane, n, y

(* What the thread keeps of a lane, and the collecting thread. *)
LEMMA LaneParts ==
  ASSUME NEW p, NEW o, NEW e, NEW tk, NEW left, NEW bq, NEW h, NEW m, NEW count, NEW d,
         NEW cq, NEW q,
         Lane(p, o, e, tk, left, bq, h, m, count, d, cq, q)
  PROVE  /\ p \in Seq(Nat) /\ o \in [Nat -> Int] /\ e \in Amounts
         /\ tk \in {0, 1} /\ left \in Nat /\ bq \in Seq(Nat) /\ h \in {0, 1} /\ m \in Nat
         /\ count \in Nat /\ d \in Nat /\ cq \in Seq(Nat) /\ q \in Seq(Item)
         /\ Placed(p, e, tk, bq, h, m, count, d, cq) /\ Offsets(p, o, e, tk, left)
         /\ Queued(p, o, e, tk + Len(cq), h, d, q)
  BY DEF Lane, Typed

(* The thread takes a message from its queue. *)
LEMMA LaneTake ==
  ASSUME NEW p, NEW o, NEW e, NEW tk, NEW left, NEW bq, NEW h, NEW m, NEW count, NEW d,
         NEW cq, NEW q,
         Lane(p, o, e, tk, left, bq, h, m, count, d, cq, q), h = 0, bq # << >>
  PROVE  Lane(p, o, e, tk, left, Tail(bq), 1, Head(bq), e[Head(bq)], 0, cq, q)
  <1> DEFINE n == tk + Len(cq)
             x == Head(bq)
             B == Tail(bq)
  <1>1. /\ p \in Seq(Nat) /\ o \in [Nat -> Int] /\ e \in Amounts
        /\ tk \in {0, 1} /\ left \in Nat /\ bq \in Seq(Nat) /\ h \in {0, 1} /\ m \in Nat
        /\ count \in Nat /\ d \in Nat /\ cq \in Seq(Nat) /\ q \in Seq(Item)
        /\ Placed(p, e, tk, bq, h, m, count, d, cq) /\ Offsets(p, o, e, tk, left)
        /\ Queued(p, o, e, n, h, d, q)
    BY LaneParts
  <1>2. Len(p) \in Nat /\ Len(bq) \in Nat /\ n \in Nat
    BY LaneTypes
  <1>3. /\ x \in Nat /\ B \in Seq(Nat) /\ Len(B) = Len(bq) - 1 /\ x = bq[1]
        /\ \A j \in 1 .. Len(bq) - 1 : B[j] = bq[j + 1]
    BY ONLY <1>1, bq # << >>, TailFacts
  <1>4. e[x] \in Nat
    BY ONLY <1>1, <1>3, AmountFacts
  <1>5. /\ Len(p) = n + h + Len(bq)
        /\ \A j \in 1 .. Len(cq) : cq[j] = e[p[tk + j]]
        /\ \A j \in 1 .. Len(bq) : bq[j] = p[n + h + j]
    BY ONLY <1>1 DEF Placed
  <1>6. Len(bq) > 0
    BY ONLY <1>1, bq # << >>
  <1> HIDE DEF n, x, B
  <1>7. x = p[n + 1]
    <2>1. 1 \in 1 .. Len(bq) /\ n + h + 1 = n + 1
      BY ONLY <1>2, <1>6, h = 0
    <2>2. bq[1] = p[n + h + 1]
      BY ONLY <1>5, <2>1
    <2>3. QED
      BY ONLY <1>3, <2>1, <2>2
  <1>8. ASSUME NEW j \in 1 .. Len(bq) - 1
        PROVE  B[j] = p[n + 1 + j]
    <2>1. j + 1 \in 1 .. Len(bq) /\ n + h + (j + 1) = n + 1 + j
      BY ONLY <1>2, <1>6, h = 0
    <2>2. bq[j + 1] = p[n + h + (j + 1)]
      BY ONLY <1>5, <2>1
    <2>3. QED
      BY ONLY <1>3, <2>1, <2>2
  <1>9. Len(p) = n + 1 + Len(B)
    BY ONLY <1>2, <1>3, <1>5, <1>6, h = 0
  <1>10. Placed(p, e, tk, B, 1, x, e[x], 0, cq)
    BY ONLY <1>3, <1>4, <1>5, <1>7, <1>8, <1>9 DEF Placed, n
  <1>11. Queued(p, o, e, n, 1, 0, q)
    BY ONLY <1>1, h = 0 DEF Queued
  <1>12. Typed(p, o, e, tk, left, B, 1, x, e[x], 0, cq, q)
    BY ONLY <1>1, <1>3, <1>4 DEF Typed
  <1>13. QED
    BY ONLY <1>1, <1>10, <1>11, <1>12 DEF Lane, n, x, B

(* The thread pushes the next entry of its message. *)
LEMMA LanePush ==
  ASSUME NEW p, NEW o, NEW e, NEW tk, NEW left, NEW bq, NEW h, NEW m, NEW count, NEW d,
         NEW cq, NEW q,
         Lane(p, o, e, tk, left, bq, h, m, count, d, cq, q), h = 1, d < count
  PROVE  Lane(p, o, e, tk, left, bq, h, m, count, d + 1, cq,
              Append(q, [msg |-> m, part |-> d + 1]))
  <1> DEFINE n == tk + Len(cq)
             x == [msg |-> m, part |-> d + 1]
             Q == Append(q, x)
  <1>1. /\ p \in Seq(Nat) /\ o \in [Nat -> Int] /\ e \in Amounts
        /\ tk \in {0, 1} /\ left \in Nat /\ bq \in Seq(Nat) /\ h \in {0, 1} /\ m \in Nat
        /\ count \in Nat /\ d \in Nat /\ cq \in Seq(Nat) /\ q \in Seq(Item)
        /\ Placed(p, e, tk, bq, h, m, count, d, cq) /\ Offsets(p, o, e, tk, left)
        /\ Queued(p, o, e, n, h, d, q)
    BY LaneParts
  <1>2. Len(p) \in Nat /\ Len(bq) \in Nat /\ n \in Nat /\ Len(q) \in Nat
    BY LaneTypes
  <1>3. x \in Item
    BY ONLY <1>1 DEF Item
  <1>4. /\ Q \in Seq(Item) /\ Len(Q) = Len(q) + 1 /\ Q[Len(q) + 1] = x
        /\ \A i \in 1 .. Len(q) : Q[i] = q[i]
    BY ONLY <1>1, <1>3, AppendFacts
  <1>5. /\ Len(p) = n + h + Len(bq)
        /\ \A j \in 1 .. Len(cq) : cq[j] = e[p[tk + j]]
        /\ \A j \in 1 .. Len(bq) : bq[j] = p[n + h + j]
        /\ m = p[n + 1] /\ count = e[p[n + 1]]
    BY ONLY <1>1, h = 1 DEF Placed
  <1>6. d + 1 \in Nat /\ d + 1 <= count
    BY ONLY <1>1, d < count
  <1>7. /\ \A j \in 1 .. Len(p) : o[j + 1] = o[j] + e[p[j]]
        /\ \A i, j \in 1 .. Len(p) + 1 : i <= j => o[i] <= o[j]
    BY ONLY <1>1 DEF Offsets
  <1>8. /\ Len(q) = o[n + 1] + d
        /\ \A j \in 1 .. Len(p) : \A k \in 1 .. e[p[j]] :
             o[j] + k \in 1 .. Len(q) => q[o[j] + k] = [msg |-> p[j], part |-> k]
    BY ONLY <1>1 DEF Queued
  <1>9. /\ \A j \in 1 .. Len(p) + 1 : o[j] \in Int
        /\ \A j \in 1 .. Len(p) : e[p[j]] \in Nat
    BY LaneTypes DEF Points
  <1>10. Placed(p, e, tk, bq, h, m, count, d + 1, cq)
    BY ONLY <1>5, <1>6 DEF Placed, n
  <1> HIDE DEF n, Q
  <1>11. n + 1 \in 1 .. Len(p) /\ n + 1 \in 1 .. Len(p) + 1 /\ n + 2 \in 1 .. Len(p) + 1
    BY ONLY <1>2, <1>5, h = 1
  <1>12. ASSUME NEW j \in 1 .. Len(p), NEW k \in 1 .. e[p[j]], o[j] + k \in 1 .. Len(q) + 1
         PROVE  Q[o[j] + k] = [msg |-> p[j], part |-> k]
    <2>1. /\ e[p[j]] \in Nat /\ o[j] \in Int /\ o[n + 1] \in Int /\ k \in Nat /\ k >= 1
          /\ j \in Nat /\ j \in 1 .. Len(p) + 1 /\ j + 1 \in 1 .. Len(p) + 1
      <3>1. j \in Nat /\ j \in 1 .. Len(p) + 1 /\ j + 1 \in 1 .. Len(p) + 1
        BY ONLY <1>2
      <3>2. e[p[j]] \in Nat /\ o[j] \in Int /\ o[n + 1] \in Int
        BY ONLY <1>9, <1>11, <3>1
      <3>3. QED
        BY ONLY <3>1, <3>2
    <2>2. CASE o[j] + k \in 1 .. Len(q)
      <3>1. q[o[j] + k] = [msg |-> p[j], part |-> k]
        BY ONLY <1>8, <2>2
      <3>2. QED
        BY ONLY <1>4, <2>2, <3>1
    <2>3. CASE o[j] + k = Len(q) + 1
      <3>1. o[j] + k = o[n + 1] + d + 1
        BY ONLY <1>8, <2>3
      <3>2. ASSUME j < n + 1 PROVE FALSE
        <4>1. j < n + 1
          BY ONLY <3>2
        <4>2. o[j + 1] <= o[n + 1]
          <5>1. j + 1 <= n + 1
            BY ONLY <1>2, <2>1, <4>1
          <5>2. QED
            BY ONLY <1>7, <1>11, <2>1, <5>1
        <4>3. o[j + 1] = o[j] + e[p[j]]
          BY ONLY <1>7
        <4> DEFINE a == o[j]
                   b == e[p[j]]
                   c == o[n + 1]
        <4>4. /\ a + b <= c /\ a + k = c + d + 1 /\ k <= b /\ a \in Int /\ b \in Nat /\ c \in Int
              /\ k \in Nat /\ d \in Nat
          BY ONLY <1>1, <2>1, <3>1, <4>2, <4>3
        <4> HIDE DEF a, b, c
        <4>5. QED
          BY ONLY <4>4
      <3>3. ASSUME n + 1 < j PROVE FALSE
        <4>1. n + 1 < j
          BY ONLY <3>3
        <4>2. o[n + 1 + 1] <= o[j] /\ o[n + 1 + 1] = o[n + 1] + e[p[n + 1]]
          <5>1. n + 1 + 1 <= j /\ n + 1 + 1 = n + 2
            BY ONLY <1>2, <2>1, <4>1, SMTT(30)
          <5>2. o[n + 1 + 1] <= o[j]
            BY ONLY <1>7, <1>11, <2>1, <5>1
          <5>3. QED
            BY ONLY <1>7, <1>11, <5>2
        <4> DEFINE a == o[j]
                   c == o[n + 1]
        <4>4. /\ c + count <= a /\ a + k = c + d + 1 /\ a \in Int /\ c \in Int
              /\ k \in Nat /\ k >= 1 /\ d \in Nat /\ count \in Nat
          BY ONLY <1>1, <1>5, <2>1, <3>1, <4>2
        <4> HIDE DEF a, c
        <4>5. QED
          BY ONLY <4>4, d < count
      <3>4. j = n + 1
        BY ONLY <1>2, <2>1, <3>2, <3>3
      <3>5. k = d + 1
        <4> DEFINE a == o[n + 1]
        <4>1. a + k = a + d + 1 /\ a \in Int /\ k \in Nat /\ d \in Nat
          BY ONLY <1>1, <2>1, <3>1, <3>4
        <4> HIDE DEF a
        <4>2. QED
          BY ONLY <4>1
      <3>6. QED
        BY ONLY <1>4, <1>5, <2>3, <3>4, <3>5
    <2>4. QED
      BY ONLY <1>2, <2>1, <2>2, <2>3, <1>12
  <1>13. Queued(p, o, e, n, h, d + 1, Q)
    <2>1. Len(Q) = o[n + 1] + (d + 1)
      <3>1. o[n + 1] \in Int
        BY ONLY <1>9, <1>11
      <3>2. Len(Q) = Len(q) + 1 /\ Len(q) = o[n + 1] + d /\ d \in Nat
        BY ONLY <1>1, <1>4, <1>8
      <3> DEFINE a == o[n + 1]
                 l == Len(q)
      <3>3. Len(Q) = l + 1 /\ l = a + d /\ d \in Nat /\ a \in Int
        BY ONLY <3>1, <3>2
      <3> HIDE DEF a, l
      <3>4. Len(Q) = a + (d + 1)
        BY ONLY <3>3
      <3>5. QED
        BY ONLY <3>4 DEF a
    <2>2. QED
      BY ONLY <1>4, <1>12, <2>1, h = 1 DEF Queued
  <1>14. Typed(p, o, e, tk, left, bq, h, m, count, d + 1, cq, Q)
    BY ONLY <1>1, <1>4, <1>6 DEF Typed
  <1>15. QED
    BY ONLY <1>1, <1>10, <1>13, <1>14 DEF Lane, n, Q

(* The thread pushes the number of entries of its message. *)
LEMMA LaneCount ==
  ASSUME NEW p, NEW o, NEW e, NEW tk, NEW left, NEW bq, NEW h, NEW m, NEW count, NEW d,
         NEW cq, NEW q,
         Lane(p, o, e, tk, left, bq, h, m, count, d, cq, q), h = 1, d = count
  PROVE  Lane(p, o, e, tk, left, bq, 0, 0, 0, 0, Append(cq, count), q)
  <1> DEFINE n == tk + Len(cq)
             C == Append(cq, count)
  <1>1. /\ p \in Seq(Nat) /\ o \in [Nat -> Int] /\ e \in Amounts
        /\ tk \in {0, 1} /\ left \in Nat /\ bq \in Seq(Nat) /\ h \in {0, 1} /\ m \in Nat
        /\ count \in Nat /\ d \in Nat /\ cq \in Seq(Nat) /\ q \in Seq(Item)
        /\ Placed(p, e, tk, bq, h, m, count, d, cq) /\ Offsets(p, o, e, tk, left)
        /\ Queued(p, o, e, n, h, d, q)
    BY LaneParts
  <1>2. /\ Len(p) \in Nat /\ Len(bq) \in Nat /\ n \in Nat /\ Len(q) \in Nat /\ Len(cq) \in Nat
        /\ n = tk + Len(cq)
    BY LaneTypes
  <1>4. /\ C \in Seq(Nat) /\ Len(C) = Len(cq) + 1 /\ C[Len(cq) + 1] = count
        /\ \A i \in 1 .. Len(cq) : C[i] = cq[i]
    BY ONLY <1>1, AppendFacts
  <1>5. /\ Len(p) = n + h + Len(bq)
        /\ \A j \in 1 .. Len(cq) : cq[j] = e[p[tk + j]]
        /\ \A j \in 1 .. Len(bq) : bq[j] = p[n + h + j]
        /\ m = p[n + 1] /\ count = e[p[n + 1]]
    BY ONLY <1>1, h = 1 DEF Placed
  <1>6. \A j \in 1 .. Len(p) : o[j + 1] = o[j] + e[p[j]]
    BY ONLY <1>1 DEF Offsets
  <1>7. /\ Len(q) = o[n + 1] + d
        /\ \A j \in 1 .. Len(p) : \A k \in 1 .. e[p[j]] :
             o[j] + k \in 1 .. Len(q) => q[o[j] + k] = [msg |-> p[j], part |-> k]
    BY ONLY <1>1 DEF Queued
  <1> HIDE DEF n, C
  <1>8. n + 1 \in 1 .. Len(p)
    BY ONLY <1>2, <1>5, h = 1
  <1>9. Placed(p, e, tk, bq, 0, 0, 0, 0, C)
    <2>1. tk + Len(C) = n + 1 /\ tk + (Len(cq) + 1) = n + 1 /\ n + 1 \in Nat
      BY ONLY <1>1, <1>2, <1>4
    <2>2. Len(p) = (tk + Len(C)) + 0 + Len(bq)
      BY ONLY <1>2, <1>5, <2>1, h = 1
    <2>3. ASSUME NEW j \in 1 .. Len(cq) + 1
          PROVE  C[j] = e[p[tk + j]]
      <3>1. CASE j \in 1 .. Len(cq)
        BY ONLY <1>4, <1>5, <3>1
      <3>2. CASE j = Len(cq) + 1
        BY ONLY <1>4, <1>5, <2>1, <3>2
      <3>3. QED
        BY ONLY <1>2, <3>1, <3>2
    <2>4. ASSUME NEW j \in 1 .. Len(bq)
          PROVE  bq[j] = p[(tk + Len(C)) + 0 + j]
      <3>1. (tk + Len(C)) + 0 + j = n + h + j
        BY ONLY <1>2, <2>1, h = 1
      <3>2. QED
        BY ONLY <1>5, <3>1
    <2>5. QED
      BY ONLY <1>4, <2>2, <2>3, <2>4 DEF Placed
  <1>10. Queued(p, o, e, tk + Len(C), 0, 0, q)
    <2>1. tk + Len(C) = n + 1
      BY ONLY <1>1, <1>2, <1>4
    <2>2. o[n + 1 + 1] = Len(q)
      BY ONLY <1>5, <1>6, <1>7, <1>8, d = count
    <2>3. Len(q) = o[n + 1 + 1] + 0
      BY ONLY <1>2, <2>2
    <2>4. Queued(p, o, e, n + 1, 0, 0, q)
      BY ONLY <1>7, <2>3 DEF Queued
    <2>5. QED
      BY ONLY <2>1, <2>4
  <1>11. Typed(p, o, e, tk, left, bq, 0, 0, 0, 0, C, q)
    BY ONLY <1>1, <1>4 DEF Typed
  <1>12. QED
    BY ONLY <1>1, <1>9, <1>10, <1>11 DEF Lane, C

(* While no message is taken, left is not about this lane. *)
LEMMA LaneLeft ==
  ASSUME NEW p, NEW o, NEW e, NEW tk, NEW left, NEW bq, NEW h, NEW m, NEW count, NEW d,
         NEW cq, NEW q, NEW l, l \in Nat,
         Lane(p, o, e, tk, left, bq, h, m, count, d, cq, q), tk = 0
  PROVE  Lane(p, o, e, tk, l, bq, h, m, count, d, cq, q)
  BY tk = 0 DEF Lane, Typed, Offsets

(* The collecting thread takes the number of entries of a message. *)
LEMMA LaneTaken ==
  ASSUME NEW p, NEW o, NEW e, NEW tk, NEW left, NEW bq, NEW h, NEW m, NEW count, NEW d,
         NEW cq, NEW q,
         Lane(p, o, e, tk, left, bq, h, m, count, d, cq, q), tk = 0, cq # << >>
  PROVE  /\ Lane(p, o, e, 1, Head(cq), bq, h, m, count, d, Tail(cq), q)
         /\ Len(p) > 0 /\ Head(cq) = e[p[1]]
  <1> DEFINE n == tk + Len(cq)
             C == Tail(cq)
             x == Head(cq)
  <1>1. /\ p \in Seq(Nat) /\ o \in [Nat -> Int] /\ e \in Amounts
        /\ tk \in {0, 1} /\ left \in Nat /\ bq \in Seq(Nat) /\ h \in {0, 1} /\ m \in Nat
        /\ count \in Nat /\ d \in Nat /\ cq \in Seq(Nat) /\ q \in Seq(Item)
        /\ Placed(p, e, tk, bq, h, m, count, d, cq) /\ Offsets(p, o, e, tk, left)
        /\ Queued(p, o, e, n, h, d, q)
    BY LaneParts
  <1>2. /\ Len(p) \in Nat /\ Len(bq) \in Nat /\ n \in Nat /\ Len(q) \in Nat /\ Len(cq) \in Nat
        /\ n = tk + Len(cq)
    BY LaneTypes
  <1>3. Len(cq) > 0
    BY ONLY <1>1, cq # << >>
  <1>4. /\ C \in Seq(Nat) /\ Len(C) = Len(cq) - 1 /\ x = cq[1] /\ x \in Nat
        /\ \A i \in 1 .. Len(cq) - 1 : C[i] = cq[i + 1]
    BY ONLY <1>1, cq # << >>, TailFacts
  <1>5. /\ Len(p) = n + h + Len(bq)
        /\ \A j \in 1 .. Len(cq) : cq[j] = e[p[tk + j]]
        /\ \A j \in 1 .. Len(bq) : bq[j] = p[n + h + j]
        /\ h = 1 => m = p[n + 1] /\ count = e[p[n + 1]] /\ d <= count
    BY ONLY <1>1 DEF Placed
  <1> HIDE DEF n, C, x
  <1>6. 1 + Len(C) = n /\ Len(p) > 0 /\ n > 0
    <2>1. h \in {0, 1}
      BY ONLY <1>1
    <2>2. Len(C) = Len(cq) - 1 /\ Len(p) = n + h + Len(bq)
      BY ONLY <1>4, <1>5
    <2>3. QED
      BY ONLY <1>2, <1>3, <2>1, <2>2, tk = 0
  <1>7. x = e[p[1]]
    <2>1. 1 \in 1 .. Len(cq) /\ tk + 1 = 1
      BY ONLY <1>2, <1>3, tk = 0
    <2>2. QED
      BY ONLY <1>4, <1>5, <2>1
  <1>8. ASSUME NEW j \in 1 .. Len(cq) - 1
        PROVE  C[j] = e[p[1 + j]]
    <2>1. j + 1 \in 1 .. Len(cq) /\ tk + (j + 1) = 1 + j
      BY ONLY <1>2, <1>3, tk = 0
    <2>2. cq[j + 1] = e[p[tk + (j + 1)]]
      BY ONLY <1>5, <2>1
    <2>3. QED
      BY ONLY <1>4, <2>1, <2>2
  <1>9. Placed(p, e, 1, bq, h, m, count, d, C)
    BY ONLY <1>4, <1>5, <1>6, <1>8 DEF Placed
  <1>10. Offsets(p, o, e, 1, x)
    <2>1. x - e[p[1]] = 0
      BY ONLY <1>4, <1>7
    <2>2. QED
      BY ONLY <1>1, <2>1, tk = 0, SMTT(30) DEF Offsets
  <1>11. Typed(p, o, e, 1, x, bq, h, m, count, d, C, q)
    BY ONLY <1>1, <1>4 DEF Typed
  <1>12. Queued(p, o, e, 1 + Len(C), h, d, q)
    BY ONLY <1>1, <1>6
  <1>13. Lane(p, o, e, 1, x, bq, h, m, count, d, C, q)
    BY ONLY <1>9, <1>10, <1>11, <1>12 DEF Lane
  <1>14. QED
    BY ONLY <1>6, <1>7, <1>13 DEF C, x

(* It takes the next entry of the message. *)
LEMMA LaneEntry ==
  ASSUME NEW p, NEW o, NEW e, NEW tk, NEW left, NEW bq, NEW h, NEW m, NEW count, NEW d,
         NEW cq, NEW q,
         Lane(p, o, e, tk, left, bq, h, m, count, d, cq, q), tk = 1, q # << >>,
         left > 0, left <= e[p[1]],
         NEW O, O = [j \in Nat |-> o[j] - 1], NEW l, l = left - 1,
         NEW part, part = e[p[1]] - left + 1
  PROVE  /\ Lane(p, O, e, tk, l, bq, h, m, count, d, cq, Tail(q))
         /\ Head(q) = [msg |-> p[1], part |-> part] /\ Len(p) > 0
  <1> DEFINE n == tk + Len(cq)
             Q == Tail(q)
  <1>1. /\ p \in Seq(Nat) /\ o \in [Nat -> Int] /\ e \in Amounts
        /\ tk \in {0, 1} /\ left \in Nat /\ bq \in Seq(Nat) /\ h \in {0, 1} /\ m \in Nat
        /\ count \in Nat /\ d \in Nat /\ cq \in Seq(Nat) /\ q \in Seq(Item)
        /\ Placed(p, e, tk, bq, h, m, count, d, cq) /\ Offsets(p, o, e, tk, left)
        /\ Queued(p, o, e, n, h, d, q)
    BY LaneParts
  <1>2. /\ Len(p) \in Nat /\ Len(bq) \in Nat /\ n \in Nat /\ Len(q) \in Nat /\ Len(cq) \in Nat
        /\ n = tk + Len(cq)
    BY LaneTypes
  <1>3. Len(q) > 0
    BY ONLY <1>1, q # << >>
  <1>4. /\ Q \in Seq(Item) /\ Len(Q) = Len(q) - 1 /\ Head(q) = q[1]
        /\ \A i \in 1 .. Len(q) - 1 : Q[i] = q[i + 1]
    BY ONLY <1>1, q # << >>, TailFacts
  <1>5. Len(p) = n + h + Len(bq)
    BY ONLY <1>1 DEF Placed
  <1>6. /\ o[1] = left - e[p[1]]
        /\ \A j \in 1 .. Len(p) : o[j + 1] = o[j] + e[p[j]]
        /\ \A i, j \in 1 .. Len(p) + 1 : i <= j => o[i] <= o[j]
    BY ONLY <1>1, tk = 1 DEF Offsets
  <1>7. /\ Len(q) = o[n + 1] + d
        /\ \A j \in 1 .. Len(p) : \A k \in 1 .. e[p[j]] :
             o[j] + k \in 1 .. Len(q) => q[o[j] + k] = [msg |-> p[j], part |-> k]
    BY ONLY <1>1 DEF Queued
  <1>8. \A j \in 1 .. Len(p) : e[p[j]] \in Nat
    BY LaneTypes DEF Points
  <1>9. ASSUME NEW j \in Nat
        PROVE  o[j] \in Int /\ O[j] = o[j] - 1 /\ o[j] - 1 \in Int
    <2>1. o[j] \in Int
      BY ONLY <1>1
    <2>2. O[j] = o[j] - 1
      BY ONLY O = [i \in Nat |-> o[i] - 1]
    <2>3. QED
      BY ONLY <2>1, <2>2
  <1>10. O \in [Nat -> Int]
    BY ONLY <1>9, O = [i \in Nat |-> o[i] - 1]
  <1> HIDE DEF n, Q
  <1>11. Len(p) > 0 /\ n > 0 /\ n <= Len(p)
    <2>1. h \in {0, 1}
      BY ONLY <1>1
    <2>2. QED
      BY ONLY <1>2, <1>5, <2>1, tk = 1
  <1>12. Head(q) = [msg |-> p[1], part |-> e[p[1]] - left + 1]
    <2> DEFINE b == e[p[1]]
               k == b - left + 1
    <2>0. 1 \in 1 .. Len(p)
      BY ONLY <1>2, <1>11
    <2>1. b \in Nat /\ left \in Nat /\ left > 0 /\ left <= b
      BY ONLY <1>1, <1>8, <2>0, left > 0, left <= e[p[1]]
    <2>2. o[1] = left - b
      BY ONLY <1>6
    <2>3. k \in 1 .. b /\ (left - b) + k = 1
      <3> HIDE DEF b
      <3>1. QED
        BY ONLY <2>1
    <2>4. o[1] + k = 1 /\ 1 \in 1 .. Len(q)
      BY ONLY <1>2, <1>3, <2>2, <2>3
    <2> HIDE DEF k
    <2>5. q[o[1] + k] = [msg |-> p[1], part |-> k]
      BY ONLY <1>7, <2>0, <2>3, <2>4
    <2>6. QED
      BY ONLY <1>4, <2>4, <2>5 DEF k
  <1>13. Offsets(p, O, e, tk, left - 1)
    <2>1. O[1] = (left - 1) - e[p[1]]
      <3>0. 1 \in 1 .. Len(p) /\ O[1] = o[1] - 1
        BY ONLY <1>2, <1>9, <1>11
      <3>1. e[p[1]] \in Nat
        BY ONLY <1>8, <3>0
      <3> DEFINE b == e[p[1]]
      <3>2. O[1] = (left - b) - 1 /\ left \in Nat /\ b \in Nat
        BY ONLY <1>1, <1>6, <3>0, <3>1
      <3> HIDE DEF b
      <3>3. O[1] = (left - 1) - b
        BY ONLY <3>2
      <3>4. QED
        BY ONLY <3>3 DEF b
    <2>2. ASSUME NEW j \in 1 .. Len(p)
          PROVE  O[j + 1] = O[j] + e[p[j]]
      <3>1. j \in Nat /\ j + 1 \in Nat
        BY ONLY <1>2
      <3>2. /\ O[j + 1] = o[j + 1] - 1 /\ O[j] = o[j] - 1 /\ o[j] \in Int /\ e[p[j]] \in Nat
            /\ o[j + 1] = o[j] + e[p[j]]
        BY ONLY <1>6, <1>8, <1>9, <3>1
      <3> DEFINE a == o[j]
                 b == e[p[j]]
      <3>3. O[j + 1] = (a + b) - 1 /\ O[j] = a - 1 /\ a \in Int /\ b \in Nat
        BY ONLY <3>2
      <3> HIDE DEF a, b
      <3>4. O[j + 1] = O[j] + b
        BY ONLY <3>3
      <3>5. QED
        BY ONLY <3>4 DEF b
    <2>3. ASSUME NEW i \in 1 .. Len(p) + 1, NEW j \in 1 .. Len(p) + 1, i <= j
          PROVE  O[i] <= O[j]
      <3>1. i \in Nat /\ j \in Nat
        BY ONLY <1>2
      <3>2. o[i] <= o[j]
        BY ONLY <1>6, <2>3
      <3>3. o[i] \in Int /\ O[i] = o[i] - 1 /\ o[j] \in Int /\ O[j] = o[j] - 1
        BY ONLY <1>9, <3>1
      <3>4. QED
        BY ONLY <3>2, <3>3
    <2>4. QED
      BY ONLY <2>1, <2>2, <2>3, tk = 1 DEF Offsets
  <1>14. Queued(p, O, e, n, h, d, Q)
    <2>1. Len(Q) = O[n + 1] + d
      <3>1. O[n + 1] = o[n + 1] - 1 /\ o[n + 1] \in Int
        <4>1. n + 1 \in Nat
          BY ONLY <1>2
        <4>2. QED
          BY ONLY <1>9, <4>1
      <3> DEFINE a == o[n + 1]
      <3>2. O[n + 1] = a - 1 /\ a \in Int /\ d \in Nat /\ Len(q) = a + d /\ Len(Q) = Len(q) - 1
        BY ONLY <1>1, <1>4, <1>7, <3>1
      <3> HIDE DEF a
      <3>3. QED
        BY ONLY <3>2
    <2>2. ASSUME NEW j \in 1 .. Len(p), NEW k \in 1 .. e[p[j]], O[j] + k \in 1 .. Len(q) - 1
          PROVE  Q[O[j] + k] = [msg |-> p[j], part |-> k]
      <3>1. j \in Nat /\ e[p[j]] \in Nat
        BY ONLY <1>2, <1>8
      <3>2. O[j] = o[j] - 1 /\ o[j] \in Int /\ k \in Nat
        BY ONLY <1>9, <3>1
      <3> DEFINE i == O[j] + k
      <3>3. i \in 1 .. Len(q) - 1 /\ i + 1 = o[j] + k /\ o[j] + k \in 1 .. Len(q)
        <4> DEFINE a == o[j]
        <4>1. O[j] = a - 1 /\ a \in Int /\ k \in Nat /\ (a - 1) + k \in 1 .. Len(q) - 1
          BY ONLY <2>2, <3>2
        <4>2. i = (a - 1) + k
          BY ONLY <4>1
        <4> HIDE DEF a, i
        <4>3. i \in 1 .. Len(q) - 1 /\ i + 1 = a + k /\ a + k \in 1 .. Len(q)
          BY ONLY <1>2, <4>1, <4>2
        <4>4. QED
          BY ONLY <4>3 DEF a
      <3>4. Q[i] = q[i + 1]
        BY ONLY <1>4, <3>3
      <3>5. q[o[j] + k] = [msg |-> p[j], part |-> k]
        BY ONLY <1>7, <3>3
      <3>6. QED
        BY ONLY <3>3, <3>4, <3>5
    <2>3. h = 0 => d = 0
      BY ONLY <1>1 DEF Queued
    <2>4. QED
      BY ONLY <1>4, <2>1, <2>2, <2>3 DEF Queued
  <1>15. Typed(p, O, e, tk, left - 1, bq, h, m, count, d, cq, Q)
    <2>1. left - 1 \in Nat
      BY ONLY <1>1, left > 0
    <2>2. QED
      BY ONLY <1>1, <1>4, <1>10, <2>1 DEF Typed
  <1>16. Lane(p, O, e, tk, left - 1, bq, h, m, count, d, cq, Q)
    <2>1. Placed(p, e, tk, bq, h, m, count, d, cq)
      BY ONLY <1>1
    <2>2. QED
      BY ONLY <1>13, <1>14, <1>15, <2>1 DEF Lane, n
  <1>17. QED
    BY ONLY <1>11, <1>12, <1>16, l = left - 1, part = e[p[1]] - left + 1 DEF Q

(* It is done with the message. *)
LEMMA LaneDrop ==
  ASSUME NEW p, NEW o, NEW e, NEW tk, NEW left, NEW bq, NEW h, NEW m, NEW count, NEW d,
         NEW cq, NEW q, NEW l, l \in Nat,
         Lane(p, o, e, tk, left, bq, h, m, count, d, cq, q), tk = 1, left = 0
  PROVE  /\ Lane(Tail(p), [j \in Nat |-> o[j + 1]], e, 0, l, bq, h, m, count, d, cq, q)
         /\ Len(p) > 0
  <1> DEFINE n == tk + Len(cq)
             c == Len(cq)
             P == Tail(p)
             O == [j \in Nat |-> o[j + 1]]
  <1>1. /\ p \in Seq(Nat) /\ o \in [Nat -> Int] /\ e \in Amounts
        /\ tk \in {0, 1} /\ left \in Nat /\ bq \in Seq(Nat) /\ h \in {0, 1} /\ m \in Nat
        /\ count \in Nat /\ d \in Nat /\ cq \in Seq(Nat) /\ q \in Seq(Item)
        /\ Placed(p, e, tk, bq, h, m, count, d, cq) /\ Offsets(p, o, e, tk, left)
        /\ Queued(p, o, e, n, h, d, q)
    BY LaneParts
  <1>2. Len(p) \in Nat /\ Len(bq) \in Nat /\ n \in Nat /\ Len(q) \in Nat /\ c \in Nat
    BY LaneTypes
  <1>3. n = 1 + c /\ h \in {0, 1}
    BY ONLY <1>1, tk = 1
  <1>5. /\ Len(p) = n + h + Len(bq)
        /\ \A j \in 1 .. c : cq[j] = e[p[1 + j]]
        /\ \A j \in 1 .. Len(bq) : bq[j] = p[n + h + j]
        /\ h = 1 => m = p[n + 1] /\ count = e[p[n + 1]] /\ d <= count
    BY ONLY <1>1, tk = 1 DEF Placed
  <1>6. /\ o[1] = left - e[p[1]]
        /\ \A j \in 1 .. Len(p) : o[j + 1] = o[j] + e[p[j]]
        /\ \A i, j \in 1 .. Len(p) + 1 : i <= j => o[i] <= o[j]
    BY ONLY <1>1, tk = 1 DEF Offsets
  <1>7. /\ Len(q) = o[n + 1] + d
        /\ \A j \in 1 .. Len(p) : \A k \in 1 .. e[p[j]] :
             o[j] + k \in 1 .. Len(q) => q[o[j] + k] = [msg |-> p[j], part |-> k]
    BY ONLY <1>1 DEF Queued
  <1>8. \A j \in 1 .. Len(p) : e[p[j]] \in Nat
    BY LaneTypes DEF Points
  <1>9. ASSUME NEW j \in Nat
        PROVE  O[j] = o[j + 1] /\ o[j + 1] \in Int
    BY ONLY <1>1
  <1>10. O \in [Nat -> Int]
    BY ONLY <1>9
  <1> HIDE DEF n, O, c
  <1>11. Len(p) > 0
    BY ONLY <1>2, <1>3, <1>5
  <1>12. /\ P \in Seq(Nat) /\ Len(P) = Len(p) - 1
         /\ \A j \in 1 .. Len(p) - 1 : P[j] = p[j + 1]
    <2>1. p # << >>
      BY ONLY <1>11
    <2>2. QED
      BY ONLY <1>1, <2>1, TailFacts
  <1> HIDE DEF P
  <1>13. Placed(P, e, 0, bq, h, m, count, d, cq)
    <2>1. Len(P) = (0 + c) + h + Len(bq) /\ 0 + c = c
      BY ONLY <1>2, <1>3, <1>5, <1>12
    <2>2. ASSUME NEW j \in 1 .. c
          PROVE  cq[j] = e[P[0 + j]]
      <3>1. j \in 1 .. Len(p) - 1 /\ 0 + j = j /\ j + 1 = 1 + j
        BY ONLY <1>2, <1>3, <1>5
      <3>2. P[j] = p[1 + j]
        BY ONLY <1>12, <3>1
      <3>3. QED
        BY ONLY <1>5, <3>1, <3>2
    <2>3. ASSUME h = 1
          PROVE  m = P[(0 + c) + 1] /\ count = e[P[(0 + c) + 1]] /\ d <= count
      <3>1. c + 1 \in 1 .. Len(p) - 1 /\ (c + 1) + 1 = n + 1 /\ (0 + c) + 1 = c + 1
        BY ONLY <1>2, <1>3, <1>5, <2>3
      <3>2. P[c + 1] = p[n + 1]
        BY ONLY <1>12, <3>1
      <3>3. QED
        BY ONLY <1>5, <2>3, <3>1, <3>2
    <2>4. ASSUME NEW j \in 1 .. Len(bq)
          PROVE  bq[j] = P[(0 + c) + h + j]
      <3>1. /\ c + h + j \in 1 .. Len(p) - 1 /\ (c + h + j) + 1 = n + h + j
            /\ (0 + c) + h + j = c + h + j
        <4>1. Len(p) = n + h + Len(bq)
          BY ONLY <1>5
        <4>2. QED
          BY ONLY <1>2, <1>3, <4>1
      <3>2. P[c + h + j] = p[n + h + j]
        BY ONLY <1>12, <3>1
      <3>3. QED
        BY ONLY <1>5, <3>1, <3>2
    <2>5. QED
      BY ONLY <2>1, <2>2, <2>3, <2>4 DEF Placed, c
  <1>14. Offsets(P, O, e, 0, l)
    <2>1. O[1] = 0
      <3>0. 1 \in 1 .. Len(p) /\ O[1] = o[1 + 1]
        BY ONLY <1>2, <1>9, <1>11
      <3>1. e[p[1]] \in Nat /\ o[1 + 1] = o[1] + e[p[1]]
        BY ONLY <1>6, <1>8, <3>0
      <3> DEFINE b == e[p[1]]
                 a == o[1]
      <3>2. O[1] = a + b /\ a = 0 - b /\ b \in Nat
        BY ONLY <1>6, <3>0, <3>1, left = 0
      <3> HIDE DEF a, b
      <3>3. QED
        BY ONLY <3>2
    <2>2. ASSUME NEW j \in 1 .. Len(p) - 1
          PROVE  O[j + 1] = O[j] + e[P[j]]
      <3>1. j \in Nat /\ j + 1 \in Nat /\ j + 1 \in 1 .. Len(p)
        BY ONLY <1>2
      <3>2. o[j + 1 + 1] = o[j + 1] + e[p[j + 1]]
        BY ONLY <1>6, <3>1
      <3>3. O[j + 1] = o[j + 1 + 1] /\ O[j] = o[j + 1]
        BY ONLY <1>9, <3>1
      <3>4. QED
        BY ONLY <1>12, <3>2, <3>3
    <2>3. ASSUME NEW i \in 1 .. Len(p), NEW j \in 1 .. Len(p), i <= j
          PROVE  O[i] <= O[j]
      <3>1. /\ i \in Nat /\ j \in Nat /\ i + 1 <= j + 1
            /\ i + 1 \in 1 .. Len(p) + 1 /\ j + 1 \in 1 .. Len(p) + 1
        BY ONLY <1>2, <2>3
      <3>2. O[i] = o[i + 1] /\ O[j] = o[j + 1]
        BY ONLY <1>9, <3>1
      <3>3. QED
        BY ONLY <1>6, <3>1, <3>2
    <2>4. Len(P) + 1 = Len(p)
      BY ONLY <1>2, <1>12
    <2>5. QED
      BY ONLY <1>12, <2>1, <2>2, <2>3, <2>4 DEF Offsets
  <1>15. Queued(P, O, e, 0 + c, h, d, q)
    <2>1. Len(q) = O[(0 + c) + 1] + d
      <3>1. (0 + c) + 1 \in Nat /\ ((0 + c) + 1) + 1 = n + 1
        BY ONLY <1>2, <1>3
      <3>2. O[(0 + c) + 1] = o[n + 1]
        BY ONLY <1>9, <3>1
      <3>3. QED
        BY ONLY <1>7, <3>2
    <2>2. ASSUME NEW j \in 1 .. Len(p) - 1, NEW k \in 1 .. e[P[j]], O[j] + k \in 1 .. Len(q)
          PROVE  q[O[j] + k] = [msg |-> P[j], part |-> k]
      <3>1. j \in Nat /\ j + 1 \in 1 .. Len(p)
        BY ONLY <1>2
      <3>2. O[j] = o[j + 1] /\ P[j] = p[j + 1]
        BY ONLY <1>9, <1>12, <3>1
      <3>3. k \in 1 .. e[p[j + 1]] /\ o[j + 1] + k \in 1 .. Len(q)
        BY ONLY <2>2, <3>2
      <3>4. q[o[j + 1] + k] = [msg |-> p[j + 1], part |-> k]
        BY ONLY <1>7, <3>1, <3>3
      <3>5. QED
        BY ONLY <3>2, <3>4
    <2>3. h = 0 => d = 0
      BY ONLY <1>1 DEF Queued
    <2>4. QED
      BY ONLY <1>12, <2>1, <2>2, <2>3 DEF Queued
  <1>16. Typed(P, O, e, 0, l, bq, h, m, count, d, cq, q)
    BY ONLY <1>1, <1>10, <1>12, l \in Nat DEF Typed
  <1>17. Lane(P, O, e, 0, l, bq, h, m, count, d, cq, q)
    BY ONLY <1>13, <1>14, <1>15, <1>16 DEF Lane, c
  <1>18. QED
    BY ONLY <1>11, <1>17 DEF O, P

(* A longer binlog. *)
LEMMA LaneLog ==
  ASSUME NEW p, NEW o, NEW e, NEW tk, NEW left, NEW bq, NEW h, NEW m, NEW count, NEW d,
         NEW cq, NEW q, NEW f, f \in Amounts,
         Lane(p, o, e, tk, left, bq, h, m, count, d, cq, q),
         \A j \in 1 .. Len(p) : f[p[j]] = e[p[j]]
  PROVE  Lane(p, o, f, tk, left, bq, h, m, count, d, cq, q)
  <1> DEFINE n == tk + Len(cq)
  <1>1. /\ p \in Seq(Nat) /\ o \in [Nat -> Int] /\ e \in Amounts
        /\ tk \in {0, 1} /\ left \in Nat /\ bq \in Seq(Nat) /\ h \in {0, 1} /\ m \in Nat
        /\ count \in Nat /\ d \in Nat /\ cq \in Seq(Nat) /\ q \in Seq(Item)
        /\ Placed(p, e, tk, bq, h, m, count, d, cq) /\ Offsets(p, o, e, tk, left)
        /\ Queued(p, o, e, n, h, d, q)
    BY LaneParts
  <1>2. /\ Len(p) \in Nat /\ Len(bq) \in Nat /\ n \in Nat /\ Len(q) \in Nat /\ Len(cq) \in Nat
        /\ n = tk + Len(cq)
    BY LaneTypes
  <1>3. h \in {0, 1} /\ tk \in {0, 1}
    BY ONLY <1>1
  <1>4. \A j \in 1 .. Len(p) : f[p[j]] = e[p[j]]
    OBVIOUS
  <1>5. /\ Len(p) = n + h + Len(bq)
        /\ \A j \in 1 .. Len(cq) : cq[j] = e[p[tk + j]]
        /\ \A j \in 1 .. Len(bq) : bq[j] = p[n + h + j]
        /\ h = 1 => m = p[n + 1] /\ count = e[p[n + 1]] /\ d <= count
    BY ONLY <1>1 DEF Placed
  <1> HIDE DEF n
  <1>6. Placed(p, f, tk, bq, h, m, count, d, cq)
    <2>1. ASSUME NEW j \in 1 .. Len(cq)
          PROVE  cq[j] = f[p[tk + j]]
      <3>1. tk + j \in 1 .. Len(p)
        BY ONLY <1>2, <1>3, <1>5
      <3>2. QED
        BY ONLY <1>4, <1>5, <3>1
    <2>2. ASSUME h = 1
          PROVE  m = p[n + 1] /\ count = f[p[n + 1]] /\ d <= count
      <3>1. n + 1 \in 1 .. Len(p)
        BY ONLY <1>2, <1>5, <2>2
      <3>2. QED
        BY ONLY <1>4, <1>5, <2>2, <3>1
    <2>3. QED
      BY ONLY <1>5, <2>1, <2>2 DEF Placed, n
  <1>7. Offsets(p, o, f, tk, left)
    <2>1. /\ o[1] = IF tk = 1 THEN left - e[p[1]] ELSE 0
          /\ \A j \in 1 .. Len(p) : o[j + 1] = o[j] + e[p[j]]
          /\ \A i, j \in 1 .. Len(p) + 1 : i <= j => o[i] <= o[j]
      BY ONLY <1>1 DEF Offsets
    <2>2. tk = 1 => f[p[1]] = e[p[1]]
      <3>1. tk = 1 => 1 \in 1 .. Len(p)
        BY ONLY <1>2, <1>3, <1>5
      <3>2. QED
        BY ONLY <1>4, <3>1
    <2>3. \A j \in 1 .. Len(p) : o[j + 1] = o[j] + f[p[j]]
      BY ONLY <1>4, <2>1
    <2>4. QED
      BY ONLY <2>1, <2>2, <2>3 DEF Offsets
  <1>8. Queued(p, o, f, n, h, d, q)
    <2>1. /\ h = 0 => d = 0
          /\ Len(q) = o[n + 1] + d
          /\ \A j \in 1 .. Len(p) : \A k \in 1 .. e[p[j]] :
               o[j] + k \in 1 .. Len(q) => q[o[j] + k] = [msg |-> p[j], part |-> k]
      BY ONLY <1>1 DEF Queued
    <2>2. QED
      BY ONLY <1>4, <2>1 DEF Queued
  <1>9. Typed(p, o, f, tk, left, bq, h, m, count, d, cq, q)
    BY ONLY <1>1, f \in Amounts DEF Typed
  <1>10. QED
    BY ONLY <1>6, <1>7, <1>8, <1>9 DEF Lane, n

(* An idle thread with nothing to do. *)
LEMMA LaneEmpty ==
  ASSUME NEW e, e \in Amounts, NEW left, left \in Nat
  PROVE  Lane(<< >>, [j \in Nat |-> 0], e, 0, left, << >>, 0, 0, 0, 0, << >>, << >>)
  <1> DEFINE O == [j \in Nat |-> 0]
  <1>1. O \in [Nat -> Int] /\ O[1] = 0 /\ O[0 + 0 + 1] = 0
    OBVIOUS
  <1>2. << >> \in Seq(Nat) /\ << >> \in Seq(Item) /\ Len(<< >>) = 0
    OBVIOUS
  <1>3. 1 .. 0 = {} /\ 1 .. 0 + 1 = {1}
    OBVIOUS
  <1> HIDE DEF O
  <1>4. Typed(<< >>, O, e, 0, left, << >>, 0, 0, 0, 0, << >>, << >>)
    BY <1>1, <1>2 DEF Typed
  <1>5. Placed(<< >>, e, 0, << >>, 0, 0, 0, 0, << >>)
    BY <1>2, <1>3 DEF Placed
  <1>6. Offsets(<< >>, O, e, 0, left)
    BY <1>1, <1>2, <1>3 DEF Offsets
  <1>7. Queued(<< >>, O, e, 0 + Len(<< >>), 0, 0, << >>)
    BY <1>1, <1>2, <1>3 DEF Queued
  <1>8. QED
    BY <1>4, <1>5, <1>6, <1>7 DEF Lane, O

-----------------------------------------------------------------------------
(* Every step keeps the pipeline. *)

LEMMA StateTypes ==
  ASSUME Types
  PROVE  /\ step2.idx \in Threads /\ step2.left \in Nat /\ step2.msg \in Nat
         /\ main.idx \in Threads /\ main.next \in Nat \ {0}
         /\ Entries \in Amounts
         /\ \A t \in Threads :
              /\ binlogQ[t] \in Seq(Nat) /\ entryQ[t] \in Seq(Item) /\ countQ[t] \in Seq(Nat)
              /\ step1[t].pc \in {"pop", "push"} /\ step1[t].msg \in Nat
              /\ step1[t].todo \in Nat /\ step1[t].count \in Nat
              /\ step1[t].count - step1[t].todo \in Nat
  <1>1. step2 \in Step2Type
    BY DEF Types
  <1>2. step2.idx \in Threads /\ step2.left \in Nat /\ step2.msg \in Nat
    BY <1>1 DEF Step2Type
  <1>3. main.idx \in Threads /\ main.next \in Nat \ {0}
    BY DEF Types
  <1>4. Entries \in Amounts
    <2>1. ASSUME NEW m \in DOMAIN binlog PROVE Len(binlog[m].ents) \in Nat
      <3>1. binlog[m] \in MessageType
        BY DEF Types
      <3>2. QED
        BY <3>1 DEF MessageType
    <2>2. QED
      BY <2>1 DEF Entries, Amounts
  <1>5. ASSUME NEW t \in Threads
        PROVE  /\ binlogQ[t] \in Seq(Nat) /\ entryQ[t] \in Seq(Item) /\ countQ[t] \in Seq(Nat)
               /\ step1[t].pc \in {"pop", "push"} /\ step1[t].msg \in Nat
               /\ step1[t].todo \in Nat /\ step1[t].count \in Nat
               /\ step1[t].count - step1[t].todo \in Nat
    <2>1. /\ binlogQ[t] \in Seq(Nat) /\ entryQ[t] \in Seq(Item) /\ countQ[t] \in Seq(Nat)
          /\ step1[t] \in Step1Type /\ step1[t].todo <= step1[t].count
      BY DEF Types
    <2>2. /\ step1[t].pc \in {"pop", "push"} /\ step1[t].msg \in Nat
          /\ step1[t].todo \in Nat /\ step1[t].count \in Nat
      BY <2>1 DEF Step1Type
    <2>3. QED
      BY ONLY <2>1, <2>2
  <1>6. QED
    BY <1>2, <1>3, <1>4, <1>5

LEMMA BusyFacts ==
  ASSUME Types
  PROVE  /\ ~Busy => step2.left = 0 /\ step2.msg = 0
         /\ \A t \in Threads : Taken(t) \in {0, 1} /\ Hand(t) \in {0, 1}
         /\ \A t \in Threads : t # step2.idx => Taken(t) = 0
         /\ Taken(step2.idx) = IF Busy THEN 1 ELSE 0
  BY StateTypes DEF Busy, Taken, Hand

(* What a step leaves alone of a lane. *)
LEMMA ThreadFrame ==
  ASSUME NEW t \in Threads, NEW p, NEW o, ThreadSound(t, p, o),
         Entries' = Entries, Taken(t)' = Taken(t), step2'.left \in Nat,
         Taken(t) = 0 \/ step2'.left = step2.left,
         binlogQ'[t] = binlogQ[t], step1'[t] = step1[t], countQ'[t] = countQ[t],
         entryQ'[t] = entryQ[t]
  PROVE  ThreadSound(t, p, o)'
  <1>1. Hand(t)' = Hand(t)
    BY DEF Hand
  <1>2. Lane(p, o, Entries, Taken(t), step2.left, binlogQ[t], Hand(t), step1[t].msg,
             step1[t].count, step1[t].count - step1[t].todo, countQ[t], entryQ[t])
    BY DEF ThreadSound
  <1>3. Lane(p, o, Entries, Taken(t), step2'.left, binlogQ[t], Hand(t), step1[t].msg,
             step1[t].count, step1[t].count - step1[t].todo, countQ[t], entryQ[t])
    BY <1>2, LaneLeft
  <1>4. QED
    BY <1>1, <1>3 DEF ThreadSound

LEMMA StepDeal ==
  ASSUME Types, NEW pipe, NEW off, NEW nx, Pipeline(pipe, off, nx),
         NEW m \in Nat,
         binlogQ' = [binlogQ EXCEPT ![main.idx] = Append(@, m)],
         main' = [next |-> main.next + (IF m = NO_MESSAGE THEN 0 ELSE 1),
                  idx |-> NextThread(main.idx)],
         m # NO_MESSAGE => m = main.next /\ m <= Len(binlog),
         UNCHANGED <<binlog, entryQ, countQ, step1, step2>>
  PROVE  \E pipe1, off1 : Pipeline(pipe1, off1, nx)'
  <1>a. PICK c : c = main.idx
    OBVIOUS
  <1>b. PICK y : y = [off[c] EXCEPT ![Len(pipe[c]) + 2] = off[c][Len(pipe[c]) + 1] + Entries[m]]
    OBVIOUS
  <1>c. PICK pipe1 : pipe1 = [pipe EXCEPT ![c] = Append(pipe[c], m)]
    OBVIOUS
  <1>d. PICK off1 : off1 = [off EXCEPT ![c] = y]
    OBVIOUS
  <1>1. /\ c \in Threads /\ step2.idx \in Threads /\ main.next \in Nat \ {0}
        /\ step2.left \in Nat
    BY <1>a, StateTypes
  <1>2. /\ pipe \in [Threads -> Seq(Nat)] /\ off \in [Threads -> [Nat -> Int]]
        /\ nx \in 1 .. main.next /\ main.next <= Len(binlog) + 1
        /\ Order(pipe, step2.idx, main.idx, nx, main.next)
        /\ \A t \in Threads : ThreadSound(t, pipe[t], off[t])
        /\ AtWork(pipe, nx)
    BY DEF Pipeline
  <1>3. Entries' = Entries /\ \A t \in Threads : Taken(t)' = Taken(t) /\ Hand(t)' = Hand(t)
    BY DEF Entries, Taken, Hand, Busy
  <1>4. ThreadSound(c, pipe1[c], off1[c])'
    <2>1. Lane(pipe[c], off[c], Entries, Taken(c), step2.left, binlogQ[c], Hand(c), step1[c].msg,
               step1[c].count, step1[c].count - step1[c].todo, countQ[c], entryQ[c])
      BY <1>1, <1>2 DEF ThreadSound
    <2>2. Lane(Append(pipe[c], m), y, Entries, Taken(c), step2.left, Append(binlogQ[c], m),
               Hand(c), step1[c].msg,
               step1[c].count, step1[c].count - step1[c].todo, countQ[c], entryQ[c])
      BY <1>b, <2>1, LaneDeal
    <2>3. binlogQ'[c] = Append(binlogQ[c], m)
      BY <1>a, <1>1 DEF Types
    <2>4. pipe1[c] = Append(pipe[c], m) /\ off1[c] = y
      BY <1>c, <1>d, <1>1, <1>2
    <2>5. QED
      BY <1>1, <1>3, <2>2, <2>3, <2>4 DEF ThreadSound
  <1>5. y \in [Nat -> Int] /\ Append(pipe[c], m) \in Seq(Nat)
    <2>1. off1[c] = y /\ pipe1[c] = Append(pipe[c], m)
      BY <1>c, <1>d, <1>1, <1>2
    <2>2. QED
      BY <1>4, <2>1 DEF ThreadSound, Lane, Typed
  <1>6. pipe1 \in [Threads -> Seq(Nat)] /\ off1 \in [Threads -> [Nat -> Int]]
    BY ONLY <1>c, <1>d, <1>1, <1>2, <1>5
  <1>7. ASSUME NEW t \in Threads
        PROVE  ThreadSound(t, pipe1[t], off1[t])'
    <2>1. CASE t = c
      BY <1>4, <2>1
    <2>2. CASE t # c
      <3>1. binlogQ'[t] = binlogQ[t] /\ pipe1[t] = pipe[t] /\ off1[t] = off[t]
        BY <1>a, <1>c, <1>d, <1>2, <2>2 DEF Types
      <3>2. ThreadSound(t, pipe[t], off[t])
        BY <1>2
      <3>3. QED
        BY <1>1, <1>3, <3>1, <3>2, ThreadFrame
    <2>3. QED
      BY <2>1, <2>2
  <1>8. /\ main'.next \in Nat /\ main'.idx = NextThread(c) /\ nx \in Nat \ {0} /\ nx <= main.next
        /\ nx \in 1 .. main'.next /\ main'.next <= Len(binlog) + 1
        /\ \/ m = NO_MESSAGE /\ main'.next = main.next
           \/ m = main.next /\ main'.next = main.next + 1
    <2>1. Len(binlog) \in Nat
      BY DEF Types
    <2>2. /\ main'.next = main.next + (IF m = NO_MESSAGE THEN 0 ELSE 1)
          /\ main'.idx = NextThread(c)
      BY <1>a
    <2>3. m # NO_MESSAGE => m = main.next /\ m <= Len(binlog)
      OBVIOUS
    <2>4. PICK hi, hi1, l : hi = main.next /\ hi1 = main'.next /\ l = Len(binlog)
      OBVIOUS
    <2>5. /\ hi \in Nat \ {0} /\ l \in Nat /\ nx \in 1 .. hi /\ hi <= l + 1
          /\ hi1 = hi + (IF m = NO_MESSAGE THEN 0 ELSE 1)
          /\ m # NO_MESSAGE => m = hi /\ m <= l
      BY ONLY <1>1, <1>2, <2>1, <2>2, <2>3, <2>4
    <2>6. /\ hi1 \in Nat /\ nx \in Nat \ {0} /\ nx <= hi
          /\ nx \in 1 .. hi1 /\ hi1 <= l + 1
          /\ (m = NO_MESSAGE /\ hi1 = hi) \/ (m = hi /\ hi1 = hi + 1)
      BY ONLY <2>5
    <2>7. QED
      BY ONLY <2>2, <2>4, <2>6
  <1>9. Order(pipe1, step2.idx, main'.idx, nx, main'.next)
    <2>1. nx <= main.next /\ Order(pipe, step2.idx, c, nx, main.next)
      BY <1>a, <1>2, <1>8
    <2>2. PICK hi, hi1, i : hi = main.next /\ hi1 = main'.next /\ i = step2.idx
      OBVIOUS
    <2>3. /\ pipe \in [Threads -> Seq(Nat)] /\ i \in Threads /\ c \in Threads
          /\ nx \in Nat \ {0} /\ hi \in Nat /\ hi1 \in Nat /\ m \in Nat
          /\ pipe1 \in [Threads -> Seq(Nat)] /\ nx <= hi /\ Order(pipe, i, c, nx, hi)
      BY ONLY <1>1, <1>2, <1>6, <1>8, <2>1, <2>2, m \in Nat
    <2>4. (m = NO_MESSAGE /\ hi1 = hi) \/ (m = hi /\ hi1 = hi + 1)
      BY ONLY <1>8, <2>2
    <2>5. Order(pipe1, i, NextThread(c), nx, hi1)
      BY ONLY <1>c, <2>3, <2>4, OrderDeal
    <2>6. QED
      BY ONLY <1>8, <2>2, <2>5
  <1>10. AtWork(pipe1, nx)'
    <2>1. Busy' = Busy
      BY DEF Busy
    <2>2. ASSUME Busy
          PROVE  /\ Len(pipe1[step2.idx]) > 0 /\ pipe1[step2.idx][1] = nx
                 /\ step2.left <= Entries[nx]
                 /\ step2.msg = IF step2.left = Entries[nx] THEN 0 ELSE nx
      <3>1. /\ Len(pipe[step2.idx]) > 0 /\ pipe[step2.idx][1] = nx
            /\ step2.left <= Entries[nx]
            /\ step2.msg = IF step2.left = Entries[nx] THEN 0 ELSE nx
        BY <1>2, <2>2 DEF AtWork
      <3>2. CASE step2.idx = c
        <4>1. pipe1[c] = Append(pipe[c], m) /\ pipe[c] \in Seq(Nat)
          BY <1>c, <1>1, <1>2
        <4>2. Len(pipe1[c]) > 0 /\ pipe1[c][1] = pipe[c][1]
          BY <3>1, <3>2, <4>1, AppendFacts
        <4>3. QED
          BY <3>1, <3>2, <4>2
      <3>3. CASE step2.idx # c
        BY <1>c, <1>1, <1>2, <3>1, <3>3
      <3>4. QED
        BY <3>2, <3>3
    <2>3. QED
      BY <1>3, <2>1, <2>2 DEF AtWork
  <1>11. Pipeline(pipe1, off1, nx)'
    BY <1>6, <1>7, <1>8, <1>9, <1>10 DEF Pipeline
  <1>12. QED
    BY <1>11

(* A step of a parser thread. *)
LEMMA StepThread ==
  ASSUME Types, NEW pipe, NEW off, NEW nx, Pipeline(pipe, off, nx), NEW t \in Threads,
         \A u \in Threads \ {t} :
           /\ binlogQ'[u] = binlogQ[u] /\ step1'[u] = step1[u] /\ countQ'[u] = countQ[u]
           /\ entryQ'[u] = entryQ[u],
         UNCHANGED <<binlog, main, step2>>,
         ThreadSound(t, pipe[t], off[t])'
  PROVE  Pipeline(pipe, off, nx)'
  <1>1. /\ pipe \in [Threads -> Seq(Nat)] /\ off \in [Threads -> [Nat -> Int]]
        /\ nx \in 1 .. main.next /\ main.next <= Len(binlog) + 1
        /\ Order(pipe, step2.idx, main.idx, nx, main.next)
        /\ \A u \in Threads : ThreadSound(u, pipe[u], off[u])
        /\ AtWork(pipe, nx)
    BY DEF Pipeline
  <1>2. /\ Entries' = Entries /\ \A u \in Threads : Taken(u)' = Taken(u)
        /\ step2'.left = step2.left /\ step2'.left \in Nat
    BY StateTypes DEF Entries, Taken, Busy
  <1>3. ASSUME NEW u \in Threads
        PROVE  ThreadSound(u, pipe[u], off[u])'
    <2>1. CASE u = t
      BY <2>1
    <2>2. CASE u # t
      <3>1. ThreadSound(u, pipe[u], off[u])
        BY <1>1
      <3>2. /\ binlogQ'[u] = binlogQ[u] /\ step1'[u] = step1[u] /\ countQ'[u] = countQ[u]
            /\ entryQ'[u] = entryQ[u]
        BY <2>2
      <3>3. QED
        BY <1>2, <3>1, <3>2, ThreadFrame
    <2>3. QED
      BY <2>1, <2>2
  <1>4. AtWork(pipe, nx)'
    BY <1>1 DEF AtWork, Busy, Entries
  <1>5. QED
    BY <1>1, <1>3, <1>4 DEF Pipeline

LEMMA StepTake ==
  ASSUME Types, NEW pipe, NEW off, NEW nx, Pipeline(pipe, off, nx), NEW t \in Threads,
         TakeMessage(t)
  PROVE  Pipeline(pipe, off, nx)' /\ Types'
  <1> DEFINE x == Head(binlogQ[t])
             n == IF x = NO_MESSAGE THEN 0 ELSE Len(binlog[x].ents)
             s == [pc |-> "push", msg |-> x, todo |-> n, count |-> n]
  <1>1. /\ step1[t].pc = "pop" /\ binlogQ[t] # << >>
        /\ step1' = [step1 EXCEPT ![t] = s]
        /\ binlogQ' = [binlogQ EXCEPT ![t] = Tail(@)]
        /\ UNCHANGED <<binlog, unified, buffer, main, entryQ, countQ, timeouts, step2, crashes>>
    BY DEF TakeMessage
  <1>2. /\ pipe \in [Threads -> Seq(Nat)]
        /\ Order(pipe, step2.idx, main.idx, nx, main.next)
        /\ ThreadSound(t, pipe[t], off[t])
        /\ nx \in 1 .. main.next /\ main.next <= Len(binlog) + 1 /\ main.next \in Nat
        /\ Len(binlog) \in Nat
    <2>1. main.next \in Nat
      BY StateTypes
    <2>2. Len(binlog) \in Nat
      BY DEF Types
    <2>3. QED
      BY <2>1, <2>2 DEF Pipeline
  <1>3. Hand(t) = 0
    BY <1>1 DEF Hand
  <1>4. Lane(pipe[t], off[t], Entries, Taken(t), step2.left, binlogQ[t], 0, step1[t].msg,
             step1[t].count, step1[t].count - step1[t].todo, countQ[t], entryQ[t])
    BY <1>2, <1>3 DEF ThreadSound
  <1>5. Lane(pipe[t], off[t], Entries, Taken(t), step2.left, Tail(binlogQ[t]), 1, x,
             Entries[x], 0, countQ[t], entryQ[t])
    BY <1>1, <1>4, LaneTake
  <1>6. x \in Nat /\ Tail(binlogQ[t]) \in Seq(Nat)
    BY <1>1, StateTypes, TailFacts
  <1>7. n = Entries[x] /\ n \in Nat
    <2>1. x = NO_MESSAGE \/ x \in DOMAIN binlog
      <3>1. PICK j : j \in 1 .. Len(pipe[t]) /\ x = pipe[t][j]
        <4>1. /\ Len(pipe[t]) = Taken(t) + Len(countQ[t]) + 0 + Len(binlogQ[t])
              /\ \A j \in 1 .. Len(binlogQ[t]) :
                   binlogQ[t][j] = pipe[t][Taken(t) + Len(countQ[t]) + 0 + j]
          BY <1>4 DEF Lane, Placed
        <4>2. /\ Taken(t) \in Nat /\ Len(countQ[t]) \in Nat /\ Len(binlogQ[t]) \in Nat
              /\ Len(binlogQ[t]) > 0 /\ x = binlogQ[t][1] /\ Len(pipe[t]) \in Nat
          BY <1>1, <1>2, StateTypes, BusyFacts, SMTT(30)
        <4> DEFINE i == Taken(t) + Len(countQ[t]) + 0 + 1
        <4>3. i \in 1 .. Len(pipe[t]) /\ 1 \in 1 .. Len(binlogQ[t])
          BY ONLY <4>1, <4>2
        <4>4. x = pipe[t][i]
          BY ONLY <4>1, <4>2, <4>3
        <4>5. QED
          BY ONLY <4>3, <4>4
      <3>2. x = NO_MESSAGE \/ x \in nx .. main.next - 1
        BY <1>2, <3>1 DEF Order, Slots
      <3>3. DOMAIN binlog = 1 .. Len(binlog)
        BY DEF Types
      <3> HIDE DEF x
      <3>4. QED
        BY ONLY <1>2, <3>2, <3>3
    <2>2. DOMAIN binlog = 1 .. Len(binlog)
      BY DEF Types
    <2>3. NO_MESSAGE \notin DOMAIN binlog
      BY <2>2 DEF NO_MESSAGE
    <2> HIDE DEF x
    <2>4. n = Entries[x]
      BY <1>6, <2>1, <2>3 DEF Entries
    <2>5. QED
      BY <1>6, <2>4, StateTypes, AmountFacts
  <1> HIDE DEF x, n
  <1>8. step1'[t] = s /\ s \in Step1Type /\ s.todo = n /\ s.count = n /\ s.msg = x
        /\ s.pc = "push"
    <2>1. step1' = [step1 EXCEPT ![t] = s] /\ t \in DOMAIN step1
      BY <1>1 DEF Types
    <2>2. s \in Step1Type
      BY <1>6, <1>7 DEF Step1Type
    <2>3. QED
      BY ONLY <2>1, <2>2
  <1>9. ThreadSound(t, pipe[t], off[t])'
    <2>1. Entries' = Entries /\ Taken(t)' = Taken(t) /\ Hand(t)' = 1 /\ step2'.left = step2.left
      BY <1>1, <1>8 DEF Entries, Taken, Busy, Hand
    <2>2. binlogQ'[t] = Tail(binlogQ[t]) /\ countQ'[t] = countQ[t] /\ entryQ'[t] = entryQ[t]
      BY <1>1 DEF Types
    <2>3. step1'[t].msg = x /\ step1'[t].count = n /\ step1'[t].count - step1'[t].todo = 0
      BY <1>7, <1>8
    <2>4. QED
      BY <1>5, <1>7, <2>1, <2>2, <2>3 DEF ThreadSound
  <1>10. Pipeline(pipe, off, nx)'
    <2>1. \A u \in Threads \ {t} :
           /\ binlogQ'[u] = binlogQ[u] /\ step1'[u] = step1[u] /\ countQ'[u] = countQ[u]
           /\ entryQ'[u] = entryQ[u]
      BY <1>1 DEF Types
    <2>2. QED
      BY <1>1, <1>9, <2>1, StepThread
  <1>11. Types'
    <2>1. /\ binlogQ' \in [Threads -> Seq(Nat)] /\ step1' \in [Threads -> Step1Type]
      BY <1>1, <1>6, <1>8 DEF Types
    <2>2. \A u \in Threads : step1'[u].todo <= step1'[u].count
      <3>1. ASSUME NEW u \in Threads PROVE step1'[u].todo <= step1'[u].count
        <4>1. CASE u = t
          BY <1>7, <1>8, <4>1
        <4>2. CASE u # t
          BY <1>1, <4>2 DEF Types
        <4>3. QED
          BY <4>1, <4>2
      <3>2. QED
        BY <3>1
    <2>3. QED
      BY <1>1, <2>1, <2>2 DEF Types
  <1>12. QED
    BY <1>10, <1>11

LEMMA StepPush ==
  ASSUME Types, NEW pipe, NEW off, NEW nx, Pipeline(pipe, off, nx), NEW t \in Threads,
         PushEntry(t)
  PROVE  Pipeline(pipe, off, nx)' /\ Types'
  <1> DEFINE m == step1[t].msg
             a == step1[t].todo
             c == step1[t].count
             s == [step1[t] EXCEPT !.todo = a - 1]
             x == [msg |-> m, part |-> c - a + 1]
  <1>1. /\ step1[t].pc = "push" /\ a > 0
        /\ entryQ' = [entryQ EXCEPT ![t] = Append(@, x)]
        /\ step1' = [step1 EXCEPT ![t] = s]
        /\ UNCHANGED <<binlog, unified, buffer, main, binlogQ, countQ, timeouts, step2, crashes>>
    BY DEF PushEntry
  <1>2. /\ ThreadSound(t, pipe[t], off[t])
        /\ m \in Nat /\ a \in Nat /\ c \in Nat /\ a <= c /\ step1[t] \in Step1Type
        /\ step1 \in [Threads -> Step1Type] /\ entryQ \in [Threads -> Seq(Item)]
    <2>1. m \in Nat /\ a \in Nat /\ c \in Nat
      BY StateTypes
    <2>2. QED
      BY <2>1 DEF Pipeline, Types
  <1>3. Hand(t) = 1
    BY <1>1 DEF Hand
  <1>4. Lane(pipe[t], off[t], Entries, Taken(t), step2.left, binlogQ[t], 1, m,
             c, c - a, countQ[t], entryQ[t])
    BY <1>2, <1>3 DEF ThreadSound
  <1> HIDE DEF m, a, c
  <1>5. c - a < c /\ c - a + 1 \in Nat /\ a - 1 \in Nat /\ a - 1 <= c /\ c - (a - 1) = c - a + 1
    BY ONLY <1>1, <1>2
  <1>6. Lane(pipe[t], off[t], Entries, Taken(t), step2.left, binlogQ[t], 1, m,
             c, c - a + 1, countQ[t], Append(entryQ[t], x))
    BY <1>4, <1>5, LanePush
  <1>7. step1'[t] = s /\ s \in Step1Type /\ s.todo = a - 1 /\ s.count = c /\ s.msg = m
        /\ s.pc = "push"
    BY <1>1, <1>2, <1>5 DEF Step1Type, c, m
  <1>8. ThreadSound(t, pipe[t], off[t])'
    <2>1. Entries' = Entries /\ Taken(t)' = Taken(t) /\ Hand(t)' = 1 /\ step2'.left = step2.left
      BY <1>1, <1>7 DEF Entries, Taken, Busy, Hand
    <2>2. binlogQ'[t] = binlogQ[t] /\ countQ'[t] = countQ[t] /\ entryQ'[t] = Append(entryQ[t], x)
      BY <1>1, <1>2
    <2>3. step1'[t].msg = m /\ step1'[t].count = c /\ step1'[t].count - step1'[t].todo = c - a + 1
      BY <1>5, <1>7
    <2>4. QED
      BY <1>6, <2>1, <2>2, <2>3 DEF ThreadSound
  <1>9. Pipeline(pipe, off, nx)'
    <2>1. \A u \in Threads \ {t} :
           /\ binlogQ'[u] = binlogQ[u] /\ step1'[u] = step1[u] /\ countQ'[u] = countQ[u]
           /\ entryQ'[u] = entryQ[u]
      BY <1>1, <1>2
    <2>2. QED
      BY <1>1, <1>8, <2>1, StepThread
  <1>10. Types'
    <2>0. Append(entryQ[t], x) \in Seq(Item)
      <3>1. x \in Item
        BY <1>2, <1>5 DEF Item
      <3>2. QED
        BY <1>2, <3>1, AppendFacts
    <2>1. entryQ' \in [Threads -> Seq(Item)] /\ step1' \in [Threads -> Step1Type]
      BY <1>1, <1>2, <1>7, <2>0
    <2>2. \A u \in Threads : step1'[u].todo <= step1'[u].count
      <3>1. ASSUME NEW u \in Threads PROVE step1'[u].todo <= step1'[u].count
        <4>1. CASE u = t
          BY <1>5, <1>7, <4>1
        <4>2. CASE u # t
          BY <1>1, <4>2 DEF Types
        <4>3. QED
          BY <4>1, <4>2
      <3>2. QED
        BY <3>1
    <2>3. QED
      BY <1>1, <2>1, <2>2 DEF Types
  <1>11. QED
    BY <1>9, <1>10

LEMMA StepCount ==
  ASSUME Types, NEW pipe, NEW off, NEW nx, Pipeline(pipe, off, nx), NEW t \in Threads,
         PushCount(t)
  PROVE  Pipeline(pipe, off, nx)' /\ Types'
  <1> DEFINE c == step1[t].count
             d == step1[t].count - step1[t].todo
  <1>1. /\ step1[t].pc = "push" /\ step1[t].todo = 0
        /\ countQ' = [countQ EXCEPT ![t] = Append(@, c)]
        /\ step1' = [step1 EXCEPT ![t] = IdleStep1]
        /\ UNCHANGED <<binlog, unified, buffer, main, binlogQ, entryQ, timeouts, step2, crashes>>
    BY DEF PushCount
  <1>2. /\ ThreadSound(t, pipe[t], off[t]) /\ c \in Nat /\ d = c
        /\ step1 \in [Threads -> Step1Type] /\ countQ \in [Threads -> Seq(Nat)]
    <2>1. c \in Nat /\ d = c
      BY <1>1, StateTypes
    <2>2. QED
      BY <2>1 DEF Pipeline, Types
  <1>3. Hand(t) = 1
    BY <1>1 DEF Hand
  <1>4. Lane(pipe[t], off[t], Entries, Taken(t), step2.left, binlogQ[t], 1, step1[t].msg,
             c, d, countQ[t], entryQ[t])
    BY <1>2, <1>3 DEF ThreadSound
  <1> HIDE DEF c, d
  <1>5. Lane(pipe[t], off[t], Entries, Taken(t), step2.left, binlogQ[t], 0, 0, 0, 0,
             Append(countQ[t], c), entryQ[t])
    BY <1>2, <1>4, LaneCount
  <1>6. step1'[t] = IdleStep1 /\ IdleStep1 \in Step1Type
    BY <1>1, <1>2 DEF IdleStep1, Step1Type
  <1>7. ThreadSound(t, pipe[t], off[t])'
    <2>1. Entries' = Entries /\ Taken(t)' = Taken(t) /\ Hand(t)' = 0 /\ step2'.left = step2.left
      BY <1>1, <1>6 DEF Entries, Taken, Busy, Hand, IdleStep1
    <2>2. binlogQ'[t] = binlogQ[t] /\ entryQ'[t] = entryQ[t] /\ countQ'[t] = Append(countQ[t], c)
      BY <1>1, <1>2
    <2>3. step1'[t].msg = 0 /\ step1'[t].count = 0 /\ step1'[t].count - step1'[t].todo = 0
      BY <1>6 DEF IdleStep1
    <2>4. QED
      BY <1>5, <2>1, <2>2, <2>3 DEF ThreadSound
  <1>8. Pipeline(pipe, off, nx)'
    <2>1. \A u \in Threads \ {t} :
           /\ binlogQ'[u] = binlogQ[u] /\ step1'[u] = step1[u] /\ countQ'[u] = countQ[u]
           /\ entryQ'[u] = entryQ[u]
      BY <1>1, <1>2
    <2>2. QED
      BY <1>1, <1>7, <2>1, StepThread
  <1>9. Types'
    <2>0. Append(countQ[t], c) \in Seq(Nat)
      BY <1>2
    <2>1. countQ' \in [Threads -> Seq(Nat)] /\ step1' \in [Threads -> Step1Type]
      BY <1>1, <1>2, <1>6, <2>0
    <2>2. \A u \in Threads : step1'[u].todo <= step1'[u].count
      <3>1. ASSUME NEW u \in Threads PROVE step1'[u].todo <= step1'[u].count
        <4>1. CASE u = t
          BY <1>6, <4>1 DEF IdleStep1
        <4>2. CASE u # t
          BY <1>1, <4>2 DEF Types
        <4>3. QED
          BY <4>1, <4>2
      <3>2. QED
        BY <3>1
    <2>3. QED
      BY <1>1, <2>1, <2>2 DEF Types
  <1>10. QED
    BY <1>8, <1>9

LEMMA BinlogFacts ==
  ASSUME Types
  PROVE  /\ Len(binlog) \in Nat /\ DOMAIN binlog = 1 .. Len(binlog)
         /\ \A m \in DOMAIN binlog :
              /\ m \in Nat /\ binlog[m] \in MessageType /\ binlog[m].ents \in Seq(Entry)
              /\ Entries[m] = Len(binlog[m].ents) /\ Entries[m] \in Nat
              /\ DOMAIN binlog[m].ents = 1 .. Entries[m]
              /\ binlog[m].last \in BOOLEAN /\ binlog[m].tx \in Nat
         /\ \A m \in Nat \ DOMAIN binlog : Entries[m] = 0
  <1>1. Len(binlog) \in Nat /\ DOMAIN binlog = 1 .. Len(binlog) /\ binlog \in Seq(MessageType)
    BY DEF Types
  <1>2. ASSUME NEW m \in DOMAIN binlog
        PROVE  /\ m \in Nat /\ binlog[m] \in MessageType /\ binlog[m].ents \in Seq(Entry)
               /\ Entries[m] = Len(binlog[m].ents) /\ Entries[m] \in Nat
               /\ DOMAIN binlog[m].ents = 1 .. Entries[m]
               /\ binlog[m].last \in BOOLEAN /\ binlog[m].tx \in Nat
    <2>1. m \in Nat /\ binlog[m] \in MessageType
      BY ONLY <1>1
    <2>2. binlog[m].ents \in Seq(Entry) /\ binlog[m].last \in BOOLEAN /\ binlog[m].tx \in Nat
      BY ONLY <2>1 DEF MessageType
    <2>3. Entries[m] = Len(binlog[m].ents)
      BY ONLY <2>1, m \in DOMAIN binlog DEF Entries
    <2>4. Len(binlog[m].ents) \in Nat /\ DOMAIN binlog[m].ents = 1 .. Len(binlog[m].ents)
      BY ONLY <2>2
    <2>5. QED
      BY <2>1, <2>2, <2>3, <2>4
  <1>3. \A m \in Nat \ DOMAIN binlog : Entries[m] = 0
    BY ONLY TRUE DEF Entries
  <1>4. QED
    BY <1>1, <1>2, <1>3

(* The message at the head of the lane whose turn it is. *)
LEMMA HeadEntries ==
  ASSUME Types, NEW pipe, NEW off, NEW nx, Pipeline(pipe, off, nx),
         NEW c \in Threads, c = step2.idx, Len(pipe[c]) > 0, pipe[c][1] # NO_MESSAGE
  PROVE  pipe[c][1] = nx /\ nx \in DOMAIN binlog /\ nx < main.next
  <1>1. /\ pipe \in [Threads -> Seq(Nat)] /\ nx \in 1 .. main.next /\ main.next <= Len(binlog) + 1
        /\ Order(pipe, c, main.idx, nx, main.next)
    BY DEF Pipeline
  <1>2. main.next \in Nat /\ main.idx \in Threads
    BY StateTypes
  <1>3. PICK hi, d : hi = main.next /\ d = main.idx
    OBVIOUS
  <1>4. hi \in Nat /\ d \in Threads /\ nx \in Nat \ {0} /\ Order(pipe, c, d, nx, hi)
        /\ hi <= Len(binlog) + 1
    BY ONLY <1>1, <1>2, <1>3
  <1>5. pipe[c][1] = nx /\ nx < hi
    BY ONLY <1>1, <1>4, Len(pipe[c]) > 0, pipe[c][1] # NO_MESSAGE, c \in Threads, HeadIsNext
  <1>6. DOMAIN binlog = 1 .. Len(binlog) /\ Len(binlog) \in Nat
    BY BinlogFacts
  <1>7. QED
    BY ONLY <1>3, <1>4, <1>5, <1>6

(* The collecting thread is done with a message or a timeout m of thread c. *)
LaneDone(c, p, o) ==
  Lane(p, o, Entries, 1, 0, binlogQ[c], Hand(c), step1[c].msg, step1[c].count,
       step1[c].count - step1[c].todo, countQ'[c], entryQ[c])

DoneWith(c) ==
  /\ step2'.idx = NextThread(c) /\ step2'.left = 0 /\ step2'.msg = 0
  /\ UNCHANGED <<binlog, main, binlogQ, entryQ, step1>>
  /\ \A t \in Threads \ {c} : countQ'[t] = countQ[t]

Passed(m, nx, nx1) == nx1 = IF m = NO_MESSAGE THEN nx ELSE nx + 1

LEMMA StepCollect ==
  ASSUME Types, NEW pipe, NEW off, NEW nx, Pipeline(pipe, off, nx),
         NEW c \in Threads, c = step2.idx, NEW o1, LaneDone(c, pipe[c], o1), DoneWith(c)
  PROVE  \E pipe1, off1, nx1 : Pipeline(pipe1, off1, nx1)' /\ Passed(pipe[c][1], nx, nx1)
  <1>0. /\ Lane(pipe[c], o1, Entries, 1, 0, binlogQ[c], Hand(c), step1[c].msg, step1[c].count,
                step1[c].count - step1[c].todo, countQ'[c], entryQ[c])
        /\ UNCHANGED <<binlog, main, binlogQ, entryQ, step1>>
        /\ \A t \in Threads \ {c} : countQ'[t] = countQ[t]
        /\ step2'.idx = NextThread(c) /\ step2'.left = 0 /\ step2'.msg = 0
    BY DEF LaneDone, DoneWith
  <1>1. /\ pipe \in [Threads -> Seq(Nat)] /\ off \in [Threads -> [Nat -> Int]]
        /\ nx \in 1 .. main.next /\ main.next <= Len(binlog) + 1
        /\ Order(pipe, c, main.idx, nx, main.next)
        /\ \A u \in Threads : ThreadSound(u, pipe[u], off[u])
    BY DEF Pipeline
  <1>2. PICK P, O : P = Tail(pipe[c]) /\ O = [j \in Nat |-> o1[j + 1]]
    OBVIOUS
  <1>3. PICK pipe1 : pipe1 = [pipe EXCEPT ![c] = P]
    OBVIOUS
  <1>4. PICK off1 : off1 = [off EXCEPT ![c] = O]
    OBVIOUS
  <1>5. PICK nx1 : nx1 = IF pipe[c][1] = NO_MESSAGE THEN nx ELSE nx + 1
    OBVIOUS
  <1>6. /\ Lane(P, O, Entries, 0, 0, binlogQ[c], Hand(c), step1[c].msg, step1[c].count,
                step1[c].count - step1[c].todo, countQ'[c], entryQ[c])
        /\ Len(pipe[c]) > 0
    <2>1. PICK hand, m, n, d, bq, cq, q :
            /\ hand = Hand(c) /\ m = step1[c].msg /\ n = step1[c].count
            /\ d = step1[c].count - step1[c].todo /\ bq = binlogQ[c] /\ cq = countQ'[c]
            /\ q = entryQ[c]
      OBVIOUS
    <2>2. PICK p, l : p = pipe[c] /\ l = 0
      OBVIOUS
    <2>3. Lane(p, o1, Entries, 1, l, bq, hand, m, n, d, cq, q)
      BY <1>0, <2>1, <2>2
    <2>4. /\ Lane(Tail(p), [j \in Nat |-> o1[j + 1]], Entries, 0, l, bq, hand, m, n, d, cq, q)
          /\ Len(p) > 0
      BY ONLY <2>2, <2>3, 0 \in Nat, LaneDrop
    <2>5. QED
      BY ONLY <1>2, <2>1, <2>2, <2>4
  <1>7. P \in Seq(Nat) /\ O \in [Nat -> Int]
    BY <1>6 DEF Lane, Typed
  <1>8. pipe1 \in [Threads -> Seq(Nat)] /\ off1 \in [Threads -> [Nat -> Int]]
    BY ONLY <1>1, <1>3, <1>4, <1>7, c \in Threads
  <1>9. Entries' = Entries /\ ~Busy' /\ \A t \in Threads : Taken(t)' = 0 /\ Hand(t)' = Hand(t)
    BY <1>0 DEF Entries, Busy, Taken, Hand
  <1>10. ASSUME NEW t \in Threads
         PROVE  ThreadSound(t, pipe1[t], off1[t])'
    <2>1. CASE t = c
      <3>1. pipe1[t] = P /\ off1[t] = O
        BY <1>1, <1>3, <1>4, <2>1
      <3>2. QED
        BY <1>0, <1>6, <1>9, <2>1, <3>1 DEF ThreadSound
    <2>2. CASE t # c
      <3>1. pipe1[t] = pipe[t] /\ off1[t] = off[t] /\ countQ'[t] = countQ[t]
        BY <1>0, <1>1, <1>3, <1>4, <2>2
      <3>2. ThreadSound(t, pipe[t], off[t])
        BY <1>1
      <3>3. Taken(t) = 0 /\ Taken(t)' = Taken(t) /\ step2'.left \in Nat
        BY <1>0, <1>9, <2>2 DEF Taken
      <3>4. QED
        BY <1>0, <1>9, <3>1, <3>2, <3>3, ThreadFrame
    <2>3. QED
      BY <2>1, <2>2
  <1>11. /\ Order(pipe1, NextThread(c), main.idx, nx1, main.next)
         /\ nx1 \in 1 .. main.next
    <2>1. main.next \in Nat /\ main.idx \in Threads
      BY StateTypes
    <2>2. PICK hi, d : hi = main.next /\ d = main.idx
      OBVIOUS
    <2>3. hi \in Nat /\ d \in Threads /\ nx \in Nat \ {0} /\ Order(pipe, c, d, nx, hi) /\ nx <= hi
      BY ONLY <1>1, <2>1, <2>2
    <2>4. nx1 \in Nat /\ nx1 >= 1
      BY ONLY <1>5, <2>3
    <2>5. Order(pipe1, NextThread(c), d, nx1, hi) /\ nx1 <= hi
      BY ONLY <1>1, <1>2, <1>3, <1>5, <1>6, <1>8, <2>3, <2>4, c \in Threads, OrderCollect
    <2>6. QED
      BY ONLY <2>2, <2>3, <2>4, <2>5
  <1>12. AtWork(pipe1, nx1)'
    BY <1>9 DEF AtWork
  <1>13. Pipeline(pipe1, off1, nx1)'
    BY <1>0, <1>1, <1>8, <1>10, <1>11, <1>12 DEF Pipeline
  <1>14. QED
    BY <1>5, <1>13 DEF Passed

LEMMA StepTakeCount ==
  ASSUME Types, NEW pipe, NEW off, NEW nx, Pipeline(pipe, off, nx), TakeCount
  PROVE  /\ Types'
         /\ \E pipe1, off1, nx1 :
              /\ Pipeline(pipe1, off1, nx1)'
              /\ \/ nx1 = nx /\ (Busy' => step2'.left = Entries[nx])
                 \/ nx1 = nx + 1 /\ nx \in DOMAIN binlog /\ Entries[nx] = 0 /\ ~Busy'
  <1>0. PICK c : c = step2.idx
    OBVIOUS
  <1> DEFINE n == Head(countQ[c])
  <1>1. /\ ~Busy /\ countQ[c] # << >> /\ n \in Nat
        /\ countQ' = [countQ EXCEPT ![c] = Tail(@)]
        /\ step2' \in Step2Type
        /\ n = 0 => step2' = [step2 EXCEPT !.idx = NextThread(c)]
        /\ n # 0 => step2' = [step2 EXCEPT !.left = n, !.log_count = step2.log_count + 1]
        /\ UNCHANGED <<binlog, unified, buffer, main, binlogQ, entryQ, step1>>
    BY <1>0, TakeCountFacts
  <1>2. c \in Threads
    BY <1>0, StateTypes
  <1>3. /\ pipe \in [Threads -> Seq(Nat)] /\ off \in [Threads -> [Nat -> Int]]
        /\ nx \in 1 .. main.next /\ main.next <= Len(binlog) + 1
        /\ Order(pipe, step2.idx, main.idx, nx, main.next)
        /\ \A u \in Threads : ThreadSound(u, pipe[u], off[u])
    BY DEF Pipeline
  <1>4. countQ'[c] = Tail(countQ[c]) /\ \A t \in Threads \ {c} : countQ'[t] = countQ[t]
    BY <1>1, <1>2 DEF Types
  <1>5. /\ Lane(pipe[c], off[c], Entries, 1, n, binlogQ[c], Hand(c), step1[c].msg, step1[c].count,
                step1[c].count - step1[c].todo, Tail(countQ[c]), entryQ[c])
        /\ Len(pipe[c]) > 0 /\ n = Entries[pipe[c][1]]
    <2>1. PICK hand, m, x, d, bq, cq, q, l, p :
            /\ hand = Hand(c) /\ m = step1[c].msg /\ x = step1[c].count
            /\ d = step1[c].count - step1[c].todo /\ bq = binlogQ[c] /\ cq = countQ[c]
            /\ q = entryQ[c] /\ l = step2.left /\ p = pipe[c]
      OBVIOUS
    <2>2. Taken(c) = 0
      BY <1>1 DEF Taken
    <2>3. Lane(p, off[c], Entries, 0, l, bq, hand, m, x, d, cq, q)
      BY <1>2, <1>3, <2>1, <2>2 DEF ThreadSound
    <2>4. cq # << >>
      BY <1>1, <2>1
    <2>5. /\ Lane(p, off[c], Entries, 1, Head(cq), bq, hand, m, x, d, Tail(cq), q)
          /\ Len(p) > 0 /\ Head(cq) = Entries[p[1]]
      BY ONLY <2>3, <2>4, LaneTaken
    <2>6. QED
      BY ONLY <2>1, <2>5
  <1> HIDE DEF n
  <1>6. pipe[c][1] # NO_MESSAGE => pipe[c][1] = nx /\ nx \in DOMAIN binlog /\ nx < main.next
    BY <1>0, <1>2, <1>5, HeadEntries
  <1>7. pipe[c][1] = NO_MESSAGE => n = 0
    <2>1. NO_MESSAGE \in Nat \ DOMAIN binlog
      BY BinlogFacts DEF NO_MESSAGE
    <2>2. QED
      BY <1>5, <2>1, BinlogFacts
  <1>8. Types'
    <2>1. countQ' \in [Threads -> Seq(Nat)]
      <3>1. Tail(countQ[c]) \in Seq(Nat)
        BY <1>1, <1>2, StateTypes, TailFacts
      <3>2. QED
        BY <1>1, <3>1 DEF Types
    <2>2. QED
      BY <1>1, <2>1 DEF Types
  <1>9. CASE n = 0
    <2>1. step2 \in Step2Type /\ NextThread(c) \in Threads
      BY <1>2, NextThreadFacts DEF Types
    <2>2. step2' = [step2 EXCEPT !.idx = NextThread(c)] /\ step2.left = 0 /\ step2.msg = 0
      BY <1>1, <1>9, BusyFacts
    <2>3. step2'.idx = NextThread(c) /\ step2'.left = 0 /\ step2'.msg = 0
      BY ONLY <2>1, <2>2 DEF Step2Type
    <2>4. PICK pipe1, off1, nx1 : Pipeline(pipe1, off1, nx1)' /\ Passed(pipe[c][1], nx, nx1)
      <3>1. LaneDone(c, pipe[c], off[c])
        BY <1>4, <1>5, <1>9 DEF LaneDone
      <3>2. DoneWith(c)
        BY <1>1, <1>4, <2>3 DEF DoneWith
      <3>3. QED
        BY <1>0, <1>2, <3>1, <3>2, StepCollect
    <2>5. ~Busy'
      BY <2>3 DEF Busy
    <2>6. QED
      BY <1>5, <1>6, <1>8, <1>9, <2>4, <2>5 DEF Passed
  <1>10. CASE n # 0
    <2>1. step2 \in Step2Type /\ step2.log_count + 1 \in Nat
      <3>1. step2 \in Step2Type
        BY DEF Types
      <3>2. QED
        BY ONLY <3>1 DEF Step2Type
    <2>2. /\ step2' = [step2 EXCEPT !.left = n, !.log_count = step2.log_count + 1]
          /\ step2.left = 0 /\ step2.msg = 0 /\ n \in Nat
      BY <1>1, <1>10, BusyFacts
    <2>3. step2'.idx = step2.idx /\ step2'.left = n /\ step2'.msg = 0
      BY ONLY <2>1, <2>2 DEF Step2Type
    <2>4. pipe[c][1] = nx /\ n = Entries[nx] /\ n > 0
      BY ONLY <1>1, <1>5, <1>6, <1>7, <1>10
    <2>5. /\ Entries' = Entries /\ Busy' /\ \A t \in Threads : Hand(t)' = Hand(t)
          /\ \A t \in Threads : Taken(t)' = IF t = c THEN 1 ELSE 0
          /\ \A t \in Threads : Taken(t) = 0
      BY <1>0, <1>1, <2>3, <2>4 DEF Entries, Busy, Taken, Hand
    <2>6. ASSUME NEW t \in Threads
          PROVE  ThreadSound(t, pipe[t], off[t])'
      <3>1. CASE t = c
        BY <1>1, <1>4, <1>5, <2>3, <2>5, <3>1 DEF ThreadSound
      <3>2. CASE t # c
        <4>1. ThreadSound(t, pipe[t], off[t]) /\ countQ'[t] = countQ[t]
          BY <1>3, <1>4, <3>2
        <4>2. Taken(t) = 0 /\ Taken(t)' = Taken(t) /\ step2'.left \in Nat
          BY <1>1, <2>3, <2>5, <3>2
        <4>3. QED
          BY <1>1, <2>5, <4>1, <4>2, ThreadFrame
      <3>3. QED
        BY <3>1, <3>2
    <2>7. AtWork(pipe, nx)'
      <3>1. step2'.left = Entries[nx] /\ n <= n
        BY ONLY <2>3, <2>4, <1>1
      <3>2. QED
        BY <1>0, <1>5, <2>3, <2>4, <2>5, <3>1 DEF AtWork
    <2>8. Pipeline(pipe, off, nx)'
      BY <1>1, <1>3, <2>3, <2>6, <2>7 DEF Pipeline
    <2>9. QED
      BY <1>8, <2>3, <2>4, <2>8
  <1>11. QED
    BY <1>9, <1>10

(* The entry that is next in the queue of the thread whose turn it is. *)
LEMMA EntryAtHead ==
  ASSUME Types, NEW pipe, NEW off, NEW nx, Pipeline(pipe, off, nx),
         NEW c \in Threads, c = step2.idx, step2.left > 0, entryQ[c] # << >>
  PROVE  /\ nx \in DOMAIN binlog /\ step2.left <= Entries[nx]
         /\ Head(entryQ[c]) = [msg |-> nx, part |-> Entries[nx] - step2.left + 1]
         /\ Entries[nx] - step2.left + 1 \in 1 .. Entries[nx]
         /\ pipe[c][1] = nx
         /\ Lane(pipe[c], [j \in Nat |-> off[c][j] - 1], Entries, 1, step2.left - 1, binlogQ[c],
                 Hand(c), step1[c].msg, step1[c].count, step1[c].count - step1[c].todo,
                 countQ[c], Tail(entryQ[c]))
  <1>1. /\ nx \in 1 .. main.next
        /\ ThreadSound(c, pipe[c], off[c])
        /\ AtWork(pipe, nx)
    BY DEF Pipeline
  <1>2. Busy /\ Taken(c) = 1
    BY DEF Busy, Taken
  <1>3. Len(pipe[c]) > 0 /\ pipe[c][1] = nx /\ step2.left <= Entries[nx]
    BY <1>1, <1>2 DEF AtWork
  <1>4. pipe[c][1] # NO_MESSAGE
    BY <1>1, <1>3, StateTypes DEF NO_MESSAGE
  <1>5. nx \in DOMAIN binlog
    BY <1>3, <1>4, HeadEntries
  <1>6. /\ Lane(pipe[c], [j \in Nat |-> off[c][j] - 1], Entries, 1, step2.left - 1, binlogQ[c],
                Hand(c), step1[c].msg, step1[c].count, step1[c].count - step1[c].todo,
                countQ[c], Tail(entryQ[c]))
        /\ Head(entryQ[c]) = [msg |-> pipe[c][1], part |-> Entries[pipe[c][1]] - step2.left + 1]
    <2>1. PICK hand, m, x, d, bq, cq, q, l, p :
            /\ hand = Hand(c) /\ m = step1[c].msg /\ x = step1[c].count
            /\ d = step1[c].count - step1[c].todo /\ bq = binlogQ[c] /\ cq = countQ[c]
            /\ q = entryQ[c] /\ l = step2.left /\ p = pipe[c]
      OBVIOUS
    <2>2. Lane(p, off[c], Entries, 1, l, bq, hand, m, x, d, cq, q)
      BY <1>1, <1>2, <2>1 DEF ThreadSound
    <2>3. q # << >> /\ l > 0 /\ l <= Entries[p[1]]
      BY <1>3, <2>1
    <2>4. PICK o : o = off[c]
      OBVIOUS
    <2>5. Lane(p, o, Entries, 1, l, bq, hand, m, x, d, cq, q)
      BY ONLY <2>2, <2>4
    <2>6. PICK o1, l1, part :
            o1 = [j \in Nat |-> o[j] - 1] /\ l1 = l - 1 /\ part = Entries[p[1]] - l + 1
      OBVIOUS
    <2>7. /\ Lane(p, o1, Entries, 1, l1, bq, hand, m, x, d, cq, Tail(q))
          /\ Head(q) = [msg |-> p[1], part |-> part]
      BY ONLY <2>3, <2>5, <2>6, LaneEntry
    <2>8. QED
      BY ONLY <2>1, <2>4, <2>6, <2>7
  <1>7. Entries[nx] - step2.left + 1 \in 1 .. Entries[nx]
    <2>1. Entries[nx] \in Nat /\ step2.left \in Nat
      BY <1>5, BinlogFacts, StateTypes
    <2>2. PICK b, l : b = Entries[nx] /\ l = step2.left
      OBVIOUS
    <2>3. b \in Nat /\ l \in Nat /\ l > 0 /\ l <= b
      BY ONLY <1>3, <2>1, <2>2, step2.left > 0
    <2>4. b - l + 1 \in 1 .. b
      BY ONLY <2>3
    <2>5. QED
      BY ONLY <2>2, <2>4
  <1>8. QED
    BY <1>3, <1>5, <1>6, <1>7

(* What taking entry k of message nx does besides: g are its global ids. *)
EntryStep(nx, k, g) ==
  /\ nx \in DOMAIN binlog /\ k = Entries[nx] - step2.left + 1 /\ k \in 1 .. Entries[nx]
  /\ step2.left > 0
  /\ g \in Seq(GidType) /\ Numbered(binlog[nx].ents[k], g)
  /\ buffer' = IF CatchUp(step2) THEN buffer
               ELSE Append(buffer, LogOf([msg |-> nx, part |-> k], g))
  /\ UNCHANGED <<binlog, unified>>
  /\ step2'.left = step2.left - 1 /\ step2'.msg = nx
  /\ step2'.log_count = step2.log_count /\ step2'.epoch = step2.epoch
  /\ step2'.last_tx_id = step2.last_tx_id
  /\ step2'.last_log_count = step2.last_log_count
  /\ step2'.bulk_load_finished = step2.bulk_load_finished
  /\ step2'.processed_count = step2.processed_count + 1
  /\ step2'.last_processed_offset = step2.last_processed_offset
  /\ step2'.catch_up_mode = CatchUp(step2)

LEMMA StepTakeEntry ==
  ASSUME Types, NEW pipe, NEW off, NEW nx, Pipeline(pipe, off, nx), TakeEntry
  PROVE  /\ Types'
         /\ \E off1 : Pipeline(pipe, off1, nx)'
         /\ \E k, g : EntryStep(nx, k, g)
  <1>0. PICK c, k : c = step2.idx /\ k = Entries[nx] - step2.left + 1
    OBVIOUS
  <1>1. c \in Threads /\ step2.left > 0 /\ entryQ[c] # << >> /\ step2.left \in Nat
        /\ entryQ[c] \in Seq(Item)
    BY <1>0, StateTypes DEF TakeEntry
  <1>2. PICK e : e = [msg |-> nx, part |-> k]
    OBVIOUS
  <1>3. /\ nx \in DOMAIN binlog /\ step2.left <= Entries[nx] /\ Head(entryQ[c]) = e
        /\ k \in 1 .. Entries[nx] /\ pipe[c][1] = nx
        /\ Lane(pipe[c], [j \in Nat |-> off[c][j] - 1], Entries, 1, step2.left - 1, binlogQ[c],
                Hand(c), step1[c].msg, step1[c].count, step1[c].count - step1[c].todo,
                countQ[c], Tail(entryQ[c]))
    BY <1>0, <1>1, <1>2, EntryAtHead
  <1>4. /\ Entries[nx] \in Nat /\ nx \in Nat /\ DOMAIN binlog[nx].ents = 1 .. Entries[nx]
        /\ nx # 0
    BY <1>3, BinlogFacts
  <1>5. e \in [msg : Nat, part : Nat] /\ e.msg = nx /\ e.part = k
    BY <1>2, <1>3, <1>4
  <1>6. /\ entryQ' = [entryQ EXCEPT ![c] = Tail(@)]
        /\ step2' \in Step2Type
        /\ step2'.idx = c /\ step2'.left = step2.left - 1 /\ step2'.msg = nx
        /\ step2'.log_count = step2.log_count /\ step2'.epoch = step2.epoch
        /\ step2'.last_tx_id = step2.last_tx_id
        /\ step2'.last_log_count = step2.last_log_count
        /\ step2'.bulk_load_finished = step2.bulk_load_finished
        /\ step2'.processed_count = step2.processed_count + 1
        /\ step2'.last_processed_offset = step2.last_processed_offset
        /\ step2'.catch_up_mode = CatchUp(step2)
        /\ \E g \in Seq(GidType) :
             /\ Numbered(binlog[nx].ents[k], g)
             /\ buffer' = IF CatchUp(step2) THEN buffer ELSE Append(buffer, LogOf(e, g))
        /\ UNCHANGED <<binlog, unified, main, binlogQ, countQ, step1>>
    BY <1>0, <1>3, <1>4, <1>5, TakeEntryFacts
  <1>7. PICK g \in Seq(GidType) :
          /\ Numbered(binlog[nx].ents[k], g)
          /\ buffer' = IF CatchUp(step2) THEN buffer ELSE Append(buffer, LogOf(e, g))
    BY <1>6
  <1>8. EntryStep(nx, k, g)
    BY <1>0, <1>1, <1>2, <1>3, <1>6, <1>7 DEF EntryStep
  <1>9. LogOf(e, g) \in LogType
    <2>1. step2.epoch \in Int /\ step2.processed_count \in Nat
      <3>1. step2 \in Step2Type
        BY DEF Types
      <3>2. QED
        BY ONLY <3>1 DEF Step2Type
    <2>2. QED
      BY ONLY <1>3, <1>4, <1>5, <2>1, g \in Seq(GidType) DEF LogOf, LogType
  <1>10. Types'
    <2>1. entryQ' \in [Threads -> Seq(Item)]
      <3>1. Tail(entryQ[c]) \in Seq(Item)
        BY <1>1, TailFacts
      <3>2. QED
        BY <1>6, <3>1 DEF Types
    <2>2. buffer' \in Seq(LogType)
      BY <1>7, <1>9 DEF Types
    <2>3. QED
      BY <1>6, <2>1, <2>2 DEF Types
  <1>11. PICK o1 : o1 = [j \in Nat |-> off[c][j] - 1]
    OBVIOUS
  <1>12. PICK off1 : off1 = [off EXCEPT ![c] = o1]
    OBVIOUS
  <1>13. /\ pipe \in [Threads -> Seq(Nat)] /\ off \in [Threads -> [Nat -> Int]]
         /\ nx \in 1 .. main.next /\ main.next <= Len(binlog) + 1
         /\ Order(pipe, step2.idx, main.idx, nx, main.next)
         /\ \A u \in Threads : ThreadSound(u, pipe[u], off[u])
         /\ AtWork(pipe, nx)
    BY DEF Pipeline
  <1>14. o1 \in [Nat -> Int]
    BY <1>3, <1>11 DEF Lane, Typed
  <1>15. off1 \in [Threads -> [Nat -> Int]] /\ off1[c] = o1 /\ \A u \in Threads \ {c} : off1[u] = off[u]
    BY ONLY <1>1, <1>12, <1>13, <1>14
  <1>16. /\ Entries' = Entries /\ Busy' /\ \A t \in Threads : Hand(t)' = Hand(t)
         /\ \A t \in Threads : Taken(t)' = IF t = c THEN 1 ELSE 0
         /\ \A t \in Threads \ {c} : Taken(t) = 0
    BY <1>0, <1>4, <1>6 DEF Entries, Busy, Taken, Hand
  <1>17. ASSUME NEW t \in Threads
         PROVE  ThreadSound(t, pipe[t], off1[t])'
    <2>1. CASE t = c
      <3>1. entryQ'[c] = Tail(entryQ[c])
        BY <1>1, <1>6 DEF Types
      <3>2. QED
        BY <1>3, <1>6, <1>11, <1>15, <1>16, <2>1, <3>1 DEF ThreadSound
    <2>2. CASE t # c
      <3>1. ThreadSound(t, pipe[t], off[t]) /\ off1[t] = off[t] /\ entryQ'[t] = entryQ[t]
        BY <1>6, <1>13, <1>15, <2>2 DEF Types
      <3>2. step2'.left \in Nat
        BY <1>6 DEF Step2Type
      <3>3. Taken(t) = 0 /\ Taken(t)' = Taken(t)
        BY <1>16, <2>2
      <3>4. QED
        BY <1>6, <1>16, <3>1, <3>2, <3>3, ThreadFrame
    <2>3. QED
      BY <2>1, <2>2
  <1>18. AtWork(pipe, nx)'
    <2>1. Len(pipe[c]) > 0 /\ pipe[c][1] = nx
      BY <1>0, <1>1, <1>13 DEF AtWork, Busy
    <2>2. step2.left - 1 <= Entries[nx] /\ step2.left - 1 # Entries[nx]
      BY ONLY <1>1, <1>3, <1>4
    <2>3. QED
      BY <1>6, <1>16, <2>1, <2>2 DEF AtWork
  <1>19. Pipeline(pipe, off1, nx)'
    BY <1>0, <1>6, <1>13, <1>15, <1>17, <1>18 DEF Pipeline
  <1>20. QED
    BY <1>8, <1>10, <1>19

(* What the end of message nx does besides. *)
EndStep(nx) ==
  LET m == binlog[nx] IN
  /\ nx \in DOMAIN binlog /\ Entries[nx] > 0 /\ step2.left = 0 /\ step2.msg = nx
  /\ step2'.left = 0 /\ step2'.msg = 0
  /\ step2'.log_count = step2.log_count
  /\ step2'.last_processed_offset = step2.last_processed_offset
  /\ UNCHANGED <<Map(step2), Nums(step2), NumsIn(step2)>>
  /\ step2'.processed_count = step2.processed_count + (IF m.last THEN 1 ELSE 0)
  /\ step2'.catch_up_mode = IF m.last THEN CatchUp(step2) ELSE step2.catch_up_mode
  /\ buffer' = IF m.last /\ ~CatchUp(step2) THEN Append(buffer, EndLog) ELSE buffer
  /\ m.last => /\ step2'.bulk_load_finished = TRUE /\ step2'.last_tx_id = m.tx
               /\ step2'.last_log_count = step2.log_count /\ step2'.epoch = 1
  /\ ~m.last => /\ step2'.bulk_load_finished = step2.bulk_load_finished
                /\ UseLogsPerEpoch /\ TxIds => EpochChange(step2, step2', m.tx)
  /\ UNCHANGED <<binlog, unified>>

LEMMA StepEndMessage ==
  ASSUME Types, NEW pipe, NEW off, NEW nx, Pipeline(pipe, off, nx),
         NEW elapsed \in BOOLEAN, EndMessage(elapsed)
  PROVE  /\ Types'
         /\ \E pipe1, off1 : Pipeline(pipe1, off1, nx + 1)'
         /\ EndStep(nx)
  <1>0. PICK c : c = step2.idx
    OBVIOUS
  <1>1. step2.left = 0 /\ step2.msg # 0 /\ c \in Threads
    BY <1>0, StateTypes DEF EndMessage
  <1>2. Busy /\ Taken(c) = 1
    BY <1>0, <1>1 DEF Busy, Taken
  <1>3. /\ nx \in 1 .. main.next /\ AtWork(pipe, nx) /\ ThreadSound(c, pipe[c], off[c])
    BY <1>1 DEF Pipeline
  <1>4. /\ Len(pipe[c]) > 0 /\ pipe[c][1] = nx
        /\ step2.msg = IF step2.left = Entries[nx] THEN 0 ELSE nx
    BY <1>0, <1>2, <1>3 DEF AtWork
  <1>5. step2.msg = nx /\ Entries[nx] # 0
    BY <1>1, <1>4
  <1>6. pipe[c][1] # NO_MESSAGE
    BY <1>1, <1>4, <1>5 DEF NO_MESSAGE
  <1>7. nx \in DOMAIN binlog
    BY <1>0, <1>1, <1>4, <1>6, HeadEntries
  <1>8. Entries[nx] \in Nat /\ Entries[nx] > 0 /\ binlog[nx].tx \in Nat
        /\ binlog[nx].last \in BOOLEAN
    <2>1. Entries[nx] \in Nat /\ binlog[nx].tx \in Nat /\ binlog[nx].last \in BOOLEAN
      BY <1>7, BinlogFacts
    <2>2. QED
      BY ONLY <1>5, <2>1
  <1>9. LET m == binlog[nx] IN
         /\ step2.left = 0 /\ step2.msg # 0
         /\ step2' \in Step2Type
         /\ step2'.idx = NextThread(step2.idx) /\ step2'.left = 0 /\ step2'.msg = 0
         /\ step2'.log_count = step2.log_count
         /\ step2'.last_processed_offset = step2.last_processed_offset
         /\ UNCHANGED <<Map(step2), Nums(step2), NumsIn(step2)>>
         /\ step2'.processed_count = step2.processed_count + (IF m.last THEN 1 ELSE 0)
         /\ step2'.catch_up_mode = IF m.last THEN CatchUp(step2) ELSE step2.catch_up_mode
         /\ buffer' = IF m.last /\ ~CatchUp(step2) THEN Append(buffer, EndLog) ELSE buffer
         /\ m.last => /\ step2'.bulk_load_finished = TRUE /\ step2'.last_tx_id = m.tx
                      /\ step2'.last_log_count = step2.log_count /\ step2'.epoch = 1
         /\ ~m.last => /\ step2'.bulk_load_finished = step2.bulk_load_finished
                       /\ UseLogsPerEpoch /\ TxIds => EpochChange(step2, step2', m.tx)
         /\ UNCHANGED <<binlog, unified, main, binlogQ, entryQ, countQ, step1>>
    BY <1>5, <1>7, EndMessageFacts
  <1>10. EndStep(nx)
    BY <1>5, <1>7, <1>8, <1>9 DEF EndStep
  <1>11. PICK pipe1, off1, nx1 : Pipeline(pipe1, off1, nx1)' /\ Passed(pipe[c][1], nx, nx1)
    <2>1. DoneWith(c)
      BY <1>0, <1>9 DEF DoneWith
    <2>2. LaneDone(c, pipe[c], off[c])
      BY <1>1, <1>2, <1>3, <1>9 DEF LaneDone, ThreadSound
    <2>3. QED
      BY <1>0, <1>1, <2>1, <2>2, StepCollect
  <1>12. nx1 = nx + 1
    BY <1>6, <1>11 DEF Passed
  <1>13. Types'
    <2>1. buffer' \in Seq(LogType)
      <3>1. EndLog \in LogType
        <4>1. step2 \in Step2Type
          BY DEF Types
        <4>2. step2.msg \in Nat /\ step2.processed_count \in Nat
          BY ONLY <4>1 DEF Step2Type
        <4>3. QED
          BY ONLY <4>2 DEF EndLog, LogType
      <3>2. QED
        BY <1>9, <3>1 DEF Types
    <2>2. QED
      BY <1>9, <2>1 DEF Types
  <1>14. QED
    BY <1>10, <1>11, <1>12, <1>13

(* A message is added to the binlog. *)
LEMMA LogFacts ==
  ASSUME Types, NEW m \in Messages, BinlogAppend(m)
  PROVE  \E x \in MessageType :
           /\ binlog' = Append(binlog, x)
           /\ x.ents = m.ents /\ x.last = m.last
           /\ x.tx = LastTx + (IF m.newtx THEN 1 ELSE 0)
           /\ Len(binlog') = Len(binlog) + 1 /\ DOMAIN binlog \subseteq DOMAIN binlog'
           /\ binlog'[Len(binlog) + 1] = x
           /\ \A i \in DOMAIN binlog : binlog'[i] = binlog[i] /\ Entries'[i] = Entries[i]
           /\ Entries'[Len(binlog) + 1] = Len(x.ents)
           /\ UNCHANGED <<unified, buffer, main, binlogQ, entryQ, countQ, step1, timeouts, step2,
                          crashes>>
  <1> DEFINE x == [ents |-> m.ents, last |-> m.last,
                   tx |-> LastTx + (IF m.newtx THEN 1 ELSE 0)]
  <1>1. binlog \in Seq(MessageType) /\ Len(binlog) \in Nat /\ DOMAIN binlog = 1 .. Len(binlog)
    BY DEF Types
  <1>2. LastTx \in Nat
    <2>1. CASE binlog = << >>
      BY <2>1 DEF LastTx
    <2>2. CASE binlog # << >>
      <3>1. Last(binlog) = binlog[Len(binlog)]
        BY DEF Last
      <3>2. Len(binlog) \in 1 .. Len(binlog)
        BY <1>1, <2>2
      <3>3. Last(binlog) \in MessageType
        BY <1>1, <3>1, <3>2
      <3>4. QED
        BY <2>2, <3>3 DEF LastTx, MessageType
    <2>3. QED
      BY <2>1, <2>2
  <1>3. m.ents \in Seq(Entry) /\ m.last \in BOOLEAN /\ m.newtx \in BOOLEAN
    BY ConverterAssumption
  <1>4. x \in MessageType
    BY <1>2, <1>3 DEF MessageType
  <1>5. /\ binlog' = Append(binlog, x) /\ x.ents = m.ents /\ x.last = m.last
        /\ x.tx = LastTx + (IF m.newtx THEN 1 ELSE 0)
        /\ UNCHANGED <<unified, buffer, main, binlogQ, entryQ, countQ, step1, timeouts, step2,
                       crashes>>
    BY DEF BinlogAppend, queues
  <1> HIDE DEF x
  <1>6. /\ Len(binlog') = Len(binlog) + 1 /\ binlog'[Len(binlog) + 1] = x
        /\ \A i \in 1 .. Len(binlog) : binlog'[i] = binlog[i]
        /\ DOMAIN binlog' = 1 .. Len(binlog) + 1
    <2>1. binlog' \in Seq(MessageType)
      BY <1>1, <1>4, <1>5
    <2>2. QED
      BY ONLY <1>1, <1>4, <1>5, <2>1
  <1>7. \A i \in DOMAIN binlog : i \in DOMAIN binlog' /\ i \in Nat
    BY ONLY <1>1, <1>6
  <1>8. \A i \in DOMAIN binlog : binlog'[i] = binlog[i] /\ Entries'[i] = Entries[i]
    BY ONLY <1>1, <1>6, <1>7 DEF Entries
  <1>9. Entries'[Len(binlog) + 1] = Len(x.ents)
    <2>1. Len(binlog) + 1 \in DOMAIN binlog' /\ Len(binlog) + 1 \in Nat
      BY ONLY <1>1, <1>6
    <2>2. QED
      BY ONLY <1>6, <2>1 DEF Entries
  <1>10. QED
    BY <1>4, <1>5, <1>6, <1>7, <1>8, <1>9

LEMMA StepAppend ==
  ASSUME Types, NEW pipe, NEW off, NEW nx, Pipeline(pipe, off, nx), NEW m \in Messages,
         BinlogAppend(m)
  PROVE  Pipeline(pipe, off, nx)' /\ Types'
  <1>1. PICK x \in MessageType :
           /\ binlog' = Append(binlog, x)
           /\ Len(binlog') = Len(binlog) + 1
           /\ \A i \in DOMAIN binlog : binlog'[i] = binlog[i] /\ Entries'[i] = Entries[i]
           /\ UNCHANGED <<unified, buffer, main, binlogQ, entryQ, countQ, step1, timeouts, step2,
                          crashes>>
    BY LogFacts
  <1>2. Types'
    <2>1. binlog' \in Seq(MessageType)
      BY <1>1 DEF Types
    <2>2. QED
      BY <1>1, <2>1 DEF Types
  <1>3. /\ pipe \in [Threads -> Seq(Nat)] /\ off \in [Threads -> [Nat -> Int]]
        /\ nx \in 1 .. main.next /\ main.next <= Len(binlog) + 1
        /\ Order(pipe, step2.idx, main.idx, nx, main.next)
        /\ \A u \in Threads : ThreadSound(u, pipe[u], off[u])
        /\ AtWork(pipe, nx)
    BY DEF Pipeline
  <1>4. /\ DOMAIN binlog = 1 .. Len(binlog) /\ Len(binlog) \in Nat /\ main.next \in Nat
        /\ Entries \in Amounts /\ Entries' \in Amounts
    <2>1. Entries' \in Amounts
      <3>1. Entries' = [i \in Nat |-> IF i \in DOMAIN binlog' THEN Len(binlog'[i].ents) ELSE 0]
        BY DEF Entries
      <3>2. ASSUME NEW i \in DOMAIN binlog' PROVE Len(binlog'[i].ents) \in Nat
        <4>1. binlog' \in Seq(MessageType)
          BY <1>2 DEF Types
        <4>2. binlog'[i] \in MessageType
          BY ONLY <4>1, i \in DOMAIN binlog'
        <4>3. QED
          BY <4>2 DEF MessageType
      <3>3. QED
        BY <3>1, <3>2 DEF Amounts
    <2>2. QED
      BY <2>1, BinlogFacts, StateTypes
  <1>5. /\ \A i \in nx .. main.next - 1 : Entries'[i] = Entries[i]
        /\ Entries'[NO_MESSAGE] = Entries[NO_MESSAGE]
    <2>1. NO_MESSAGE \in Nat \ DOMAIN binlog /\ NO_MESSAGE \in Nat \ DOMAIN binlog'
      <3>1. binlog' \in Seq(MessageType)
        BY <1>2 DEF Types
      <3>2. DOMAIN binlog' = 1 .. Len(binlog')
        BY <3>1
      <3>3. QED
        BY <1>4, <3>2 DEF NO_MESSAGE
    <2>2. Entries'[NO_MESSAGE] = Entries[NO_MESSAGE]
      BY <2>1 DEF Entries
    <2>3. \A i \in nx .. main.next - 1 : i \in DOMAIN binlog
      BY ONLY <1>3, <1>4
    <2>4. QED
      BY <1>1, <2>2, <2>3
  <1>6. ASSUME NEW t \in Threads
        PROVE  ThreadSound(t, pipe[t], off[t])'
    <2>1. \A j \in 1 .. Len(pipe[t]) : pipe[t][j] = NO_MESSAGE \/ pipe[t][j] \in nx .. main.next - 1
      BY <1>3 DEF Order, Slots
    <2>2. \A j \in 1 .. Len(pipe[t]) : Entries'[pipe[t][j]] = Entries[pipe[t][j]]
      BY <1>5, <2>1
    <2>3. Taken(t)' = Taken(t) /\ Hand(t)' = Hand(t)
      BY <1>1 DEF Taken, Hand, Busy
    <2>4. ThreadSound(t, pipe[t], off[t])
      BY <1>3
    <2>5. PICK hand, mm, n, d, bq, cq, q, l, tk :
            /\ hand = Hand(t) /\ mm = step1[t].msg /\ n = step1[t].count
            /\ d = step1[t].count - step1[t].todo /\ bq = binlogQ[t] /\ cq = countQ[t]
            /\ q = entryQ[t] /\ l = step2.left /\ tk = Taken(t)
      OBVIOUS
    <2>6. Lane(pipe[t], off[t], Entries, tk, l, bq, hand, mm, n, d, cq, q)
      BY ONLY <2>4, <2>5 DEF ThreadSound
    <2>7. Lane(pipe[t], off[t], Entries', tk, l, bq, hand, mm, n, d, cq, q)
      BY ONLY <1>4, <2>2, <2>6, LaneLog
    <2>8. QED
      BY <1>1, <2>3, <2>5, <2>7 DEF ThreadSound
  <1>7. AtWork(pipe, nx)'
    <2>1. Busy => Entries'[nx] = Entries[nx]
      <3>1. Busy => nx \in DOMAIN binlog
        <4>1. SUFFICES ASSUME Busy PROVE nx \in DOMAIN binlog
          OBVIOUS
        <4>2. PICK c : c = step2.idx
          OBVIOUS
        <4>3. c \in Threads
          BY <4>2, StateTypes
        <4>4. Len(pipe[c]) > 0 /\ pipe[c][1] = nx
          BY <1>3, <4>1, <4>2 DEF AtWork
        <4>5. nx # NO_MESSAGE
          BY <1>3, <1>4 DEF NO_MESSAGE
        <4>6. QED
          BY <4>2, <4>3, <4>4, <4>5, HeadEntries
      <3>2. QED
        BY <1>1, <3>1
    <2>2. QED
      BY <1>1, <1>3, <2>1 DEF AtWork, Busy
  <1>8. main'.next <= Len(binlog') + 1
    BY <1>1, <1>3, <1>4
  <1>9. QED
    BY <1>1, <1>2, <1>3, <1>6, <1>7, <1>8 DEF Pipeline

(* A new process, with nothing in the pipeline. *)
Fresh ==
  /\ main = [next |-> 1, idx |-> 0]
  /\ binlogQ = [t \in Threads |-> << >>]
  /\ entryQ = [t \in Threads |-> << >>]
  /\ countQ = [t \in Threads |-> << >>]
  /\ step1 = [t \in Threads |-> IdleStep1]
  /\ \E last \in Nat : step2 = InitStep2(last)

LEMMA InitStep2Facts ==
  ASSUME NEW last \in Nat
  PROVE  LET s == InitStep2(last) IN
         /\ s \in Step2Type /\ s.idx = 0 /\ s.left = 0 /\ s.msg = 0
         /\ s.log_count = 0 /\ s.epoch = 0 /\ s.last_tx_id = -1 /\ s.last_log_count = 0
         /\ s.bulk_load_finished = FALSE /\ s.processed_count = 0
         /\ s.last_processed_offset = last /\ s.catch_up_mode = TRUE
         /\ Map(s) = << >> /\ Nums(s) = 0 /\ NumsIn(s) = [f \in 0 .. SubgraphNum - 1 |-> 0]
  <1>1. << >> \in GidMaps
    <2>1. << >> \in [{} -> GidType]
      OBVIOUS
    <2>2. QED
      BY <2>1 DEF GidMaps
  <1>2. 0 \in Threads
    BY Numbers
  <1>3. QED
    BY <1>1, <1>2 DEF InitStep2, Step2Type, Map, Nums, NumsIn

LEMMA FreshPipeline ==
  ASSUME Fresh, binlog \in Seq(MessageType)
  PROVE  /\ \E pipe, off : Pipeline(pipe, off, 1)
         /\ unified \in Seq(LogType) /\ buffer \in Seq(LogType) => Types
  <1>0. PICK last \in Nat : step2 = InitStep2(last)
    BY DEF Fresh
  <1>1. step2 \in Step2Type /\ step2.idx = 0 /\ step2.left = 0 /\ step2.msg = 0
    BY <1>0, InitStep2Facts
  <1>2. /\ main = [next |-> 1, idx |-> 0] /\ 0 \in Threads
        /\ binlogQ = [t \in Threads |-> << >>]
        /\ entryQ = [t \in Threads |-> << >>]
        /\ countQ = [t \in Threads |-> << >>]
        /\ step1 = [t \in Threads |-> IdleStep1]
    BY Numbers DEF Fresh
  <1>3. /\ main.next = 1 /\ main.idx = 0 /\ main \in [next : Nat \ {0}, idx : Threads]
        /\ step1 \in [Threads -> Step1Type]
        /\ \A t \in Threads :
             /\ binlogQ[t] = << >> /\ entryQ[t] = << >> /\ countQ[t] = << >>
             /\ step1[t].todo = 0 /\ step1[t].count = 0 /\ step1[t].msg = 0 /\ step1[t].pc = "pop"
    BY <1>2 DEF IdleStep1, Step1Type
  <1>4. unified \in Seq(LogType) /\ buffer \in Seq(LogType) => Types
    <2>1. /\ binlogQ \in [Threads -> Seq(Nat)] /\ entryQ \in [Threads -> Seq(Item)]
          /\ countQ \in [Threads -> Seq(Nat)]
      BY <1>2
    <2>2. \A t \in Threads : step1[t].todo <= step1[t].count
      BY <1>3
    <2>3. QED
      BY <1>1, <1>3, <2>1, <2>2, binlog \in Seq(MessageType) DEF Types
  <1>5. PICK o, pipe, off : /\ o = [j \in Nat |-> 0] /\ pipe = [t \in Threads |-> << >>]
                            /\ off = [t \in Threads |-> o]
    OBVIOUS
  <1>6. pipe \in [Threads -> Seq(Nat)] /\ off \in [Threads -> [Nat -> Int]]
        /\ \A t \in Threads : pipe[t] = << >> /\ off[t] = o /\ Len(pipe[t]) = 0
    BY <1>5
  <1>7. Entries \in Amounts
    <2>1. ASSUME NEW i \in DOMAIN binlog PROVE Len(binlog[i].ents) \in Nat
      <3>1. binlog[i] \in MessageType
        BY binlog \in Seq(MessageType)
      <3>2. QED
        BY <3>1 DEF MessageType
    <2>2. QED
      BY <2>1 DEF Entries, Amounts
  <1>8. ~Busy
    BY <1>1 DEF Busy
  <1>9. ASSUME NEW t \in Threads
        PROVE  ThreadSound(t, pipe[t], off[t])
    <2>1. Taken(t) = 0 /\ Hand(t) = 0 /\ step1[t].count - step1[t].todo = 0
      BY <1>3, <1>8 DEF Taken, Hand
    <2>2. Lane(<< >>, o, Entries, 0, 0, << >>, 0, 0, 0, 0, << >>, << >>)
      BY <1>5, <1>7, LaneEmpty
    <2>3. QED
      BY <1>1, <1>3, <1>6, <2>1, <2>2 DEF ThreadSound
  <1>10. Order(pipe, 0, 0, 1, 1)
    <2>1. Dealt(pipe, 0, 0)
      BY <1>6, Numbers DEF Dealt, Before
    <2>2. Slots(pipe, 1, 1)
      BY <1>6 DEF Slots
    <2>3. Covers(pipe, 1, 1)
      BY DEF Covers
    <2>4. InTurn(pipe, 0)
      BY <1>6 DEF InTurn
    <2>5. QED
      BY <2>1, <2>2, <2>3, <2>4 DEF Order
  <1>11. 1 \in 1 .. main.next /\ main.next <= Len(binlog) + 1
    <2>1. Len(binlog) \in Nat
      BY binlog \in Seq(MessageType)
    <2>2. QED
      BY <1>3, <2>1
  <1>12. Pipeline(pipe, off, 1)
    BY <1>1, <1>3, <1>6, <1>8, <1>9, <1>10, <1>11 DEF Pipeline, AtWork
  <1>13. QED
    BY <1>4, <1>12


-----------------------------------------------------------------------------
(* The steps of the converter, as seen from the collecting thread, which    *)
(* has collected the messages before nx.                                    *)

At(nx) == \E pipe, off : Pipeline(pipe, off, nx)

SameCounters(s, r) ==
  /\ r.epoch = s.epoch /\ r.last_tx_id = s.last_tx_id /\ r.last_log_count = s.last_log_count
  /\ r.bulk_load_finished = s.bulk_load_finished /\ r.processed_count = s.processed_count
  /\ r.last_processed_offset = s.last_processed_offset /\ r.catch_up_mode = s.catch_up_mode
  /\ Map(r) = Map(s) /\ Nums(r) = Nums(s) /\ NumsIn(r) = NumsIn(s)

(* Deals and parser threads. *)
QuietStep == UNCHANGED <<binlog, unified, buffer, step2>>

(* A timeout or an empty message is collected, or a message is begun. *)
CountStep(nx, nx1) ==
  /\ UNCHANGED <<binlog, unified, buffer>>
  /\ ~Busy /\ SameCounters(step2, step2')
  /\ \/ /\ step2'.left = 0 /\ step2'.msg = 0 /\ step2'.log_count = step2.log_count
        /\ nx1 = nx \/ (nx1 = nx + 1 /\ nx \in DOMAIN binlog /\ Entries[nx] = 0)
     \/ /\ nx1 = nx /\ nx \in DOMAIN binlog /\ Entries[nx] > 0
        /\ step2'.left = Entries[nx] /\ step2'.msg = 0
        /\ step2'.log_count = step2.log_count + 1

RestartStep ==
  /\ UNCHANGED <<binlog, unified>> /\ buffer' = << >>
  /\ step2' = InitStep2(IF unified = << >> THEN 0 ELSE Last(unified).offset)

DeliverStep == Deliver /\ UNCHANGED <<binlog, step2>>

AppendStep(m) == BinlogAppend(m) /\ UNCHANGED <<unified, buffer, step2>>

Seen(nx, nx1) ==
  \/ nx1 = nx /\ QuietStep
  \/ CountStep(nx, nx1)
  \/ nx1 = nx /\ \E k, g : EntryStep(nx, k, g)
  \/ nx1 = nx + 1 /\ EndStep(nx)
  \/ nx1 = nx /\ DeliverStep
  \/ nx1 = 1 /\ RestartStep
  \/ nx1 = nx /\ \E m \in Messages : AppendStep(m)

LEMMA QuietPipeline ==
  ASSUME Types, NEW pipe, NEW off, NEW nx, Pipeline(pipe, off, nx),
         UNCHANGED <<binlog, main, binlogQ, entryQ, countQ, step1, step2>>
  PROVE  Pipeline(pipe, off, nx)'
  <1>1. Entries' = Entries
    BY DEF Entries
  <1>2. \A t \in Threads : ThreadSound(t, pipe[t], off[t])'
    BY <1>1 DEF Pipeline, ThreadSound, Taken, Hand, Busy
  <1>3. AtWork(pipe, nx)'
    BY <1>1 DEF Pipeline, AtWork, Busy
  <1>4. QED
    BY <1>2, <1>3 DEF Pipeline

LEMMA SeenDeal ==
  ASSUME Types, NEW nx, At(nx), DealMessage \/ DealTimeout
  PROVE  Types' /\ At(nx)' /\ QuietStep
  <1>1. PICK pipe, off : Pipeline(pipe, off, nx)
    BY DEF At
  <1>2. PICK m \in Nat :
          /\ binlogQ' = [binlogQ EXCEPT ![main.idx] = Append(@, m)]
          /\ main' = [next |-> main.next + (IF m = NO_MESSAGE THEN 0 ELSE 1),
                      idx |-> NextThread(main.idx)]
          /\ m # NO_MESSAGE => m = main.next /\ m <= Len(binlog)
          /\ UNCHANGED <<binlog, unified, buffer, entryQ, countQ, step1, step2>>
    <2>0. main.next \in Nat \ {0} /\ main = [next |-> main.next, idx |-> main.idx]
      BY DEF Types
    <2>1. CASE DealMessage
      <3>1. main.next # NO_MESSAGE
        BY <2>0 DEF NO_MESSAGE
      <3>2. QED
        BY <2>0, <2>1, <3>1 DEF DealMessage, Deal
    <2>2. CASE DealTimeout
      <3>1. NO_MESSAGE \in Nat
        BY DEF NO_MESSAGE
      <3>2. main' = [next |-> main.next + 0, idx |-> NextThread(main.idx)]
        BY <2>0, <2>2 DEF DealTimeout
      <3>3. QED
        BY <2>2, <3>1, <3>2 DEF DealTimeout, Deal
    <2>3. QED
      BY <2>1, <2>2
  <1>3. PICK pipe1, off1 : Pipeline(pipe1, off1, nx)'
    BY <1>1, <1>2, StepDeal
  <1>4. main.next \in Nat \ {0} /\ main.idx \in Threads /\ NextThread(main.idx) \in Threads
    BY NextThreadFacts DEF Types
  <1>5. main' \in [next : Nat \ {0}, idx : Threads]
    <2>1. main.next + (IF m = NO_MESSAGE THEN 0 ELSE 1) \in Nat \ {0}
      BY <1>4
    <2>2. QED
      BY <1>2, <1>4, <2>1
  <1>6. binlogQ' \in [Threads -> Seq(Nat)]
    <2>1. Append(binlogQ[main.idx], m) \in Seq(Nat)
      BY <1>4 DEF Types
    <2>2. QED
      BY <1>2, <2>1 DEF Types
  <1>7. Types'
    BY <1>2, <1>5, <1>6 DEF Types
  <1>8. QED
    BY <1>2, <1>3, <1>7 DEF At, QuietStep

LEMMA SeenThread ==
  ASSUME Types, NEW nx, At(nx), NEW t \in Threads, TakeMessage(t) \/ PushEntry(t) \/ PushCount(t)
  PROVE  Types' /\ At(nx)' /\ QuietStep
  <1>1. PICK pipe, off : Pipeline(pipe, off, nx)
    BY DEF At
  <1>2. Pipeline(pipe, off, nx)' /\ Types'
    BY <1>1, StepTake, StepPush, StepCount
  <1>3. QuietStep
    BY DEF TakeMessage, PushEntry, PushCount, QuietStep
  <1>4. QED
    BY <1>2, <1>3 DEF At

LEMMA SeenCount ==
  ASSUME Types, NEW nx, At(nx), TakeCount
  PROVE  Types' /\ \E nx1 : At(nx1)' /\ CountStep(nx, nx1)
  <1>1. PICK pipe, off : Pipeline(pipe, off, nx)
    BY DEF At
  <1>2. PICK pipe1, off1, nx1 :
          /\ Pipeline(pipe1, off1, nx1)'
          /\ \/ nx1 = nx /\ (Busy' => step2'.left = Entries[nx])
             \/ nx1 = nx + 1 /\ nx \in DOMAIN binlog /\ Entries[nx] = 0 /\ ~Busy'
    BY <1>1, StepTakeCount
  <1>3. Types'
    BY <1>1, StepTakeCount
  <1>4. PICK n : n = Head(countQ[step2.idx])
    OBVIOUS
  <1>5. /\ ~Busy /\ n \in Nat
        /\ n = 0 => step2' = [step2 EXCEPT !.idx = NextThread(step2.idx)]
        /\ n # 0 => step2' = [step2 EXCEPT !.left = n, !.log_count = step2.log_count + 1]
        /\ UNCHANGED <<binlog, unified, buffer>>
    BY <1>4, TakeCountFacts
  <1>6. step2 \in Step2Type
    BY DEF Types
  <1>7. step2.left = 0 /\ step2.msg = 0
    <2>1. step2.left \in Nat
      BY ONLY <1>6 DEF Step2Type
    <2>2. QED
      BY ONLY <1>5, <2>1 DEF Busy
  <1>8. nx \in Nat
    <2>1. nx \in 1 .. main.next
      BY <1>1 DEF Pipeline
    <2>2. QED
      BY ONLY <2>1
  <1>9. CASE n = 0
    <2>1. /\ step2'.left = 0 /\ step2'.msg = 0 /\ step2'.log_count = step2.log_count
          /\ SameCounters(step2, step2')
      BY ONLY <1>5, <1>6, <1>7, <1>9 DEF Step2Type, SameCounters, Map, Nums, NumsIn
    <2>2. CountStep(nx, nx1)
      BY ONLY <1>2, <1>5, <2>1 DEF CountStep
    <2>3. QED
      BY <1>2, <1>3, <2>2 DEF At
  <1>10. CASE n # 0
    <2>0. PICK lc : lc = step2.log_count + 1
      OBVIOUS
    <2>1. step2' = [step2 EXCEPT !.left = n, !.log_count = lc]
      BY <1>5, <1>10, <2>0
    <2>2. /\ step2'.left = n /\ step2'.msg = 0 /\ step2'.log_count = lc
          /\ SameCounters(step2, step2')
      BY ONLY <1>6, <1>7, <2>1 DEF Step2Type, SameCounters, Map, Nums, NumsIn
    <2>3. Busy'
      BY ONLY <1>5, <1>10, <2>2 DEF Busy
    <2>4. nx1 = nx /\ n = Entries[nx] /\ Entries[nx] > 0
      BY ONLY <1>2, <1>5, <1>10, <2>2, <2>3
    <2>5. nx \in DOMAIN binlog
      BY ONLY <1>8, <2>4 DEF Entries
    <2>6. CountStep(nx, nx1)
      BY ONLY <1>5, <2>0, <2>2, <2>4, <2>5 DEF CountStep
    <2>7. QED
      BY <1>2, <1>3, <2>6 DEF At
  <1>11. QED
    BY <1>9, <1>10

LEMMA SeenCollect ==
  ASSUME Types, NEW nx, At(nx), TakeEntry \/ \E elapsed \in Clock : EndMessage(elapsed)
  PROVE  Types' /\ \E nx1 : At(nx1)' /\ Seen(nx, nx1)
  <1>1. PICK pipe, off : Pipeline(pipe, off, nx)
    BY DEF At
  <1>2. CASE TakeEntry
    <2>1. Types' /\ At(nx)' /\ \E k, g : EntryStep(nx, k, g)
      BY <1>1, <1>2, StepTakeEntry DEF At
    <2>2. QED
      BY <2>1 DEF Seen
  <1>3. ASSUME NEW elapsed \in Clock, EndMessage(elapsed)
        PROVE  Types' /\ \E nx1 : At(nx1)' /\ Seen(nx, nx1)
    <2>1. elapsed \in BOOLEAN
      BY DEF Clock
    <2>2. Types' /\ At(nx + 1)' /\ EndStep(nx)
      BY <1>1, <1>3, <2>1, StepEndMessage DEF At
    <2>3. QED
      BY <2>2 DEF Seen
  <1>4. QED
    BY <1>2, <1>3

LEMMA SeenAppend ==
  ASSUME Types, NEW nx, At(nx), NEW m \in Messages, BinlogAppend(m)
  PROVE  Types' /\ At(nx)' /\ AppendStep(m)
  <1>1. PICK pipe, off : Pipeline(pipe, off, nx)
    BY DEF At
  <1>2. Pipeline(pipe, off, nx)' /\ Types'
    BY <1>1, StepAppend
  <1>3. QED
    BY <1>2 DEF At, AppendStep, BinlogAppend

LEMMA SeenDeliver ==
  ASSUME Types, NEW nx, At(nx), Deliver
  PROVE  Types' /\ At(nx)' /\ DeliverStep
  <1>1. PICK pipe, off : Pipeline(pipe, off, nx)
    BY DEF At
  <1>2. UNCHANGED <<binlog, main, binlogQ, entryQ, countQ, step1, step2>>
    BY DEF Deliver, queues
  <1>3. Pipeline(pipe, off, nx)'
    BY <1>1, <1>2, QuietPipeline
  <1>4. unified' \in Seq(LogType) /\ buffer' \in Seq(LogType)
    <2>1. buffer # << >> /\ unified' = Append(unified, Head(buffer)) /\ buffer' = Tail(buffer)
          /\ buffer \in Seq(LogType) /\ unified \in Seq(LogType)
      BY DEF Deliver, Types
    <2>2. QED
      BY ONLY <2>1, TailFacts
  <1>5. Types'
    BY <1>2, <1>4 DEF Types
  <1>6. QED
    BY <1>2, <1>3, <1>5 DEF At, DeliverStep

LastOffset == IF unified = << >> THEN 0 ELSE Last(unified).offset

LEMMA LastOffsetType ==
  ASSUME Types
  PROVE  /\ LastOffset \in Nat
         /\ unified # << >> => LastOffset = unified[Len(unified)].offset
  <1>1. unified \in Seq(LogType)
    BY DEF Types
  <1>2. CASE unified = << >>
    BY <1>2 DEF LastOffset
  <1>3. CASE unified # << >>
    <2>1. Len(unified) \in 1 .. Len(unified) /\ Last(unified) = unified[Len(unified)]
      BY <1>1, <1>3 DEF Last
    <2>2. unified[Len(unified)] \in LogType
      BY <1>1, <2>1
    <2>3. QED
      BY <1>3, <2>1, <2>2 DEF LastOffset, LogType
  <1>4. QED
    BY <1>2, <1>3

LogTypes ==
  binlog \in Seq(MessageType) /\ unified \in Seq(LogType) /\ buffer \in Seq(LogType)

LEMMA FreshAt == Fresh /\ LogTypes => At(1) /\ Types
  BY FreshPipeline DEF LogTypes, At

LEMMA SeenRestart ==
  ASSUME Types, CrashRestart
  PROVE  Types' /\ At(1)' /\ RestartStep
  <1>1. RestartStep
    BY DEF CrashRestart, RestartStep
  <1>2. Fresh'
    <2>1. step2' = InitStep2(LastOffset)
      BY DEF CrashRestart, LastOffset
    <2>2. LastOffset \in Nat
      BY LastOffsetType
    <2>3. PICK last \in Nat : step2' = InitStep2(last)
      BY ONLY <2>1, <2>2
    <2>4. QED
      BY <2>3 DEF CrashRestart, Fresh, InitStep2, IdleStep1
  <1>3. LogTypes'
    <2>1. << >> \in Seq(LogType)
      OBVIOUS
    <2>2. QED
      BY <2>1 DEF CrashRestart, Types, LogTypes
  <1>4. At(1)' /\ Types'
    BY <1>2, <1>3, FreshAt, PTL
  <1>5. QED
    BY <1>1, <1>4

LEMMA SeenNext ==
  ASSUME Types, NEW nx, At(nx), [Next]_vars
  PROVE  Types' /\ \E nx1 : At(nx1)' /\ Seen(nx, nx1)
  <1>1. CASE UNCHANGED vars
    <2>1. UNCHANGED <<binlog, main, binlogQ, entryQ, countQ, step1, step2, unified, buffer>>
      BY <1>1 DEF vars
    <2>2. At(nx)'
      BY <2>1, QuietPipeline DEF At
    <2>3. Types'
      BY <2>1 DEF Types
    <2>4. QED
      BY <2>1, <2>2, <2>3 DEF Seen, QuietStep
  <1>2. CASE \E m \in Messages : BinlogAppend(m)
    BY <1>2, SeenAppend DEF Seen
  <1>3. CASE DealMessage \/ DealTimeout
    BY <1>3, SeenDeal DEF Seen
  <1>4. CASE \E t \in Threads : TakeMessage(t) \/ PushEntry(t) \/ PushCount(t)
    BY <1>4, SeenThread DEF Seen
  <1>5. CASE TakeCount
    BY <1>5, SeenCount DEF Seen
  <1>6. CASE TakeEntry \/ \E elapsed \in Clock : EndMessage(elapsed)
    BY <1>6, SeenCollect
  <1>7. CASE Deliver
    BY <1>7, SeenDeliver DEF Seen
  <1>8. CASE CrashRestart
    BY <1>8, SeenRestart DEF Seen
  <1>9. QED
    BY <1>1, <1>2, <1>3, <1>4, <1>5, <1>6, <1>7, <1>8 DEF Next

LEMMA SeenInit ==
  ASSUME Init
  PROVE  Types /\ At(1)
  <1>1. Fresh
    BY DEF Init, Fresh
  <1>2. binlog \in Seq(MessageType) /\ unified \in Seq(LogType) /\ buffer \in Seq(LogType)
    BY DEF Init
  <1>3. QED
    BY <1>1, <1>2, FreshPipeline DEF At

-----------------------------------------------------------------------------
(* What is written.  start[m] is how many logs the messages before m make,  *)
(* with the end of the initial snapshot.                                    *)

EndsSnapshot(m) == binlog[m].last /\ Entries[m] > 0

Size(m) == Entries[m] + (IF EndsSnapshot(m) THEN 1 ELSE 0)

Starts(start) ==
  /\ start \in [Nat -> Nat] /\ start[1] = 0
  /\ \A m \in DOMAIN binlog : start[m + 1] = start[m] + Size(m)
  /\ \A i, j \in 1 .. Len(binlog) + 1 : i <= j => start[i] <= start[j]

(* Part k of message m is there: an entry, or the end (part 0). *)
IsPart(m, k) ==
  m \in DOMAIN binlog /\ k \in 0 .. Entries[m] /\ (k = 0 => EndsSnapshot(m))

(* How far it is from the beginning of its message. *)
PlaceOf(m, k) == IF k = 0 THEN Entries[m] + 1 ELSE k

LogAt(start, u, i) ==
  /\ IsPart(u.msg, u.part) /\ i = start[u.msg] + PlaceOf(u.msg, u.part) /\ u.offset = i

Logs(start) == \A i \in 1 .. Len(Written) : LogAt(start, Written[i], i)

(* A new process passes over what the last unified log tells. *)
Window ==
  /\ Len(Written) = IF step2.processed_count < step2.last_processed_offset
                    THEN step2.last_processed_offset ELSE step2.processed_count
  /\ ~step2.catch_up_mode => step2.processed_count >= step2.last_processed_offset

(* Entries of message nx that are collected. *)
Done(nx) == IF Busy THEN Entries[nx] - step2.left ELSE 0

Reached(nx, start) ==
  /\ nx \in 1 .. Len(binlog) + 1
  /\ Busy => nx \in DOMAIN binlog /\ Entries[nx] > 0 /\ step2.left <= Entries[nx]
  /\ step2.processed_count = start[nx] + Done(nx)

Progress(nx, start) == Starts(start) /\ Logs(start) /\ Window /\ Reached(nx, start)

LEMMA WrittenFacts ==
  ASSUME Types
  PROVE  /\ Written \in Seq(LogType) /\ Len(Written) \in Nat
         /\ DOMAIN Written = 1 .. Len(Written)
         /\ Len(Written) = Len(unified) + Len(buffer)
         /\ \A i \in 1 .. Len(Written) : Written[i] \in LogType
         /\ \A i \in 1 .. Len(unified) : i \in 1 .. Len(Written) /\ Written[i] = unified[i]
         /\ Len(unified) \in Nat /\ Len(buffer) \in Nat
  <1>1. unified \in Seq(LogType) /\ buffer \in Seq(LogType)
    BY DEF Types
  <1>2. Written = unified \o buffer
    BY DEF Written
  <1>3. Written \in Seq(LogType)
    BY ONLY <1>1, <1>2
  <1>4. Len(Written) \in Nat /\ DOMAIN Written = 1 .. Len(Written)
        /\ Len(unified) \in Nat /\ Len(buffer) \in Nat
    BY ONLY <1>1, <1>3
  <1>5. Len(Written) = Len(unified) + Len(buffer)
    BY ONLY <1>1, <1>2
  <1>6. \A i \in 1 .. Len(Written) : Written[i] \in LogType
    BY ONLY <1>3
  <1>7. \A i \in 1 .. Len(unified) : Written[i] = unified[i]
    BY ONLY <1>1, <1>2
  <1>8. \A i \in 1 .. Len(unified) : i \in 1 .. Len(Written)
    BY ONLY <1>4, <1>5
  <1>9. QED
    BY ONLY <1>3, <1>4, <1>5, <1>6, <1>7, <1>8

(* Delivering a log moves it from the buffer to the unified log. *)
LEMMA DeliverWritten ==
  ASSUME Types, DeliverStep
  PROVE  Written' = Written
  <1>1. unified \in Seq(LogType) /\ buffer \in Seq(LogType) /\ buffer # << >>
        /\ unified' = Append(unified, Head(buffer)) /\ buffer' = Tail(buffer)
    BY DEF Types, DeliverStep, Deliver
  <1>2. Append(unified, Head(buffer)) \o Tail(buffer) = unified \o buffer
    <2>1. PICK u, b, x, t : u = unified /\ b = buffer /\ x = Head(b) /\ t = Tail(b)
      OBVIOUS
    <2>2. u \in Seq(LogType) /\ b \in Seq(LogType) /\ b # << >>
      BY <1>1, <2>1
    <2>3. x \in LogType /\ t \in Seq(LogType) /\ Len(t) = Len(b) - 1 /\ x = b[1]
          /\ \A i \in 1 .. Len(b) - 1 : t[i] = b[i + 1]
      BY ONLY <2>1, <2>2, TailFacts
    <2>4. /\ Append(u, x) \in Seq(LogType) /\ Len(Append(u, x)) = Len(u) + 1
          /\ \A i \in 1 .. Len(u) : Append(u, x)[i] = u[i]
          /\ Append(u, x)[Len(u) + 1] = x
      BY ONLY <2>2, <2>3, AppendFacts
    <2>5. PICK a : a = Append(u, x)
      OBVIOUS
    <2>6. a \o t \in Seq(LogType) /\ u \o b \in Seq(LogType)
          /\ Len(a \o t) = Len(a) + Len(t) /\ Len(u \o b) = Len(u) + Len(b)
      <3>1. a \in Seq(LogType) /\ t \in Seq(LogType) /\ u \in Seq(LogType) /\ b \in Seq(LogType)
        BY ONLY <2>2, <2>3, <2>4, <2>5
      <3>2. QED
        BY ONLY <3>1
    <2>7. Len(a \o t) = Len(u \o b) /\ Len(u \o b) \in Nat /\ Len(u) \in Nat /\ Len(b) \in Nat
          /\ Len(b) > 0
      BY ONLY <2>2, <2>3, <2>4, <2>5, <2>6
    <2>8. ASSUME NEW i \in 1 .. Len(u \o b) PROVE (a \o t)[i] = (u \o b)[i]
      <3>1. CASE i \in 1 .. Len(u)
        BY ONLY <2>2, <2>3, <2>4, <2>5, <3>1
      <3>2. CASE i = Len(u) + 1
        BY ONLY <2>2, <2>3, <2>4, <2>5, <2>7, <3>2
      <3>3. CASE i \in Len(u) + 2 .. Len(u \o b)
        <4>1. (a \o t)[i] = t[i - Len(u) - 1]
          BY ONLY <2>3, <2>4, <2>5, <2>6, <2>7, <3>3
        <4>2. (u \o b)[i] = b[i - Len(u)]
          BY ONLY <2>2, <2>6, <2>7, <3>3
        <4>3. i - Len(u) - 1 \in 1 .. Len(b) - 1 /\ (i - Len(u) - 1) + 1 = i - Len(u)
          BY ONLY <2>6, <2>7, <3>3
        <4>4. QED
          BY ONLY <2>3, <4>1, <4>2, <4>3
      <3>4. QED
        BY ONLY <2>7, <3>1, <3>2, <3>3, i \in 1 .. Len(u \o b), SMTT(30)
    <2>9. QED
      BY ONLY <2>1, <2>5, <2>6, <2>7, <2>8
  <1>3. QED
    BY <1>1, <1>2 DEF Written

(* A log is counted, and written unless the last process wrote it. *)
WriteStep(u) ==
  /\ u \in LogType /\ u.offset = step2.processed_count + 1
  /\ UNCHANGED unified
  /\ buffer' = IF CatchUp(step2) THEN buffer ELSE Append(buffer, u)
  /\ step2'.processed_count = step2.processed_count + 1
  /\ step2'.last_processed_offset = step2.last_processed_offset
  /\ step2'.catch_up_mode = CatchUp(step2)

LEMMA WriteFacts ==
  ASSUME Types, Window, NEW u, WriteStep(u)
  PROVE  /\ Window'
         /\ \/ Written' = Written /\ step2.processed_count + 1 <= Len(Written)
            \/ /\ Written' = Append(Written, u) /\ step2.processed_count = Len(Written)
               /\ Len(Written') = Len(Written) + 1 /\ Written'[Len(Written) + 1] = u
               /\ \A i \in 1 .. Len(Written) : Written'[i] = Written[i]
  <1>1. PICK p, last, n, c : /\ p = step2.processed_count /\ last = step2.last_processed_offset
                             /\ n = Len(Written) /\ c = step2.catch_up_mode
    OBVIOUS
  <1>2. p \in Nat /\ last \in Nat /\ n \in Nat /\ c \in BOOLEAN
    <2>1. step2 \in Step2Type
      BY DEF Types
    <2>2. step2.processed_count \in Nat /\ step2.last_processed_offset \in Nat
          /\ step2.catch_up_mode \in BOOLEAN
      BY ONLY <2>1 DEF Step2Type
    <2>3. QED
      BY <1>1, <2>2, WrittenFacts
  <1>3. n = (IF p < last THEN last ELSE p) /\ (~c => p >= last)
    BY ONLY <1>1, Window DEF Window
  <1>4. CatchUp(step2) <=> c /\ p < last
    BY <1>1 DEF CatchUp
  <1>5. /\ step2'.processed_count = p + 1 /\ step2'.last_processed_offset = last
        /\ step2'.catch_up_mode = CatchUp(step2)
    BY ONLY <1>1, WriteStep(u) DEF WriteStep
  <1>6. CASE CatchUp(step2)
    <2>1. Written' = Written
      BY <1>6 DEF WriteStep, Written
    <2>2. p + 1 <= last /\ n = last
      BY ONLY <1>2, <1>3, <1>4, <1>6
    <2>3. Len(Written') = n /\ step2'.catch_up_mode
      BY <1>1, <1>5, <1>6, <2>1
    <2>4. n = IF p + 1 < last THEN last ELSE p + 1
      BY ONLY <1>2, <2>2
    <2>5. Window'
      BY ONLY <1>5, <2>3, <2>4 DEF Window
    <2>6. QED
      BY ONLY <1>1, <2>1, <2>2, <2>5
  <1>7. CASE ~CatchUp(step2)
    <2>1. Written \in Seq(LogType) /\ u \in LogType
      BY WrittenFacts DEF WriteStep
    <2>2. Written' = Append(Written, u)
      <3>1. unified \in Seq(LogType) /\ buffer \in Seq(LogType)
        BY DEF Types
      <3>2. unified' = unified /\ buffer' = Append(buffer, u)
        BY <1>7 DEF WriteStep
      <3>3. unified \o Append(buffer, u) = Append(unified \o buffer, u)
        BY ONLY <2>1, <3>1
      <3>4. QED
        BY <3>2, <3>3 DEF Written
    <2>3. /\ Len(Written') = Len(Written) + 1 /\ Written'[Len(Written) + 1] = u
          /\ \A i \in 1 .. Len(Written) : Written'[i] = Written[i]
      BY ONLY <2>1, <2>2, AppendFacts
    <2>4. p >= last /\ n = p
      BY ONLY <1>2, <1>3, <1>4, <1>7
    <2>5. n + 1 = (IF p + 1 < last THEN last ELSE p + 1) /\ p + 1 >= last
      BY ONLY <1>2, <2>4
    <2>6. Window'
      BY ONLY <1>1, <1>5, <2>3, <2>5 DEF Window
    <2>7. QED
      BY ONLY <1>1, <2>2, <2>3, <2>4, <2>6
  <1>8. QED
    BY ONLY <1>6, <1>7

LEMMA SameLog ==
  ASSUME NEW start, UNCHANGED binlog
  PROVE  /\ Entries' = Entries
         /\ \A m : EndsSnapshot(m)' = EndsSnapshot(m) /\ Size(m)' = Size(m)
         /\ Starts(start) => Starts(start)'
         /\ \A u, i : LogAt(start, u, i)' = LogAt(start, u, i)
  <1>1. Entries' = Entries
    BY DEF Entries
  <1>2. \A m : EndsSnapshot(m)' = EndsSnapshot(m)
    BY <1>1 DEF EndsSnapshot
  <1>3. \A m : Size(m)' = Size(m)
    BY <1>1, <1>2 DEF Size
  <1>4. Starts(start) => Starts(start)'
    BY <1>3 DEF Starts
  <1>5. \A u, i : LogAt(start, u, i)' = LogAt(start, u, i)
    BY <1>1, <1>2 DEF LogAt, IsPart, PlaceOf
  <1>6. QED
    BY <1>1, <1>2, <1>3, <1>4, <1>5

(* Messages' parts: all entries, and the end. *)
LEMMA PartFacts ==
  ASSUME Types, NEW start, Starts(start), NEW m \in DOMAIN binlog
  PROVE  /\ m \in Nat /\ m >= 1 /\ m <= Len(binlog) /\ Len(binlog) \in Nat
         /\ Entries[m] \in Nat /\ EndsSnapshot(m) \in BOOLEAN
         /\ start[m] \in Nat /\ start[m + 1] \in Nat
         /\ EndsSnapshot(m) => Entries[m] > 0 /\ start[m + 1] = start[m] + Entries[m] + 1
         /\ ~EndsSnapshot(m) => start[m + 1] = start[m] + Entries[m]
         /\ \A k : IsPart(m, k) => PlaceOf(m, k) \in Nat /\ PlaceOf(m, k) >= 1
                                   /\ start[m] + PlaceOf(m, k) <= start[m + 1]
  <1>1. m \in Nat /\ m >= 1 /\ m <= Len(binlog) /\ Len(binlog) \in Nat
    BY BinlogFacts
  <1>2. Entries[m] \in Nat /\ binlog[m].last \in BOOLEAN
    BY BinlogFacts
  <1>3. EndsSnapshot(m) \in BOOLEAN /\ (EndsSnapshot(m) => Entries[m] > 0)
    BY <1>2 DEF EndsSnapshot
  <1>4. start[m] \in Nat /\ start[m + 1] \in Nat /\ start[m + 1] = start[m] + Size(m)
    <2>1. start \in [Nat -> Nat] /\ start[m + 1] = start[m] + Size(m)
      BY DEF Starts
    <2>2. m + 1 \in Nat
      BY ONLY <1>1
    <2>3. QED
      BY ONLY <1>1, <2>1, <2>2
  <1>5. PICK a, b, e, n : a = start[m] /\ b = start[m + 1] /\ e = Entries[m] /\ n = Size(m)
    OBVIOUS
  <1>6. a \in Nat /\ b \in Nat /\ e \in Nat /\ b = a + n
        /\ (EndsSnapshot(m) => n = e + 1) /\ (~EndsSnapshot(m) => n = e)
    BY <1>2, <1>4, <1>5 DEF Size
  <1>7. /\ EndsSnapshot(m) => b = a + e + 1
        /\ ~EndsSnapshot(m) => b = a + e
    BY ONLY <1>6
  <1>8. ASSUME NEW k, IsPart(m, k)
        PROVE  PlaceOf(m, k) \in Nat /\ PlaceOf(m, k) >= 1
               /\ start[m] + PlaceOf(m, k) <= start[m + 1]
    <2>1. k \in 0 .. e /\ (k = 0 => EndsSnapshot(m))
      BY ONLY <1>5, <1>8 DEF IsPart
    <2>2. PlaceOf(m, k) = IF k = 0 THEN e + 1 ELSE k
      BY ONLY <1>5 DEF PlaceOf
    <2>3. PICK q : q = PlaceOf(m, k)
      OBVIOUS
    <2>4. q = IF k = 0 THEN e + 1 ELSE k
      BY ONLY <2>2, <2>3
    <2>5. q \in Nat /\ q >= 1 /\ a + q <= b
      BY ONLY <1>6, <1>7, <2>1, <2>4
    <2>6. QED
      BY ONLY <1>5, <2>3, <2>5
  <1>9. QED
    BY ONLY <1>1, <1>2, <1>3, <1>4, <1>5, <1>7, <1>8

LEMMA ProgressQuiet ==
  ASSUME Types, NEW nx, NEW start, Progress(nx, start), QuietStep \/ DeliverStep
  PROVE  Progress(nx, start)'
  <1>1. UNCHANGED <<binlog, step2>>
    BY DEF QuietStep, DeliverStep
  <1>2. Written' = Written
    <2>1. CASE QuietStep
      BY <2>1 DEF QuietStep, Written
    <2>2. CASE DeliverStep
      BY <2>2, DeliverWritten
    <2>3. QED
      BY <2>1, <2>2
  <1>3. Starts(start)' /\ Logs(start)' /\ Window'
    BY <1>1, <1>2, SameLog DEF Progress, Logs, Window
  <1>4. Reached(nx, start)'
    BY <1>1, SameLog DEF Progress, Reached, Done, Busy
  <1>5. QED
    BY <1>3, <1>4 DEF Progress

LEMMA ProgressCount ==
  ASSUME Types, Types', NEW nx, NEW nx1, NEW start, Progress(nx, start), CountStep(nx, nx1)
  PROVE  Progress(nx1, start)'
  <1>1. UNCHANGED <<binlog, unified, buffer>> /\ ~Busy /\ SameCounters(step2, step2')
    BY DEF CountStep
  <1>2. Written' = Written
    BY <1>1 DEF Written
  <1>3. Starts(start)' /\ Logs(start)' /\ Window'
    BY <1>1, <1>2, SameLog DEF Progress, Logs, Window, SameCounters
  <1>4. /\ nx \in 1 .. Len(binlog) + 1 /\ step2.processed_count = start[nx] + 0
    BY <1>1 DEF Progress, Reached, Done
  <1>5. start[nx] \in Nat /\ step2'.processed_count = start[nx] /\ Starts(start)
    BY <1>1, <1>4 DEF Progress, Starts, SameCounters
  <1>6. CASE step2'.left = 0 /\ step2'.msg = 0
    <2>1. ~Busy'
      BY <1>6 DEF Busy
    <2>2. nx1 \in 1 .. Len(binlog) + 1 /\ start[nx1] = start[nx]
      <3>1. CASE nx1 = nx
        BY <1>4, <3>1
      <3>2. CASE nx1 = nx + 1 /\ nx \in DOMAIN binlog /\ Entries[nx] = 0
        <4>1. ~EndsSnapshot(nx) /\ nx \in Nat /\ nx <= Len(binlog) /\ Len(binlog) \in Nat
              /\ nx >= 1
          BY <1>5, <3>2, PartFacts DEF EndsSnapshot
        <4>2. start[nx + 1] = start[nx] + Entries[nx]
          BY <1>5, <3>2, <4>1, PartFacts
        <4>3. QED
          BY ONLY <1>5, <3>2, <4>1, <4>2
      <3>3. CASE Entries[nx] > 0 /\ step2'.left = Entries[nx]
        <4>1. FALSE
          BY ONLY <1>6, <3>3
        <4>2. QED
          BY <4>1
      <3>4. QED
        BY <3>1, <3>2, <3>3 DEF CountStep
    <2>3. Reached(nx1, start)'
      BY <1>1, <1>5, <2>1, <2>2 DEF Reached, Done
    <2>4. QED
      BY <1>3, <2>3 DEF Progress
  <1>7. CASE nx1 = nx /\ nx \in DOMAIN binlog /\ Entries[nx] > 0 /\ step2'.left = Entries[nx]
    <2>1. Entries[nx] \in Nat /\ Entries' = Entries
      BY <1>1, <1>5, <1>7, PartFacts, SameLog
    <2>2. Entries[nx] - step2'.left = 0 /\ step2'.left <= Entries[nx]
      BY ONLY <1>7, <2>1
    <2>3. Busy'
      BY ONLY <1>7 DEF Busy
    <2>4. Done(nx)' = 0
      BY ONLY <2>1, <2>2, <2>3 DEF Done
    <2>5. step2'.processed_count = start[nx] + Done(nx)'
      BY ONLY <1>5, <2>4
    <2>6. Reached(nx1, start)'
      BY <1>1, <1>4, <1>7, <2>1, <2>2, <2>5 DEF Reached
    <2>7. QED
      BY <1>3, <2>6 DEF Progress
  <1>8. QED
    BY <1>6, <1>7 DEF CountStep

(* A log written at the position the collecting thread has reached. *)
LEMMA ProgressWrite ==
  ASSUME Types, Types', NEW start, Starts(start), Logs(start), Window, UNCHANGED binlog,
         NEW u, WriteStep(u), LogAt(start, u, step2.processed_count + 1)
  PROVE  Starts(start)' /\ Logs(start)' /\ Window'
  <1>1. Starts(start)'
    BY SameLog
  <1>2. Window'
    BY WriteFacts
  <1>3. CASE Written' = Written
    <2>1. \A i \in 1 .. Len(Written) : LogAt(start, Written[i], i)'
      BY SameLog, <1>3 DEF Logs
    <2>2. QED
      BY <1>1, <1>2, <1>3, <2>1 DEF Logs
  <1>4. CASE /\ Written' = Append(Written, u) /\ step2.processed_count = Len(Written)
             /\ Len(Written') = Len(Written) + 1 /\ Written'[Len(Written) + 1] = u
             /\ \A i \in 1 .. Len(Written) : Written'[i] = Written[i]
    <2>1. PICK n : n = Len(Written)
      OBVIOUS
    <2>2. n \in Nat /\ Len(Written') = n + 1 /\ Written'[n + 1] = u
      BY <1>4, <2>1, WrittenFacts
    <2>3. \A i \in 1 .. n : LogAt(start, Written'[i], i)
      BY <1>4, <2>1 DEF Logs
    <2>4. LogAt(start, u, n + 1)
      BY <1>4, <2>1
    <2>5. ASSUME NEW i \in 1 .. n + 1 PROVE LogAt(start, Written'[i], i)
      <3>1. i \in 1 .. n \/ i = n + 1
        BY ONLY <2>2, i \in 1 .. n + 1
      <3>2. QED
        BY ONLY <2>2, <2>3, <2>4, <3>1
    <2>6. \A i \in 1 .. Len(Written') : LogAt(start, Written'[i], i)
      BY ONLY <2>2, <2>5
    <2>7. ASSUME NEW i \in 1 .. Len(Written') PROVE LogAt(start, Written[i], i)'
      <3>1. LogAt(start, Written'[i], i)
        BY ONLY <2>6, i \in 1 .. Len(Written')
      <3>2. Entries' = Entries /\ \A m : EndsSnapshot(m)' = EndsSnapshot(m)
        BY SameLog
      <3>3. QED
        BY ONLY <3>1, <3>2, UNCHANGED binlog DEF LogAt, IsPart, PlaceOf
    <2>8. QED
      BY <1>1, <1>2, <2>7 DEF Logs
  <1>5. QED
    BY <1>3, <1>4, WriteFacts

LEMMA EntryWrites ==
  ASSUME Types, NEW nx, NEW k, NEW g, EntryStep(nx, k, g)
  PROVE  /\ WriteStep(LogOf([msg |-> nx, part |-> k], g))
         /\ UNCHANGED <<binlog, unified>>
  <1>1. PICK u : u = LogOf([msg |-> nx, part |-> k], g)
    OBVIOUS
  <1>2. /\ nx \in Nat /\ k \in Nat /\ g \in Seq(GidType)
    <2>1. nx \in DOMAIN binlog /\ k \in 1 .. Entries[nx] /\ g \in Seq(GidType)
      BY DEF EntryStep
    <2>2. nx \in Nat
      BY <2>1, BinlogFacts
    <2>3. QED
      BY ONLY <2>1, <2>2
  <1>3. step2.epoch \in Int /\ step2.processed_count + 1 \in Nat
    <2>1. step2 \in Step2Type
      BY DEF Types
    <2>2. step2.epoch \in Int /\ step2.processed_count \in Nat
      BY ONLY <2>1 DEF Step2Type
    <2>3. QED
      BY ONLY <2>2
  <1>4. u = [msg |-> nx, part |-> k, epoch |-> step2.epoch,
             offset |-> step2.processed_count + 1, gids |-> g]
    BY <1>1 DEF LogOf
  <1>5. u \in LogType /\ u.offset = step2.processed_count + 1
    BY ONLY <1>2, <1>3, <1>4 DEF LogType
  <1>6. QED
    BY <1>1, <1>5 DEF EntryStep, WriteStep

(* The entry that is taken is the one whose turn it is. *)
LEMMA EntryPlace ==
  ASSUME Types, NEW nx, NEW start, Progress(nx, start), NEW k, NEW g, EntryStep(nx, k, g),
         NEW u, u = LogOf([msg |-> nx, part |-> k], g)
  PROVE  /\ LogAt(start, u, step2.processed_count + 1)
         /\ Busy /\ Busy' /\ Entries[nx] > 0 /\ step2'.left <= Entries[nx]
         /\ step2'.processed_count = start[nx] + (Entries[nx] - step2'.left)
  <1>1. /\ nx \in DOMAIN binlog /\ k = Entries[nx] - step2.left + 1 /\ k \in 1 .. Entries[nx]
        /\ step2.left > 0 /\ step2'.left = step2.left - 1 /\ step2'.msg = nx
        /\ step2'.processed_count = step2.processed_count + 1
    BY DEF EntryStep
  <1>2. Starts(start) /\ Reached(nx, start)
    BY DEF Progress
  <1>3. /\ nx \in Nat /\ nx >= 1 /\ Entries[nx] \in Nat /\ start[nx] \in Nat
        /\ step2.left \in Nat
    <2>1. step2.left \in Nat
      BY StateTypes
    <2>2. QED
      BY <1>1, <1>2, <2>1, PartFacts
  <1>4. PICK a, e, l, p : /\ a = start[nx] /\ e = Entries[nx] /\ l = step2.left
                          /\ p = step2.processed_count
    OBVIOUS
  <1>5. Busy /\ Busy'
    <2>1. nx # 0
      BY ONLY <1>3
    <2>2. QED
      BY <1>1, <2>1 DEF Busy
  <1>6. /\ p = a + (e - l) /\ l \in Nat /\ l > 0 /\ l <= e /\ e \in Nat
        /\ a \in Nat /\ k = e - l + 1 /\ step2'.left = l - 1
        /\ step2'.processed_count = p + 1
    BY ONLY <1>1, <1>2, <1>3, <1>4, <1>5 DEF Reached, Done
  <1>7. LogAt(start, u, step2.processed_count + 1)
    <2>1. u.msg = nx /\ u.part = k /\ u.offset = p + 1
      BY <1>4 DEF LogOf
    <2>2. k # 0 /\ k \in 0 .. e /\ p + 1 = a + k
      BY ONLY <1>6
    <2>3. IsPart(nx, k) /\ PlaceOf(nx, k) = k
      BY ONLY <1>1, <1>4, <2>2 DEF IsPart, PlaceOf
    <2>4. QED
      BY ONLY <1>4, <2>1, <2>2, <2>3 DEF LogAt
  <1>8. /\ e > 0 /\ step2'.left <= e /\ step2'.processed_count = a + (e - step2'.left)
    BY ONLY <1>6
  <1>9. QED
    BY ONLY <1>4, <1>5, <1>7, <1>8

LEMMA ProgressEntry ==
  ASSUME Types, Types', NEW nx, NEW start, Progress(nx, start),
         NEW k, NEW g, EntryStep(nx, k, g)
  PROVE  Progress(nx, start)'
  <1>1. PICK u : u = LogOf([msg |-> nx, part |-> k], g)
    OBVIOUS
  <1>2. WriteStep(u) /\ UNCHANGED binlog
    BY <1>1, EntryWrites
  <1>3. Starts(start) /\ Logs(start) /\ Window /\ Reached(nx, start)
    BY DEF Progress
  <1>4. /\ LogAt(start, u, step2.processed_count + 1)
        /\ Busy' /\ Entries[nx] > 0 /\ step2'.left <= Entries[nx]
        /\ step2'.processed_count = start[nx] + (Entries[nx] - step2'.left)
    BY <1>1, EntryPlace
  <1>5. Starts(start)' /\ Logs(start)' /\ Window'
    BY <1>2, <1>3, <1>4, ProgressWrite
  <1>6. Reached(nx, start)'
    <2>1. Entries' = Entries /\ nx \in 1 .. Len(binlog) + 1 /\ nx \in DOMAIN binlog
      BY <1>2, <1>3, SameLog DEF Reached, EntryStep
    <2>2. Done(nx)' = Entries[nx] - step2'.left
      BY ONLY <1>4, <2>1 DEF Done
    <2>3. QED
      BY <1>2, <1>4, <2>1, <2>2 DEF Reached
  <1>7. QED
    BY <1>5, <1>6 DEF Progress

LEMMA EndWrites ==
  ASSUME Types, NEW nx, EndStep(nx)
  PROVE  /\ UNCHANGED <<binlog, unified>>
         /\ EndsSnapshot(nx) => WriteStep(EndLog)
         /\ ~EndsSnapshot(nx) =>
              /\ UNCHANGED buffer /\ step2'.processed_count = step2.processed_count
              /\ step2'.last_processed_offset = step2.last_processed_offset
              /\ step2'.catch_up_mode = step2.catch_up_mode
  <1>1. /\ nx \in DOMAIN binlog /\ Entries[nx] > 0 /\ step2.msg = nx
        /\ UNCHANGED <<binlog, unified>>
    BY DEF EndStep
  <1>2. binlog[nx].last \in BOOLEAN /\ EndsSnapshot(nx) = binlog[nx].last
    <2>1. binlog[nx].last \in BOOLEAN
      BY <1>1, BinlogFacts
    <2>2. QED
      BY ONLY <1>1, <2>1 DEF EndsSnapshot
  <1>3. EndLog \in LogType
    <2>1. step2 \in Step2Type
      BY DEF Types
    <2>2. step2.msg \in Nat /\ step2.processed_count \in Nat
      BY ONLY <2>1 DEF Step2Type
    <2>3. QED
      BY ONLY <2>2 DEF EndLog, LogType
  <1>4. EndLog.offset = step2.processed_count + 1
    BY DEF EndLog
  <1>5. CASE EndsSnapshot(nx)
    <2>1. /\ step2'.processed_count = step2.processed_count + 1
          /\ step2'.last_processed_offset = step2.last_processed_offset
          /\ step2'.catch_up_mode = CatchUp(step2)
          /\ buffer' = IF ~CatchUp(step2) THEN Append(buffer, EndLog) ELSE buffer
      BY <1>2, <1>5 DEF EndStep
    <2>2. QED
      BY <1>1, <1>3, <1>4, <1>5, <2>1 DEF WriteStep
  <1>6. CASE ~EndsSnapshot(nx)
    <2>1. step2.processed_count \in Nat
      <3>1. step2 \in Step2Type
        BY DEF Types
      <3>2. QED
        BY ONLY <3>1 DEF Step2Type
    <2>2. step2'.processed_count = step2.processed_count + 0
          /\ step2'.last_processed_offset = step2.last_processed_offset
          /\ step2'.catch_up_mode = step2.catch_up_mode /\ buffer' = buffer
      BY <1>2, <1>6 DEF EndStep
    <2>3. QED
      BY <1>1, <1>6, <2>1, <2>2
  <1>7. QED
    BY <1>5, <1>6

LEMMA EndPlace ==
  ASSUME Types, NEW nx, NEW start, Progress(nx, start), EndStep(nx)
  PROVE  /\ nx + 1 \in 1 .. Len(binlog) + 1 /\ ~Busy'
         /\ EndsSnapshot(nx) =>
              /\ LogAt(start, EndLog, step2.processed_count + 1)
              /\ step2.processed_count + 1 = start[nx + 1]
         /\ ~EndsSnapshot(nx) => step2.processed_count = start[nx + 1]
  <1>1. Starts(start) /\ Reached(nx, start)
    BY DEF Progress
  <1>2. /\ nx \in DOMAIN binlog /\ Entries[nx] > 0 /\ step2.left = 0 /\ step2.msg = nx
        /\ step2'.left = 0 /\ step2'.msg = 0
    BY DEF EndStep
  <1>3. /\ nx \in Nat /\ nx >= 1 /\ nx <= Len(binlog) /\ Len(binlog) \in Nat
        /\ Entries[nx] \in Nat /\ start[nx] \in Nat
        /\ EndsSnapshot(nx) => start[nx + 1] = start[nx] + Entries[nx] + 1
        /\ ~EndsSnapshot(nx) => start[nx + 1] = start[nx] + Entries[nx]
    BY <1>1, <1>2, PartFacts
  <1>4. Busy /\ ~Busy'
    <2>1. nx # 0
      BY ONLY <1>3
    <2>2. QED
      BY <1>2, <2>1 DEF Busy
  <1>5. step2.processed_count = start[nx] + Entries[nx]
    <2>1. Entries[nx] - step2.left = Entries[nx]
      BY ONLY <1>2, <1>3
    <2>2. QED
      BY ONLY <1>1, <1>4, <2>1 DEF Reached, Done
  <1>6. nx + 1 \in 1 .. Len(binlog) + 1
    BY ONLY <1>3
  <1>7. ASSUME EndsSnapshot(nx)
        PROVE  /\ LogAt(start, EndLog, step2.processed_count + 1)
               /\ step2.processed_count + 1 = start[nx + 1]
    <2>1. PICK a, e, b, p : /\ a = start[nx] /\ e = Entries[nx] /\ b = start[nx + 1]
                            /\ p = step2.processed_count
      OBVIOUS
    <2>2. a \in Nat /\ e \in Nat /\ b = a + e + 1 /\ p = a + e
      BY ONLY <1>3, <1>5, <1>7, <2>1
    <2>3. p + 1 = b /\ p + 1 = a + (e + 1) /\ 0 \in 0 .. e
      BY ONLY <2>2
    <2>4. EndLog.msg = nx /\ EndLog.part = 0 /\ EndLog.offset = p + 1
      BY <1>2, <2>1 DEF EndLog
    <2>5. IsPart(nx, 0) /\ PlaceOf(nx, 0) = e + 1
      BY ONLY <1>2, <1>7, <2>1, <2>3 DEF IsPart, PlaceOf
    <2>6. QED
      BY ONLY <2>1, <2>3, <2>4, <2>5 DEF LogAt
  <1>8. QED
    BY ONLY <1>3, <1>4, <1>5, <1>6, <1>7

LEMMA ProgressEnd ==
  ASSUME Types, Types', NEW nx, NEW start, Progress(nx, start), EndStep(nx)
  PROVE  Progress(nx + 1, start)'
  <1>1. Starts(start) /\ Logs(start) /\ Window
    BY DEF Progress
  <1>2. /\ nx + 1 \in 1 .. Len(binlog) + 1 /\ ~Busy'
        /\ EndsSnapshot(nx) =>
             /\ LogAt(start, EndLog, step2.processed_count + 1)
             /\ step2.processed_count + 1 = start[nx + 1]
        /\ ~EndsSnapshot(nx) => step2.processed_count = start[nx + 1]
    BY EndPlace
  <1>3. UNCHANGED binlog /\ nx + 1 \in 1 .. Len(binlog') + 1
    BY <1>2, EndWrites
  <1>4. start[nx + 1] = start[nx + 1] + 0
    <2>1. start \in [Nat -> Nat]
      BY ONLY <1>1 DEF Starts
    <2>2. PICK m : m = nx + 1
      OBVIOUS
    <2>3. PICK n \in Nat : n = Len(binlog)
      BY BinlogFacts
    <2>4. m \in 1 .. n + 1
      BY ONLY <1>2, <2>2, <2>3
    <2>5. m \in Nat
      BY ONLY <2>3, <2>4
    <2>6. start[m] \in Nat
      BY ONLY <2>1, <2>5
    <2>7. QED
      BY ONLY <2>2, <2>6
  <1>5. CASE EndsSnapshot(nx)
    <2>1. WriteStep(EndLog)
      BY <1>5, EndWrites
    <2>2. LogAt(start, EndLog, step2.processed_count + 1)
      BY ONLY <1>2, <1>5
    <2>3. Starts(start)' /\ Logs(start)' /\ Window'
      BY <1>1, <1>3, <2>1, <2>2, ProgressWrite
    <2>4. step2'.processed_count = start[nx + 1] + 0
      BY ONLY <1>2, <1>4, <1>5, <2>1 DEF WriteStep
    <2>5. QED
      BY ONLY <1>2, <1>3, <2>3, <2>4 DEF Progress, Reached, Done
  <1>6. CASE ~EndsSnapshot(nx)
    <2>1. /\ UNCHANGED <<binlog, unified, buffer>>
          /\ step2'.processed_count = step2.processed_count
          /\ step2'.last_processed_offset = step2.last_processed_offset
          /\ step2'.catch_up_mode = step2.catch_up_mode
      BY <1>6, EndWrites
    <2>2. Written' = Written
      BY <2>1 DEF Written
    <2>3. Starts(start)' /\ Logs(start)' /\ Window'
      BY <1>1, <2>1, <2>2, SameLog DEF Logs, Window
    <2>4. step2'.processed_count = start[nx + 1] + 0
      BY ONLY <1>2, <1>4, <1>6, <2>1
    <2>5. QED
      BY ONLY <1>2, <1>3, <2>3, <2>4 DEF Progress, Reached, Done
  <1>7. QED
    BY <1>5, <1>6

LEMMA RestartOffset ==
  ASSUME Types, NEW start, Logs(start)
  PROVE  LastOffset = Len(unified)
  <1>1. CASE unified = << >>
    BY <1>1 DEF LastOffset
  <1>2. CASE unified # << >>
    <2>1. Len(unified) \in 1 .. Len(unified)
      <3>1. unified \in Seq(LogType)
        BY DEF Types
      <3>2. QED
        BY ONLY <1>2, <3>1
    <2>2. Len(unified) \in 1 .. Len(Written) /\ Written[Len(unified)] = unified[Len(unified)]
      BY <2>1, WrittenFacts
    <2>3. unified[Len(unified)].offset = Len(unified)
      BY <2>2 DEF Logs, LogAt
    <2>4. QED
      BY <1>2, <2>3, LastOffsetType
  <1>3. QED
    BY <1>1, <1>2

LEMMA RestartFacts ==
  ASSUME Types, RestartStep, NEW start, Logs(start)
  PROVE  /\ UNCHANGED <<binlog, unified>> /\ Written' = unified
         /\ step2' = InitStep2(Len(unified)) /\ Len(unified) \in Nat
         /\ ~Busy'
  <1>1. step2' = InitStep2(LastOffset)
    BY DEF RestartStep, LastOffset
  <1>2. step2' = InitStep2(Len(unified)) /\ Len(unified) \in Nat
    BY <1>1, RestartOffset, WrittenFacts
  <1>3. step2'.left = 0 /\ step2'.msg = 0
    BY <1>2, InitStep2Facts
  <1>4. Written' = unified
    <2>1. unified \in Seq(LogType)
      BY DEF Types
    <2>2. unified \o << >> = unified
      BY ONLY <2>1
    <2>3. QED
      BY <2>2 DEF RestartStep, Written
  <1>5. QED
    BY <1>2, <1>3, <1>4 DEF RestartStep, Busy

LEMMA ProgressRestart ==
  ASSUME Types, NEW nx, NEW start, Progress(nx, start), RestartStep
  PROVE  Progress(1, start)'
  <1>1. Starts(start) /\ Logs(start)
    BY DEF Progress
  <1>2. /\ UNCHANGED <<binlog, unified>> /\ Written' = unified
        /\ step2' = InitStep2(Len(unified)) /\ Len(unified) \in Nat
        /\ ~Busy'
    BY <1>1, RestartFacts
  <1>3. /\ step2'.processed_count = 0 /\ step2'.last_processed_offset = Len(unified)
        /\ step2'.catch_up_mode = TRUE
    BY <1>2, InitStep2Facts
  <1>4. Window'
    <2>1. PICK n : n = Len(unified)
      OBVIOUS
    <2>2. n = IF 0 < n THEN n ELSE 0
      BY ONLY <1>2, <2>1
    <2>3. Len(Written') = n
      BY <1>2, <2>1
    <2>4. QED
      BY ONLY <1>3, <2>1, <2>2, <2>3 DEF Window
  <1>5. Starts(start)'
    BY <1>1, <1>2, SameLog
  <1>6. Logs(start)'
    <2>1. ASSUME NEW i \in 1 .. Len(unified) PROVE LogAt(start, unified[i], i)
      BY <1>1, WrittenFacts DEF Logs
    <2>2. ASSUME NEW i \in 1 .. Len(Written') PROVE LogAt(start, Written[i], i)'
      BY <1>2, <2>1, SameLog
    <2>3. QED
      BY <2>2 DEF Logs
  <1>7. Reached(1, start)'
    <2>1. 1 \in 1 .. Len(binlog') + 1
      BY <1>2, BinlogFacts
    <2>2. step2'.processed_count = start[1] + 0
      BY <1>1, <1>3 DEF Starts
    <2>3. QED
      BY ONLY <1>2, <2>1, <2>2 DEF Reached, Done
  <1>8. QED
    BY <1>4, <1>5, <1>6, <1>7 DEF Progress

LEMMA LogGrows ==
  ASSUME Types, NEW m \in Messages, AppendStep(m)
  PROVE  /\ Len(binlog') = Len(binlog) + 1 /\ DOMAIN binlog' = 1 .. Len(binlog) + 1
         /\ Len(binlog) \in Nat /\ DOMAIN binlog = 1 .. Len(binlog)
         /\ \A i \in DOMAIN binlog :
              /\ binlog'[i] = binlog[i] /\ Entries'[i] = Entries[i]
              /\ EndsSnapshot(i)' = EndsSnapshot(i) /\ Size(i)' = Size(i)
         /\ Entries'[Len(binlog) + 1] = Len(m.ents) /\ Len(m.ents) \in Nat
         /\ binlog'[Len(binlog) + 1].ents = m.ents /\ binlog'[Len(binlog) + 1].last = m.last
         /\ binlog'[Len(binlog) + 1].tx = LastTx + (IF m.newtx THEN 1 ELSE 0)
         /\ \A n : n = Len(binlog) + 1 => Size(n)' \in Nat
         /\ UNCHANGED <<unified, buffer, step2>>
  <1>1. PICK x \in MessageType :
           /\ binlog' = Append(binlog, x)
           /\ x.ents = m.ents /\ x.last = m.last
           /\ x.tx = LastTx + (IF m.newtx THEN 1 ELSE 0)
           /\ Len(binlog') = Len(binlog) + 1 /\ DOMAIN binlog \subseteq DOMAIN binlog'
           /\ binlog'[Len(binlog) + 1] = x
           /\ \A i \in DOMAIN binlog : binlog'[i] = binlog[i] /\ Entries'[i] = Entries[i]
           /\ Entries'[Len(binlog) + 1] = Len(x.ents)
    BY LogFacts DEF AppendStep
  <1>2. binlog \in Seq(MessageType) /\ Len(binlog) \in Nat /\ DOMAIN binlog = 1 .. Len(binlog)
    BY DEF Types
  <1>3. DOMAIN binlog' = 1 .. Len(binlog) + 1
    <2>1. binlog' \in Seq(MessageType)
      BY ONLY <1>1, <1>2
    <2>2. QED
      BY ONLY <1>1, <2>1
  <1>4. \A i \in DOMAIN binlog : EndsSnapshot(i)' = EndsSnapshot(i)
    BY ONLY <1>1 DEF EndsSnapshot
  <1>5. \A i \in DOMAIN binlog : Size(i)' = Size(i)
    BY ONLY <1>1, <1>4 DEF Size
  <1>6. Len(m.ents) \in Nat
    <2>1. x.ents \in Seq(Entry)
      BY DEF MessageType
    <2>2. QED
      BY ONLY <1>1, <2>1
  <1>7. ASSUME NEW n, n = Len(binlog) + 1 PROVE Size(n)' \in Nat
    <2>1. Entries'[n] \in Nat
      BY ONLY <1>1, <1>6, <1>7
    <2>2. Size(n)' = Entries'[n] + (IF EndsSnapshot(n)' THEN 1 ELSE 0)
      BY DEF Size
    <2>3. QED
      BY ONLY <2>1, <2>2
  <1>8. QED
    BY <1>1, <1>2, <1>3, <1>4, <1>5, <1>6, <1>7 DEF AppendStep

(* Ghosts over the binlog keep their beginning. *)
Extends(f, g, n) == \A i \in 1 .. n : g[i] = f[i]

LEMMA StartsAppend ==
  ASSUME Types, NEW m \in Messages, AppendStep(m), NEW start, Starts(start)
  PROVE  \E start1 : Starts(start1)' /\ Extends(start, start1, Len(binlog) + 1)
  <1>0. PICK n : n = Len(binlog)
    OBVIOUS
  <1>1. PICK s : n = Len(binlog) /\ s = Size(n + 1)'
    BY <1>0
  <1>2. /\ n \in Nat /\ s \in Nat /\ Len(binlog') = n + 1 /\ DOMAIN binlog' = 1 .. n + 1
        /\ DOMAIN binlog = 1 .. n
        /\ \A i \in 1 .. n : Size(i)' = Size(i)
    BY <1>1, LogGrows
  <1>3. /\ start \in [Nat -> Nat] /\ start[1] = 0
        /\ \A i \in 1 .. n : start[i + 1] = start[i] + Size(i)
        /\ \A i, j \in 1 .. n + 1 : i <= j => start[i] <= start[j]
    BY ONLY Starts(start), <1>1, <1>2 DEF Starts
  <1>4. PICK b : b = start[n + 1]
    OBVIOUS
  <1>5. b \in Nat
    BY ONLY <1>2, <1>3, <1>4
  <1>6. PICK start1 : start1 = [start EXCEPT ![n + 2] = b + s]
    OBVIOUS
  <1>7. /\ start1 \in [Nat -> Nat] /\ start1[n + 2] = b + s
        /\ \A i \in 1 .. n + 1 : start1[i] = start[i]
    <2>1. PICK x, k : x = b + s /\ k = n + 2
      OBVIOUS
    <2>2. x \in Nat /\ k \in Nat /\ \A i \in 1 .. n + 1 : i \in Nat /\ i # k
      BY ONLY <1>2, <1>5, <2>1
    <2>3. start1 = [start EXCEPT ![k] = x] /\ start \in [Nat -> Nat]
      BY ONLY <1>3, <1>6, <2>1
    <2>4. start1 \in [Nat -> Nat] /\ start1[k] = x /\ \A i \in 1 .. n + 1 : start1[i] = start[i]
      BY ONLY <2>2, <2>3
    <2>5. QED
      BY ONLY <2>1, <2>4
  <1>8. start1[1] = 0
    BY ONLY <1>2, <1>3, <1>7
  <1>9. ASSUME NEW i \in 1 .. n + 1 PROVE start1[i + 1] = start1[i] + Size(i)'
    <2>1. CASE i \in 1 .. n
      <3>1. i + 1 \in 1 .. n + 1 /\ i \in 1 .. n + 1
        BY ONLY <1>2, <2>1
      <3>2. start1[i + 1] = start[i + 1] /\ start1[i] = start[i]
        BY ONLY <1>7, <3>1
      <3>3. start[i + 1] = start[i] + Size(i) /\ Size(i)' = Size(i)
        BY ONLY <1>2, <1>3, <2>1
      <3>4. QED
        BY ONLY <3>2, <3>3
    <2>2. CASE i = n + 1
      <3>1. i + 1 = n + 2 /\ start1[i] = b
        BY ONLY <1>2, <1>4, <1>7, <2>2
      <3>2. s = Size(i)'
        BY ONLY <1>1, <2>2
      <3>3. QED
        BY ONLY <1>7, <3>1, <3>2
    <2>3. QED
      BY ONLY <1>2, <2>1, <2>2, i \in 1 .. n + 1
  <1>10. ASSUME NEW i \in 1 .. n + 2, NEW j \in 1 .. n + 2, i <= j PROVE start1[i] <= start1[j]
    <2>1. CASE j \in 1 .. n + 1
      <3>1. i \in 1 .. n + 1
        BY ONLY <1>2, <1>10, <2>1
      <3>2. start1[i] = start[i] /\ start1[j] = start[j] /\ start[i] <= start[j]
        BY ONLY <1>3, <1>7, <1>10, <2>1, <3>1
      <3>3. QED
        BY ONLY <3>2
    <2>2. CASE j = n + 2
      <3>1. CASE i = n + 2
        <4>1. start1[i] \in Nat
          BY ONLY <1>2, <1>7, <3>1
        <4>2. QED
          BY ONLY <2>2, <3>1, <4>1
      <3>2. CASE i \in 1 .. n + 1
        <4>1. n + 1 \in 1 .. n + 1 /\ i <= n + 1
          BY ONLY <1>2, <3>2
        <4>2. start1[i] = start[i] /\ start[i] <= b
          BY ONLY <1>3, <1>4, <1>7, <3>2, <4>1
        <4>3. start[i] \in Nat
          BY ONLY <1>2, <1>3, <3>2
        <4>4. PICK a : a = start[i]
          OBVIOUS
        <4>5. a <= b + s
          BY ONLY <1>2, <1>5, <4>2, <4>3, <4>4
        <4>6. QED
          BY ONLY <1>7, <2>2, <4>2, <4>4, <4>5
      <3>3. QED
        BY ONLY <1>2, <1>10, <3>1, <3>2
    <2>3. QED
      BY ONLY <1>2, <1>10, <2>1, <2>2
  <1>11. Starts(start1)'
    <2>1. Len(binlog') + 1 = n + 2
      BY ONLY <1>2
    <2>2. QED
      BY ONLY <1>2, <1>7, <1>8, <1>9, <1>10, <2>1 DEF Starts
  <1>12. Extends(start, start1, Len(binlog) + 1)
    BY ONLY <1>1, <1>7 DEF Extends
  <1>13. QED
    BY <1>11, <1>12

LEMMA LogsAppend ==
  ASSUME Types, NEW m \in Messages, AppendStep(m), NEW start, NEW start1,
         Extends(start, start1, Len(binlog) + 1), Logs(start)
  PROVE  Logs(start1)' /\ Written' = Written
  <1>1. Written' = Written
    BY DEF AppendStep, Written
  <1>2. ASSUME NEW i \in 1 .. Len(Written) PROVE LogAt(start1, Written[i], i)'
    <2>1. PICK u : u = Written[i]
      OBVIOUS
    <2>2. LogAt(start, u, i)
      BY <2>1 DEF Logs
    <2>3. u.msg \in DOMAIN binlog
      BY <2>2 DEF LogAt, IsPart
    <2>4. /\ u.msg \in DOMAIN binlog' /\ Entries'[u.msg] = Entries[u.msg]
          /\ EndsSnapshot(u.msg)' = EndsSnapshot(u.msg) /\ u.msg \in 1 .. Len(binlog) + 1
      <3>1. DOMAIN binlog' = 1 .. Len(binlog) + 1 /\ Len(binlog) \in Nat
            /\ DOMAIN binlog = 1 .. Len(binlog)
        BY LogGrows
      <3>2. u.msg \in 1 .. Len(binlog) + 1
        BY ONLY <2>3, <3>1
      <3>3. QED
        BY <2>3, <3>1, <3>2, LogGrows
    <2>5. start1[u.msg] = start[u.msg]
      BY <2>4 DEF Extends
    <2>6. IsPart(u.msg, u.part)'
      BY ONLY <2>2, <2>4 DEF LogAt, IsPart
    <2>7. PlaceOf(u.msg, u.part)' = PlaceOf(u.msg, u.part)
      BY ONLY <2>4 DEF PlaceOf
    <2>8. /\ IsPart(u.msg, u.part)' /\ i = start1[u.msg] + PlaceOf(u.msg, u.part)'
          /\ u.offset = i
      BY ONLY <2>2, <2>5, <2>6, <2>7 DEF LogAt
    <2>9. LogAt(start1, u, i)'
      BY ONLY <2>8 DEF LogAt
    <2>10. Written'[i] = u
      BY <1>1, <2>1
    <2>11. QED
      BY ONLY <2>9, <2>10 DEF LogAt
  <1>3. QED
    BY <1>1, <1>2 DEF Logs

LEMMA ProgressAppend ==
  ASSUME Types, NEW nx, NEW start, Progress(nx, start), NEW m \in Messages, AppendStep(m)
  PROVE  \E start1 : Progress(nx, start1)' /\ Extends(start, start1, Len(binlog) + 1)
  <1>1. Starts(start) /\ Logs(start) /\ Window /\ Reached(nx, start)
    BY DEF Progress
  <1>2. PICK start1 : Starts(start1)' /\ Extends(start, start1, Len(binlog) + 1)
    BY <1>1, StartsAppend
  <1>3. Logs(start1)' /\ Written' = Written /\ UNCHANGED step2
    BY <1>1, <1>2, LogsAppend DEF AppendStep
  <1>4. Window'
    BY <1>1, <1>3 DEF Window
  <1>5. Reached(nx, start1)'
    <2>1. nx \in 1 .. Len(binlog) + 1 /\ step2.processed_count = start[nx] + Done(nx)
          /\ (Busy => nx \in DOMAIN binlog /\ Entries[nx] > 0 /\ step2.left <= Entries[nx])
      BY <1>1 DEF Reached
    <2>2. start1[nx] = start[nx]
      BY <1>2, <2>1 DEF Extends
    <2>3. nx \in 1 .. Len(binlog') + 1
      <3>1. Len(binlog') = Len(binlog) + 1 /\ Len(binlog) \in Nat
        BY LogGrows
      <3>2. QED
        BY ONLY <2>1, <3>1
    <2>4. Busy' = Busy
      BY <1>3 DEF Busy
    <2>5. nx \in DOMAIN binlog => Entries'[nx] = Entries[nx] /\ nx \in DOMAIN binlog'
      <3>1. DOMAIN binlog' = 1 .. Len(binlog) + 1 /\ DOMAIN binlog = 1 .. Len(binlog)
            /\ Len(binlog) \in Nat
        BY LogGrows
      <3>2. nx \in DOMAIN binlog => nx \in DOMAIN binlog'
        BY ONLY <3>1
      <3>3. QED
        BY <3>2, LogGrows
    <2>6. Done(nx)' = Done(nx)
      BY ONLY <1>3, <2>1, <2>4, <2>5 DEF Done
    <2>7. QED
      BY ONLY <1>3, <2>1, <2>2, <2>3, <2>4, <2>5, <2>6 DEF Reached
  <1>6. QED
    BY <1>2, <1>3, <1>4, <1>5 DEF Progress

LEMMA ProgressStep ==
  ASSUME Types, Types', NEW nx, NEW nx1, NEW start, Progress(nx, start), Seen(nx, nx1)
  PROVE  \E start1 : Progress(nx1, start1)' /\ Extends(start, start1, Len(binlog) + 1)
  <1>0. Extends(start, start, Len(binlog) + 1)
    BY DEF Extends
  <1>1. CASE nx1 = nx /\ (QuietStep \/ DeliverStep)
    BY <1>0, <1>1, ProgressQuiet
  <1>2. CASE CountStep(nx, nx1)
    BY <1>0, <1>2, ProgressCount
  <1>3. CASE nx1 = nx /\ \E k, g : EntryStep(nx, k, g)
    BY <1>0, <1>3, ProgressEntry
  <1>4. CASE nx1 = nx + 1 /\ EndStep(nx)
    BY <1>0, <1>4, ProgressEnd
  <1>5. CASE nx1 = 1 /\ RestartStep
    BY <1>0, <1>5, ProgressRestart
  <1>6. CASE nx1 = nx /\ \E m \in Messages : AppendStep(m)
    BY <1>6, ProgressAppend
  <1>7. QED
    BY <1>1, <1>2, <1>3, <1>4, <1>5, <1>6 DEF Seen

LEMMA ProgressInit ==
  ASSUME Init
  PROVE  \E start : Progress(1, start)
  <1>1. PICK start : start = [i \in Nat |-> 0]
    OBVIOUS
  <1>2. binlog = << >> /\ unified = << >> /\ buffer = << >> /\ step2 = InitStep2(0)
    BY DEF Init
  <1>3. /\ step2.left = 0 /\ step2.msg = 0 /\ step2.processed_count = 0
        /\ step2.last_processed_offset = 0 /\ step2.catch_up_mode = TRUE
    BY <1>2, InitStep2Facts
  <1>4. Starts(start)
    BY <1>1, <1>2 DEF Starts
  <1>5. Written = << >>
    BY <1>2 DEF Written
  <1>6. Logs(start) /\ Window
    BY <1>3, <1>5 DEF Logs, Window
  <1>7. Reached(1, start)
    BY <1>1, <1>2, <1>3 DEF Reached, Done, Busy
  <1>8. QED
    BY <1>4, <1>6, <1>7 DEF Progress

-----------------------------------------------------------------------------
(* The sequential conversion: FlattenSeq lays the logs of the messages out  *)
(* as start tells.                                                          *)

(* A set of numbers that is not empty has a least one. *)
LEMMA LeastNumber ==
  ASSUME NEW S \in SUBSET Nat, S # {}
  PROVE  \E x \in S : \A y \in S : x <= y
  <1> DEFINE UpTo(n) == S \cap (0 .. n)
             R == StrictSubsetOrdering(S)
             T == {UpTo(n) : n \in S}
  <1>1. T \subseteq FiniteSubsetsOf(S)
    <2>1. \A n \in S : IsFiniteSet(0 .. n)
      BY FS_Interval
    <2>2. \A n \in S : IsFiniteSet(UpTo(n))
      BY <2>1, FS_Intersection
    <2>3. QED
      BY <2>2 DEF FiniteSubsetsOf
  <1>2. T # {}
    OBVIOUS
  <1>3. IsWellFoundedOn(R, FiniteSubsetsOf(S))
    BY FS_StrictSubsetOrderingWellFounded
  <1>4. PICK b \in T : \A c \in T : ~ (<<c, b>> \in R)
    <2> HIDE DEF T, R
    <2>1. QED
      BY <1>1, <1>2, <1>3, WFMin
  <1>5. PICK x \in S : b = UpTo(x)
    OBVIOUS
  <1>6. ASSUME NEW y \in S, y < x PROVE FALSE
    <2>1. UpTo(y) \in T /\ UpTo(y) \subseteq UpTo(x)
      BY <1>6
    <2>2. UpTo(y) # UpTo(x)
      BY <1>6
    <2>3. <<UpTo(y), UpTo(x)>> \in R
      BY <2>1, <2>2 DEF StrictSubsetOrdering
    <2>4. QED
      BY <2>1, <2>3, <1>4, <1>5
  <1>7. QED
    BY <1>6

(* The function FlattenSeq is defined with, over the first k sequences. *)
FlattensTo(seqs, k, f) ==
  f = [i \in 1 .. k |-> IF i = 1 THEN seqs[i] ELSE f[i - 1] \o seqs[i]]

LEMMA FlattenExists ==
  ASSUME NEW seqs, NEW k \in Nat
  PROVE  \E f : FlattensTo(seqs, k, f)
  <1> DEFINE Bad == {n \in Nat : ~ \E f : FlattensTo(seqs, n, f)}
  <1>1. 0 \notin Bad
    <2>1. FlattensTo(seqs, 0, [i \in 1 .. 0 |-> seqs[i]])
      BY DEF FlattensTo
    <2>2. QED
      BY <2>1
  <1>2. ASSUME NEW n \in Nat, n \notin Bad PROVE n + 1 \notin Bad
    <2>1. PICK f : FlattensTo(seqs, n, f)
      BY <1>2
    <2> DEFINE x == IF n = 0 THEN seqs[1] ELSE f[n] \o seqs[n + 1]
               h == [i \in 1 .. n + 1 |-> IF i = n + 1 THEN x ELSE f[i]]
    <2>a. \A i \in 1 .. n + 1 : h[i] = IF i = n + 1 THEN x ELSE f[i]
      OBVIOUS
    <2>b. \A i \in 1 .. n : f[i] = IF i = 1 THEN seqs[i] ELSE f[i - 1] \o seqs[i]
      BY <2>1 DEF FlattensTo
    <2>c. x = IF n = 0 THEN seqs[1] ELSE f[n] \o seqs[n + 1]
      OBVIOUS
    <2>2. \A i \in 1 .. n + 1 : h[i] = IF i = 1 THEN seqs[i] ELSE h[i - 1] \o seqs[i]
      <3> HIDE DEF h, x
      <3> TAKE i \in 1 .. n + 1
      <3>1. CASE i = n + 1
        <4>1. h[i] = x
          BY <2>a, <3>1
        <4>2. CASE n = 0
          BY ONLY <2>c, <3>1, <4>1, <4>2
        <4>3. CASE n # 0
          <5>1. i # 1 /\ i - 1 = n /\ n \in 1 .. n + 1 /\ n # n + 1
            BY ONLY <3>1, <4>3, n \in Nat
          <5>2. h[i - 1] = f[n]
            BY ONLY <2>a, <5>1
          <5>3. QED
            BY ONLY <2>c, <3>1, <4>1, <4>3, <5>1, <5>2
        <4>4. QED
          BY <4>2, <4>3
      <3>2. CASE i \in 1 .. n
        <4>1. i # n + 1 /\ h[i] = f[i]
          BY ONLY <2>a, <3>2, n \in Nat, i \in 1 .. n + 1
        <4>2. CASE i = 1
          BY ONLY <2>b, <3>2, <4>1, <4>2
        <4>3. CASE i # 1
          <5>1. i - 1 \in 1 .. n + 1 /\ i - 1 # n + 1
            BY ONLY <3>2, <4>3, n \in Nat
          <5>2. h[i - 1] = f[i - 1]
            BY ONLY <2>a, <5>1
          <5>3. QED
            BY ONLY <2>b, <3>2, <4>1, <4>3, <5>2
        <4>4. QED
          BY <4>2, <4>3
      <3>3. QED
        BY ONLY <3>1, <3>2, n \in Nat, i \in 1 .. n + 1
    <2>3. FlattensTo(seqs, n + 1, h)
      BY <2>2 DEF FlattensTo
    <2>4. QED
      BY <2>3
  <1>3. Bad = {}
    <2>1. ASSUME Bad # {} PROVE FALSE
      <3>1. PICK n \in Bad : \A y \in Bad : n <= y
        <4>1. Bad \in SUBSET Nat
          OBVIOUS
        <4> HIDE DEF Bad
        <4>2. QED
          BY <2>1, <4>1, LeastNumber
      <3>2. n \in Nat
        OBVIOUS
      <3>3. n # 0
        BY <1>1
      <3>4. n - 1 \in Nat /\ n - 1 \notin Bad
        <4> HIDE DEF Bad
        <4>1. QED
          BY <3>1, <3>2, <3>3
      <3>5. (n - 1) + 1 \notin Bad
        <4> HIDE DEF Bad
        <4>1. QED
          BY <1>2, <3>4
      <3>6. (n - 1) + 1 = n
        BY ONLY <3>2
      <3>7. QED
        BY <3>5, <3>6
    <2>2. QED
      BY <2>1
  <1>4. QED
    BY <1>3

LEMMA ConcatFacts ==
  ASSUME NEW S, NEW s \in Seq(S), NEW t \in Seq(S)
  PROVE  /\ s \o t \in Seq(S) /\ Len(s \o t) = Len(s) + Len(t)
         /\ Len(s) \in Nat /\ Len(t) \in Nat
         /\ \A j \in 1 .. Len(s) : (s \o t)[j] = s[j]
         /\ \A j \in 1 .. Len(t) : (s \o t)[Len(s) + j] = t[j]
  <1>1. s \o t \in Seq(S) /\ Len(s \o t) = Len(s) + Len(t)
    OBVIOUS
  <1>2. Len(s) \in Nat /\ Len(t) \in Nat
    OBVIOUS
  <1>3. \A j \in 1 .. Len(s) : (s \o t)[j] = s[j]
    OBVIOUS
  <1>4. ASSUME NEW j \in 1 .. Len(t) PROVE (s \o t)[Len(s) + j] = t[j]
    <2>1. Len(s) + j \in 1 .. Len(s) + Len(t) /\ ~ (Len(s) + j <= Len(s))
      BY <1>2
    <2>2. (s \o t)[Len(s) + j] = t[(Len(s) + j) - Len(s)]
      BY <1>1, <2>1
    <2>3. (Len(s) + j) - Len(s) = j
      BY <1>2
    <2>4. QED
      BY <2>2, <2>3
  <1>5. QED
    BY <1>1, <1>2, <1>3, <1>4

(* The items of seqs lie where st says. *)
Laid(seqs, st, i, s) ==
  /\ Len(s) = st[i + 1]
  /\ \A m \in 1 .. i : \A k \in 1 .. Len(seqs[m]) : s[st[m] + k] = seqs[m][k]

LEMMA FlattenLaid ==
  ASSUME NEW S, NEW n \in Nat, NEW seqs, \A m \in 1 .. n : seqs[m] \in Seq(S),
         NEW st \in [Nat -> Nat], st[1] = 0,
         \A m \in 1 .. n : st[m + 1] = st[m] + Len(seqs[m]),
         \A i, j \in 1 .. n + 1 : i <= j => st[i] <= st[j],
         NEW f, FlattensTo(seqs, n, f)
  PROVE  \A i \in 1 .. n : f[i] \in Seq(S) /\ Laid(seqs, st, i, f[i])
  <1> DEFINE Good(i) == f[i] \in Seq(S) /\ Laid(seqs, st, i, f[i])
             Bad == {i \in 1 .. n : ~Good(i)}
  <1>0. \A i \in 1 .. n : f[i] = IF i = 1 THEN seqs[i] ELSE f[i - 1] \o seqs[i]
    BY DEF FlattensTo
  <1>1. n >= 1 => Good(1)
    <2>1. SUFFICES ASSUME n >= 1 PROVE Good(1)
      OBVIOUS
    <2>2. 1 \in 1 .. n
      BY <2>1
    <2>3. f[1] = seqs[1] /\ seqs[1] \in Seq(S)
      BY <1>0, <2>2
    <2>4. st[1 + 1] = st[1] + Len(seqs[1])
      BY <2>2
    <2>5. Len(seqs[1]) \in Nat
      BY ONLY <2>3
    <2>6. Len(f[1]) = st[1 + 1]
      BY ONLY <2>3, <2>4, <2>5, st[1] = 0
    <2>7. \A k \in 1 .. Len(seqs[1]) : st[1] + k = k
      BY ONLY <2>5, st[1] = 0
    <2>8. \A m \in 1 .. 1 : m = 1
      OBVIOUS
    <2>9. Laid(seqs, st, 1, f[1])
      BY ONLY <2>3, <2>6, <2>7, <2>8 DEF Laid
    <2>10. QED
      BY <2>3, <2>9
  <1>2. ASSUME NEW i \in 1 .. n, i # 1, Good(i - 1) PROVE Good(i)
    <2>1. PICK h : h = i - 1
      OBVIOUS
    <2>2. h \in 1 .. n /\ i = h + 1 /\ h \in Nat /\ i \in Nat
      BY ONLY <1>2, <2>1, n \in Nat
    <2>3. PICK s, t : s = f[h] /\ t = seqs[i]
      OBVIOUS
    <2>4. s \in Seq(S) /\ t \in Seq(S) /\ f[i] = s \o t /\ Laid(seqs, st, h, s)
      BY <1>0, <1>2, <2>1, <2>3
    <2>5. s \o t \in Seq(S) /\ Len(s \o t) = Len(s) + Len(t) /\ Len(s) \in Nat /\ Len(t) \in Nat
          /\ (\A j \in 1 .. Len(s) : (s \o t)[j] = s[j])
          /\ \A j \in 1 .. Len(t) : (s \o t)[Len(s) + j] = t[j]
      <3>1. s \in Seq(S) /\ t \in Seq(S)
        BY ONLY <2>4
      <3>2. QED
        BY ONLY <3>1, ConcatFacts
    <2>6. Len(s) = st[i] /\ st[i + 1] = st[i] + Len(t)
      BY <2>2, <2>3, <2>4 DEF Laid
    <2>7. Len(f[i]) = st[i + 1]
      BY ONLY <2>4, <2>5, <2>6
    <2>8. ASSUME NEW m, NEW k, m \in 1 .. i, k \in 1 .. Len(seqs[m])
          PROVE  f[i][st[m] + k] = seqs[m][k]
      <3>1. CASE m = i
        BY ONLY <2>3, <2>4, <2>5, <2>6, <2>8, <3>1
      <3>2. CASE m \in 1 .. h
        <4>1. s[st[m] + k] = seqs[m][k]
          BY ONLY <2>4, <2>8, <3>2 DEF Laid
        <4>2. m \in 1 .. n /\ m + 1 \in 1 .. n + 1 /\ i \in 1 .. n + 1 /\ m + 1 <= i /\ m \in Nat
          BY ONLY <2>2, <3>2, n \in Nat
        <4>3. st[m + 1] = st[m] + Len(seqs[m]) /\ st[m + 1] <= st[i] /\ seqs[m] \in Seq(S)
          BY <4>2
        <4>4. PICK a, l, z : a = st[m] /\ l = Len(seqs[m]) /\ z = Len(s)
          OBVIOUS
        <4>5. a \in Nat /\ l \in Nat /\ z \in Nat
          <5>1. st[m] \in Nat
            BY <4>2
          <5>2. Len(seqs[m]) \in Nat
            BY ONLY <4>3
          <5>3. QED
            BY ONLY <2>5, <4>4, <5>1, <5>2
        <4>6. a + l <= z /\ k \in 1 .. l
          BY ONLY <2>6, <2>8, <4>3, <4>4
        <4>7. a + k \in 1 .. z
          BY ONLY <4>5, <4>6
        <4>8. QED
          BY ONLY <2>4, <2>5, <4>1, <4>4, <4>7
      <3>3. QED
        BY ONLY <2>2, <2>8, <3>1, <3>2
    <2>9. Laid(seqs, st, i, f[i])
      BY ONLY <2>7, <2>8 DEF Laid
    <2>10. QED
      BY ONLY <2>4, <2>5, <2>9
  <1>3. Bad = {}
    <2>1. ASSUME Bad # {} PROVE FALSE
      <3>1. Bad \in SUBSET Nat /\ \A i \in Bad : i \in 1 .. n /\ ~Good(i)
        OBVIOUS
      <3>2. \A i \in 1 .. n : i \notin Bad => Good(i)
        OBVIOUS
      <3> HIDE DEF Bad, Good
      <3>3. PICK i \in Bad : \A y \in Bad : i <= y
        BY <2>1, <3>1, LeastNumber
      <3>4. i \in 1 .. n /\ ~Good(i)
        BY <3>1
      <3>5. i # 1
        BY <1>1, <3>4
      <3>6. i - 1 \in 1 .. n /\ ~ (i <= i - 1)
        BY ONLY <3>4, <3>5, n \in Nat
      <3>7. Good(i - 1)
        BY <3>2, <3>3, <3>6
      <3>8. QED
        BY <1>2, <3>4, <3>5, <3>7
    <2>2. QED
      BY <2>1
  <1>4. QED
    BY <1>3

LEMMA FlattenFacts ==
  ASSUME NEW S, NEW n \in Nat, NEW seqs, Len(seqs) = n, \A m \in 1 .. n : seqs[m] \in Seq(S),
         NEW st \in [Nat -> Nat], st[1] = 0,
         \A m \in 1 .. n : st[m + 1] = st[m] + Len(seqs[m]),
         \A i, j \in 1 .. n + 1 : i <= j => st[i] <= st[j],
         n > 0
  PROVE  Laid(seqs, st, n, FlattenSeq(seqs))
  <1> DEFINE flatten == CHOOSE f : FlattensTo(seqs, n, f)
  <1>1. FlattensTo(seqs, n, flatten)
    BY FlattenExists
  <1>2. FlattenSeq(seqs) = flatten[n]
    BY DEF FlattenSeq, FlattensTo
  <1>3. n \in 1 .. n
    BY ONLY n \in Nat, n > 0
  <1> HIDE DEF flatten
  <1>4. Laid(seqs, st, n, flatten[n])
    BY <1>1, <1>3, FlattenLaid
  <1>5. QED
    BY <1>2, <1>4

LEMMA EntriesOfFacts ==
  ASSUME Types, NEW m \in DOMAIN binlog
  PROVE  /\ EntriesOf(m) \in Seq(Nat \X Nat) /\ Len(EntriesOf(m)) = Size(m)
         /\ \A k : IsPart(m, k) => /\ PlaceOf(m, k) \in 1 .. Size(m)
                                   /\ EntriesOf(m)[PlaceOf(m, k)] = <<m, k>>
  <1>1. /\ m \in Nat /\ Entries[m] \in Nat /\ Entries[m] = Len(binlog[m].ents)
        /\ binlog[m].ents \in Seq(Entry) /\ binlog[m].last \in BOOLEAN
    BY BinlogFacts
  <1>2. PICK e, a, b :
          /\ e = Entries[m] /\ a = [k \in 1 .. Len(binlog[m].ents) |-> <<m, k>>]
          /\ b = IF binlog[m].last /\ binlog[m].ents # << >> THEN << <<m, 0>> >> ELSE << >>
    OBVIOUS
  <1>3. EntriesOf(m) = a \o b
    BY <1>2 DEF EntriesOf
  <1>4. e \in Nat /\ a = [k \in 1 .. e |-> <<m, k>>] /\ m \in Nat
    BY ONLY <1>1, <1>2
  <1>5. a \in Seq(Nat \X Nat) /\ Len(a) = e /\ \A k \in 1 .. e : a[k] = <<m, k>>
    BY ONLY <1>4
  <1>6. binlog[m].ents # << >> <=> e > 0
    BY ONLY <1>1, <1>2
  <1>7. /\ EndsSnapshot(m) => b = << <<m, 0>> >>
        /\ ~EndsSnapshot(m) => b = << >>
    BY ONLY <1>2, <1>6 DEF EndsSnapshot
  <1>8. /\ b \in Seq(Nat \X Nat)
        /\ EndsSnapshot(m) => Len(b) = 1 /\ b[1] = <<m, 0>>
        /\ ~EndsSnapshot(m) => Len(b) = 0
    <2>1. CASE EndsSnapshot(m)
      BY ONLY <1>4, <1>7, <2>1, SMTT(30)
    <2>2. CASE ~EndsSnapshot(m)
      BY ONLY <1>4, <1>7, <2>2
    <2>3. QED
      BY <2>1, <2>2
  <1>9. /\ a \o b \in Seq(Nat \X Nat) /\ Len(a \o b) = Len(a) + Len(b)
        /\ \A j \in 1 .. Len(a) : (a \o b)[j] = a[j]
        /\ \A j \in 1 .. Len(b) : (a \o b)[Len(a) + j] = b[j]
    <2>1. PICK T : T = Nat \X Nat
      OBVIOUS
    <2>2. a \in Seq(T) /\ b \in Seq(T)
      BY ONLY <1>5, <1>8, <2>1
    <2>3. /\ a \o b \in Seq(T) /\ Len(a \o b) = Len(a) + Len(b)
          /\ \A j \in 1 .. Len(a) : (a \o b)[j] = a[j]
          /\ \A j \in 1 .. Len(b) : (a \o b)[Len(a) + j] = b[j]
      BY ONLY <2>2, ConcatFacts
    <2>4. QED
      BY ONLY <2>1, <2>3
  <1>10. Len(a \o b) = Size(m)
    <2>1. CASE EndsSnapshot(m)
      BY ONLY <1>2, <1>5, <1>8, <1>9, <2>1 DEF Size
    <2>2. CASE ~EndsSnapshot(m)
      BY ONLY <1>2, <1>5, <1>8, <1>9, <2>2 DEF Size
    <2>3. QED
      BY <2>1, <2>2
  <1>11. ASSUME NEW k, IsPart(m, k)
         PROVE  /\ PlaceOf(m, k) \in 1 .. Size(m)
                /\ EntriesOf(m)[PlaceOf(m, k)] = <<m, k>>
    <2>1. k \in 0 .. e /\ (k = 0 => EndsSnapshot(m))
      BY ONLY <1>2, <1>11 DEF IsPart
    <2>2. CASE k = 0
      <3>1. PlaceOf(m, k) = e + 1 /\ Size(m) = e + 1 /\ EndsSnapshot(m)
        BY ONLY <1>2, <2>1, <2>2 DEF PlaceOf, Size
      <3>2. (a \o b)[e + 1] = <<m, 0>>
        <4>1. Len(b) = 1 /\ b[1] = <<m, 0>>
          BY ONLY <1>8, <3>1
        <4>2. 1 \in 1 .. 1
          OBVIOUS
        <4>3. (a \o b)[Len(a) + 1] = b[1]
          BY ONLY <1>9, <4>1, <4>2
        <4>4. QED
          BY ONLY <1>5, <4>1, <4>3
      <3>3. e + 1 \in 1 .. e + 1
        BY ONLY <1>4
      <3>4. QED
        BY ONLY <1>3, <2>2, <3>1, <3>2, <3>3
    <2>3. CASE k # 0
      <3>1. PlaceOf(m, k) = k /\ k \in 1 .. e
        BY ONLY <1>4, <2>1, <2>3 DEF PlaceOf
      <3>2. (a \o b)[k] = <<m, k>>
        BY ONLY <1>5, <1>9, <3>1
      <3>3. Size(m) = e \/ Size(m) = e + 1
        BY ONLY <1>2, <1>4 DEF Size
      <3>4. k \in 1 .. Size(m)
        BY ONLY <1>4, <3>1, <3>3
      <3>5. QED
        BY ONLY <1>3, <3>1, <3>2, <3>4
    <2>4. QED
      BY <2>2, <2>3
  <1>12. QED
    BY <1>3, <1>9, <1>10, <1>11

LEMMA SequentialFacts ==
  ASSUME Types, NEW start, Starts(start), Len(binlog) > 0
  PROVE  /\ Len(Sequential) = start[Len(binlog) + 1]
         /\ \A m, k : IsPart(m, k) => Sequential[start[m] + PlaceOf(m, k)] = <<m, k>>
  <1>1. PICK n, seqs : n = Len(binlog) /\ seqs = [m \in 1 .. Len(binlog) |-> EntriesOf(m)]
    OBVIOUS
  <1>2. n \in Nat /\ n > 0 /\ DOMAIN binlog = 1 .. n
    BY <1>1, BinlogFacts
  <1>3. Sequential = FlattenSeq(seqs)
    BY <1>1 DEF Sequential
  <1>4. seqs = [m \in 1 .. n |-> EntriesOf(m)]
    BY ONLY <1>1
  <1>5. Len(seqs) = n /\ \A m \in 1 .. n : seqs[m] = EntriesOf(m)
    BY ONLY <1>2, <1>4
  <1>6. \A m \in 1 .. n : seqs[m] \in Seq(Nat \X Nat) /\ Len(seqs[m]) = Size(m)
    BY <1>2, <1>5, EntriesOfFacts
  <1>7. /\ start \in [Nat -> Nat] /\ start[1] = 0
        /\ \A m \in 1 .. n : start[m + 1] = start[m] + Len(seqs[m])
        /\ \A i, j \in 1 .. n + 1 : i <= j => start[i] <= start[j]
    <2>1. /\ start \in [Nat -> Nat] /\ start[1] = 0
          /\ \A m \in 1 .. n : start[m + 1] = start[m] + Size(m)
          /\ \A i, j \in 1 .. n + 1 : i <= j => start[i] <= start[j]
      BY ONLY Starts(start), <1>1, <1>2 DEF Starts
    <2>2. QED
      BY ONLY <1>6, <2>1
  <1>8. Laid(seqs, start, n, FlattenSeq(seqs))
    BY ONLY <1>2, <1>5, <1>6, <1>7, FlattenFacts
  <1>9. Len(Sequential) = start[Len(binlog) + 1]
    BY ONLY <1>1, <1>3, <1>8 DEF Laid
  <1>10. ASSUME NEW m, NEW k, IsPart(m, k)
         PROVE  Sequential[start[m] + PlaceOf(m, k)] = <<m, k>>
    <2>1. m \in 1 .. n
      BY ONLY <1>2, <1>10 DEF IsPart
    <2>2. PlaceOf(m, k) \in 1 .. Size(m) /\ EntriesOf(m)[PlaceOf(m, k)] = <<m, k>>
      BY <1>2, <1>10, <2>1, EntriesOfFacts
    <2>3. PICK q : q = PlaceOf(m, k)
      OBVIOUS
    <2>4. q \in 1 .. Len(seqs[m]) /\ seqs[m][q] = <<m, k>>
      BY ONLY <1>5, <1>6, <2>1, <2>2, <2>3
    <2>5. FlattenSeq(seqs)[start[m] + q] = seqs[m][q]
      BY ONLY <1>8, <2>1, <2>4 DEF Laid
    <2>6. QED
      BY ONLY <1>3, <2>3, <2>4, <2>5
  <1>11. QED
    BY <1>9, <1>10

LEMMA ProgressIsInOrder ==
  ASSUME Types, NEW nx, NEW start, Progress(nx, start)
  PROVE  InOrderOnce
  <1>1. Starts(start) /\ Logs(start)
    BY DEF Progress
  <1>2. Len(Written) \in Nat /\ DOMAIN Written = 1 .. Len(Written) /\ Len(binlog) \in Nat
        /\ DOMAIN binlog = 1 .. Len(binlog)
    BY WrittenFacts, BinlogFacts
  <1>3. ASSUME NEW i \in 1 .. Len(Written)
        PROVE  /\ <<Written[i].msg, Written[i].part>> = Sequential[i]
               /\ Written[i].offset = i /\ i <= Len(Sequential) /\ Len(Sequential) \in Nat
    <2>1. PICK m, k, q : m = Written[i].msg /\ k = Written[i].part /\ q = PlaceOf(m, k)
      OBVIOUS
    <2>2. IsPart(m, k) /\ i = start[m] + q /\ Written[i].offset = i
      BY <1>1, <2>1 DEF Logs, LogAt
    <2>3. m \in DOMAIN binlog
      BY <2>2 DEF IsPart
    <2>4. Len(binlog) > 0
      BY ONLY <1>2, <2>3
    <2>5. /\ Len(Sequential) = start[Len(binlog) + 1]
          /\ Sequential[i] = <<m, k>>
      <3>1. /\ Len(Sequential) = start[Len(binlog) + 1]
            /\ \A r, p : IsPart(r, p) => Sequential[start[r] + PlaceOf(r, p)] = <<r, p>>
        BY <1>1, <2>4, SequentialFacts
      <3>2. Sequential[start[m] + PlaceOf(m, k)] = <<m, k>>
        BY ONLY <2>2, <3>1
      <3>3. QED
        BY ONLY <2>1, <2>2, <3>1, <3>2
    <2>6. start[m] + q <= start[m + 1] /\ m \in Nat /\ m >= 1 /\ m <= Len(binlog)
          /\ start[m + 1] \in Nat
      <3>1. /\ m \in Nat /\ m >= 1 /\ m <= Len(binlog) /\ start[m + 1] \in Nat
            /\ \A p : IsPart(m, p) => start[m] + PlaceOf(m, p) <= start[m + 1]
        BY <1>1, <2>3, PartFacts
      <3>2. QED
        BY ONLY <2>1, <2>2, <3>1
    <2>7. start[m + 1] <= start[Len(binlog) + 1] /\ start[Len(binlog) + 1] \in Nat
      <3>1. m + 1 \in 1 .. Len(binlog) + 1 /\ Len(binlog) + 1 \in 1 .. Len(binlog) + 1
            /\ m + 1 <= Len(binlog) + 1
        BY ONLY <1>2, <2>6
      <3>2. start[m + 1] <= start[Len(binlog) + 1] /\ start \in [Nat -> Nat]
        BY <1>1, <3>1 DEF Starts
      <3>3. Len(binlog) + 1 \in Nat
        BY ONLY <1>2
      <3>4. QED
        BY ONLY <3>2, <3>3
    <2>8. PICK x, y : x = start[m + 1] /\ y = start[Len(binlog) + 1]
      OBVIOUS
    <2>9. i <= x /\ x <= y /\ x \in Nat /\ y \in Nat /\ i \in Nat
      BY ONLY <1>2, <2>2, <2>6, <2>7, <2>8, i \in 1 .. Len(Written)
    <2>10. i <= y
      BY ONLY <2>9
    <2>11. QED
      BY ONLY <2>1, <2>2, <2>5, <2>7, <2>8, <2>10
  <1>4. Len(Written) <= Len(Sequential)
    <2>1. CASE Len(Written) > 0
      <3>1. Len(Written) \in 1 .. Len(Written)
        BY ONLY <1>2, <2>1
      <3>2. QED
        BY <1>3, <3>1
    <2>2. CASE Len(Written) = 0
      <3>1. Len(Sequential) \in Nat
        <4>1. CASE Len(binlog) > 0
          <5>1. Len(Sequential) = start[Len(binlog) + 1] /\ start \in [Nat -> Nat]
            BY <1>1, <4>1, SequentialFacts DEF Starts
          <5>2. Len(binlog) + 1 \in Nat
            BY ONLY <1>2
          <5>3. QED
            BY ONLY <5>1, <5>2
        <4>2. CASE Len(binlog) = 0
          <5>1. PICK seqs : seqs = [m \in 1 .. Len(binlog) |-> EntriesOf(m)]
            OBVIOUS
          <5>2. seqs = << >>
            BY ONLY <4>2, <5>1
          <5>3. Len(seqs) = 0
            BY ONLY <5>2
          <5>4. FlattenSeq(seqs) = seqs
            BY ONLY <5>3 DEF FlattenSeq
          <5>5. QED
            BY ONLY <5>1, <5>3, <5>4 DEF Sequential
        <4>3. QED
          BY ONLY <1>2, <4>1, <4>2
      <3>2. QED
        BY ONLY <2>2, <3>1
    <2>3. QED
      BY ONLY <1>2, <2>1, <2>2
  <1>5. QED
    BY <1>2, <1>3, <1>4 DEF InOrderOnce

LEMMA PlaceBefore ==
  ASSUME Types, NEW start, Starts(start), NEW m, NEW k, NEW m1, NEW k1,
         IsPart(m, k), IsPart(m1, k1), m < m1
  PROVE  start[m] + PlaceOf(m, k) < start[m1] + PlaceOf(m1, k1)
  <1>1. m \in DOMAIN binlog /\ m1 \in DOMAIN binlog
    BY DEF IsPart
  <1>2. /\ m \in Nat /\ m >= 1 /\ m <= Len(binlog) /\ start[m] \in Nat /\ start[m + 1] \in Nat
        /\ PlaceOf(m, k) \in Nat /\ start[m] + PlaceOf(m, k) <= start[m + 1]
    <2>1. /\ m \in Nat /\ m >= 1 /\ m <= Len(binlog) /\ start[m] \in Nat /\ start[m + 1] \in Nat
          /\ \A p : IsPart(m, p) => PlaceOf(m, p) \in Nat
                                    /\ start[m] + PlaceOf(m, p) <= start[m + 1]
      BY <1>1, PartFacts
    <2>2. QED
      BY ONLY <2>1, IsPart(m, k)
  <1>3. /\ m1 \in Nat /\ m1 >= 1 /\ m1 <= Len(binlog) /\ start[m1] \in Nat
        /\ PlaceOf(m1, k1) \in Nat /\ PlaceOf(m1, k1) >= 1 /\ Len(binlog) \in Nat
    <2>1. /\ m1 \in Nat /\ m1 >= 1 /\ m1 <= Len(binlog) /\ start[m1] \in Nat
          /\ Len(binlog) \in Nat
          /\ \A p : IsPart(m1, p) => PlaceOf(m1, p) \in Nat /\ PlaceOf(m1, p) >= 1
      BY <1>1, PartFacts
    <2>2. QED
      BY ONLY <2>1, IsPart(m1, k1)
  <1>4. start[m + 1] <= start[m1]
    <2>1. m + 1 \in 1 .. Len(binlog) + 1 /\ m1 \in 1 .. Len(binlog) + 1 /\ m + 1 <= m1
      BY ONLY <1>2, <1>3, m < m1
    <2>2. QED
      BY <2>1 DEF Starts
  <1>5. PICK a, b, c, p, q : /\ a = start[m] /\ b = start[m + 1] /\ c = start[m1]
                             /\ p = PlaceOf(m, k) /\ q = PlaceOf(m1, k1)
    OBVIOUS
  <1>6. a \in Nat /\ b \in Nat /\ c \in Nat /\ p \in Nat /\ q \in Nat /\ q >= 1 /\ a + p <= b
        /\ b <= c
    BY ONLY <1>2, <1>3, <1>4, <1>5
  <1>7. a + p < c + q
    BY ONLY <1>6
  <1>8. QED
    BY ONLY <1>5, <1>7

(* A place in the log belongs to one part of one message. *)
LEMMA PlaceUnique ==
  ASSUME Types, NEW start, Starts(start), NEW m, NEW k, NEW m1, NEW k1,
         IsPart(m, k), IsPart(m1, k1),
         start[m] + PlaceOf(m, k) = start[m1] + PlaceOf(m1, k1)
  PROVE  m = m1 /\ k = k1
  <1>1. m \in DOMAIN binlog /\ m1 \in DOMAIN binlog
    BY DEF IsPart
  <1>2. m \in Nat /\ m1 \in Nat /\ Entries[m] \in Nat /\ start[m] \in Nat
    BY <1>1, PartFacts
  <1>3. PICK x, y : x = start[m] + PlaceOf(m, k) /\ y = start[m1] + PlaceOf(m1, k1)
    OBVIOUS
  <1>4. x = y /\ x \in Int
    <2>1. \A p : IsPart(m, p) => PlaceOf(m, p) \in Nat
      BY <1>1, PartFacts
    <2>2. PlaceOf(m, k) \in Nat
      BY ONLY <2>1, IsPart(m, k)
    <2>3. PICK a, b : a = start[m] /\ b = PlaceOf(m, k)
      OBVIOUS
    <2>4. a \in Nat /\ b \in Nat /\ x = a + b
      BY ONLY <1>2, <1>3, <2>2, <2>3
    <2>5. x \in Int
      BY ONLY <2>4
    <2>6. QED
      BY <1>3, <2>5
  <1>5. ~ (m < m1)
    <2>1. m < m1 => x < y
      BY <1>3, PlaceBefore
    <2>2. QED
      BY ONLY <1>4, <2>1
  <1>6. ~ (m1 < m)
    <2>1. m1 < m => y < x
      BY <1>3, PlaceBefore
    <2>2. QED
      BY ONLY <1>4, <2>1
  <1>7. m = m1
    BY ONLY <1>2, <1>5, <1>6
  <1>8. k = k1
    <2>1. PICK a, e : a = start[m] /\ e = Entries[m]
      OBVIOUS
    <2>2. k \in 0 .. e /\ k1 \in 0 .. e
      BY ONLY <1>7, <2>1, IsPart(m, k), IsPart(m1, k1) DEF IsPart
    <2>3. PICK p, q : p = PlaceOf(m, k) /\ q = PlaceOf(m, k1)
      OBVIOUS
    <2>4. /\ p = IF k = 0 THEN e + 1 ELSE k
          /\ q = IF k1 = 0 THEN e + 1 ELSE k1
      BY ONLY <2>1, <2>3 DEF PlaceOf
    <2>5. a + p = a + q /\ a \in Nat /\ e \in Nat
      BY ONLY <1>2, <1>3, <1>4, <1>7, <2>1, <2>3
    <2>6. QED
      BY ONLY <2>2, <2>4, <2>5
  <1>9. QED
    BY <1>7, <1>8

(* What a log at the place of a part is about. *)
LEMMA LogIs ==
  ASSUME Types, NEW start, Starts(start), Logs(start), NEW m, NEW k, IsPart(m, k),
         NEW i \in 1 .. Len(Written), i = start[m] + PlaceOf(m, k)
  PROVE  Written[i].msg = m /\ Written[i].part = k
  <1>1. PICK u : u = Written[i]
    OBVIOUS
  <1>2. IsPart(u.msg, u.part) /\ i = start[u.msg] + PlaceOf(u.msg, u.part)
    BY <1>1 DEF Logs, LogAt
  <1>3. PICK m1, k1 : m1 = u.msg /\ k1 = u.part
    OBVIOUS
  <1>4. IsPart(m1, k1) /\ start[m] + PlaceOf(m, k) = start[m1] + PlaceOf(m1, k1)
    BY <1>2, <1>3
  <1>5. m = m1 /\ k = k1
    BY <1>4, PlaceUnique
  <1>6. QED
    BY <1>1, <1>3, <1>5

-----------------------------------------------------------------------------
(* The numbering: hist[i] is what the parser knows after the first i logs.  *)

Num(s) == [map |-> Map(s), nums |-> Nums(s), per |-> NumsIn(s)]

NumType == [map : GidMaps, nums : Nat, per : [0 .. SubgraphNum - 1 -> Nat]]

NumZero == [map |-> << >>, nums |-> 0, per |-> [f \in 0 .. SubgraphNum - 1 |-> 0]]

GidAt(a) ==
  LET fid == a.nums % SubgraphNum IN [fid |-> fid, offset |-> a.per[fid]]

Lookup(a, o) == IF o \in DOMAIN a.map THEN a.map[o] ELSE NoGid

NextNum(a, u) ==
  IF IsInsert(u)
  THEN [map |-> SetGid(a.map, EntryOf(u).ids[1], GidAt(a)), nums |-> a.nums + 1,
        per |-> [a.per EXCEPT ![GidAt(a).fid] = a.per[GidAt(a).fid] + 1]]
  ELSE a

HasGids(a, u) ==
  /\ IsInsert(u) => u.gids[1] = GidAt(a)
  /\ IsOp(u) /\ ~IsInsert(u) =>
       \A k \in DOMAIN EntryOf(u).ids : u.gids[k] = Lookup(a, EntryOf(u).ids[k])

History(hist) ==
  /\ hist \in [Nat -> NumType] /\ hist[0] = NumZero
  /\ \A i \in 1 .. Len(Written) :
       hist[i] = NextNum(hist[i - 1], Written[i]) /\ HasGids(hist[i - 1], Written[i])

Numbering(hist) == History(hist) /\ Num(step2) = hist[step2.processed_count]

LEMMA NumTypes ==
  ASSUME NEW s \in Step2Type
  PROVE  /\ Num(s) \in NumType /\ Num(s).map = Map(s) /\ Num(s).nums = Nums(s)
         /\ Num(s).per = NumsIn(s)
         /\ GidAt(Num(s)) = GidOf(s) /\ \A o : Lookup(Num(s), o) = GetGid(s, o)
  <1>1. Map(s) \in GidMaps /\ Nums(s) \in Nat /\ NumsIn(s) \in [0 .. SubgraphNum - 1 -> Nat]
    BY DEF Step2Type, Map, Nums, NumsIn
  <1>2. Num(s).map = Map(s) /\ Num(s).nums = Nums(s) /\ Num(s).per = NumsIn(s)
    BY DEF Num
  <1>3. Num(s) \in NumType
    BY ONLY <1>1 DEF Num, NumType
  <1>4. GidAt(Num(s)) = GidOf(s)
    BY ONLY <1>2 DEF GidAt, GidOf
  <1>5. \A o : Lookup(Num(s), o) = GetGid(s, o)
    BY ONLY <1>2 DEF Lookup, GetGid, Map
  <1>6. QED
    BY <1>2, <1>3, <1>4, <1>5

LEMMA SameEntries ==
  ASSUME NEW u, binlog'[u.msg] = binlog[u.msg]
  PROVE  /\ IsOp(u)' = IsOp(u) /\ IsInsert(u)' = IsInsert(u) /\ EntryOf(u)' = EntryOf(u)
         /\ \A a : NextNum(a, u)' = NextNum(a, u) /\ HasGids(a, u)' = HasGids(a, u)
  <1>1. EntryOf(u)' = EntryOf(u) /\ IsOp(u)' = IsOp(u)
    BY DEF EntryOf, IsOp
  <1>2. IsInsert(u)' = IsInsert(u)
    BY <1>1 DEF IsInsert
  <1>3. \A a : NextNum(a, u)' = NextNum(a, u) /\ HasGids(a, u)' = HasGids(a, u)
    BY <1>1, <1>2 DEF NextNum, HasGids
  <1>4. QED
    BY <1>1, <1>2, <1>3

(* The same part is numbered in the same way. *)
LEMMA SamePart ==
  ASSUME NEW u, NEW w, u.msg = w.msg, u.part = w.part, NEW a
  PROVE  NextNum(a, u) = NextNum(a, w)
  BY DEF NextNum, IsInsert, IsOp, EntryOf

LEMMA NumEntry ==
  ASSUME Types, Types', NEW nx, NEW k, NEW g, EntryStep(nx, k, g),
         NEW u, u = LogOf([msg |-> nx, part |-> k], g)
  PROVE  Num(step2') = NextNum(Num(step2), u) /\ HasGids(Num(step2), u)
  <1>1. u.msg = nx /\ u.part = k /\ u.gids = g
    BY DEF LogOf
  <1>2. k \in 1 .. Entries[nx] /\ Numbered(binlog[nx].ents[k], g) /\ nx \in DOMAIN binlog
    BY DEF EntryStep
  <1>3. PICK e : e = binlog[nx].ents[k]
    OBVIOUS
  <1>4. EntryOf(u) = e /\ IsOp(u) /\ (IsInsert(u) <=> e.op = "insert")
    BY <1>1, <1>2, <1>3 DEF EntryOf, IsOp, IsInsert
  <1>5. step2 \in Step2Type
    BY DEF Types
  <1>6. Num(step2).map = Map(step2) /\ Num(step2).nums = Nums(step2)
        /\ Num(step2).per = NumsIn(step2)
        /\ GidAt(Num(step2)) = GidOf(step2) /\ \A o : Lookup(Num(step2), o) = GetGid(step2, o)
    BY <1>5, NumTypes
  <1>7. /\ e.op = "insert" =>
             /\ g[1] = GidOf(step2)
             /\ Nums(step2') = Nums(step2) + 1
             /\ NumsIn(step2') =
                  [NumsIn(step2) EXCEPT ![GidOf(step2).fid] = NumsIn(step2)[GidOf(step2).fid] + 1]
             /\ Map(step2') = SetGid(Map(step2), e.ids[1], GidOf(step2))
        /\ e.op # "insert" =>
             /\ Nums(step2') = Nums(step2) /\ NumsIn(step2') = NumsIn(step2)
             /\ Map(step2') = Map(step2)
             /\ \A j \in DOMAIN e.ids : g[j] = GetGid(step2, e.ids[j])
    BY <1>2, <1>3 DEF Numbered, Nums, NumsIn, Map
  <1>8. HasGids(Num(step2), u)
    BY <1>1, <1>4, <1>6, <1>7 DEF HasGids
  <1>9. Num(step2') = NextNum(Num(step2), u)
    <2>1. CASE e.op = "insert"
      <3>1. NextNum(Num(step2), u) =
              [map |-> SetGid(Map(step2), e.ids[1], GidOf(step2)), nums |-> Nums(step2) + 1,
               per |-> [NumsIn(step2) EXCEPT
                          ![GidOf(step2).fid] = NumsIn(step2)[GidOf(step2).fid] + 1]]
        BY <1>4, <1>6, <2>1 DEF NextNum
      <3>2. QED
        BY <1>7, <2>1, <3>1 DEF Num
    <2>2. CASE e.op # "insert"
      <3>1. NextNum(Num(step2), u) = Num(step2)
        BY <1>4, <2>2 DEF NextNum
      <3>2. QED
        BY <1>7, <2>2, <3>1 DEF Num
    <2>3. QED
      BY <2>1, <2>2
  <1>10. QED
    BY <1>8, <1>9

LEMMA HistoryNext ==
  ASSUME UNCHANGED binlog, NEW hist, hist \in [Nat -> NumType], hist[0] = NumZero,
         \A j \in 1 .. Len(Written') :
           hist[j] = NextNum(hist[j - 1], Written'[j]) /\ HasGids(hist[j - 1], Written'[j])
  PROVE  History(hist)'
  <1>1. ASSUME NEW j \in 1 .. Len(Written')
        PROVE  hist[j] = NextNum(hist[j - 1], Written[j])'
               /\ HasGids(hist[j - 1], Written[j])'
    BY DEF NextNum, HasGids, IsInsert, IsOp, EntryOf
  <1>2. QED
    BY <1>1 DEF History

LEMMA NumberingWrite ==
  ASSUME Types, Types', NEW start, Starts(start), Logs(start), Window, UNCHANGED binlog,
         NEW u, WriteStep(u), LogAt(start, u, step2.processed_count + 1),
         Num(step2') = NextNum(Num(step2), u), HasGids(Num(step2), u),
         NEW hist, Numbering(hist)
  PROVE  \E hist1 : Numbering(hist1)'
  <1>1. PICK p, n : p = step2.processed_count /\ n = Len(Written)
    OBVIOUS
  <1>2. p \in Nat /\ n \in Nat
    <2>1. step2 \in Step2Type
      BY DEF Types
    <2>2. step2.processed_count \in Nat
      BY ONLY <2>1 DEF Step2Type
    <2>3. QED
      BY <1>1, <2>2, WrittenFacts
  <1>3. /\ hist \in [Nat -> NumType] /\ hist[0] = NumZero /\ Num(step2) = hist[p]
        /\ \A i \in 1 .. n : hist[i] = NextNum(hist[i - 1], Written[i])
                             /\ HasGids(hist[i - 1], Written[i])
    BY <1>1 DEF Numbering, History
  <1>4. step2'.processed_count = p + 1 /\ step2' \in Step2Type
    BY <1>1 DEF WriteStep, Types
  <1>5. Num(step2') \in NumType
    BY <1>4, NumTypes
  <1>6. \A a, w : NextNum(a, w)' = NextNum(a, w) /\ HasGids(a, w)' = HasGids(a, w)
    BY SameEntries
  <1>7. CASE Written' = Written /\ step2.processed_count + 1 <= Len(Written)
    <2>1. p + 1 \in 1 .. n /\ (p + 1) - 1 = p
      BY ONLY <1>1, <1>2, <1>7
    <2>2. PICK i : i = p + 1
      OBVIOUS
    <2>3. i \in 1 .. Len(Written) /\ LogAt(start, u, i)
      BY <1>1, <2>1, <2>2
    <2>4. Written[i].msg = u.msg /\ Written[i].part = u.part
      <3>1. IsPart(u.msg, u.part) /\ i = start[u.msg] + PlaceOf(u.msg, u.part)
        BY <2>3 DEF LogAt
      <3>2. QED
        BY <2>3, <3>1, LogIs
    <2>5. hist[i] = NextNum(hist[p], Written[i])
      BY ONLY <1>3, <2>1, <2>2
    <2>6. NextNum(hist[p], Written[i]) = NextNum(hist[p], u)
      BY <2>4, SamePart
    <2>7. Num(step2') = hist[p + 1]
      BY ONLY <1>3, <2>2, <2>5, <2>6, Num(step2') = NextNum(Num(step2), u)
    <2>8. Numbering(hist)'
      <3>1. \A j \in 1 .. Len(Written') :
              hist[j] = NextNum(hist[j - 1], Written'[j]) /\ HasGids(hist[j - 1], Written'[j])
        BY ONLY <1>1, <1>3, <1>7
      <3>2. History(hist)'
        BY ONLY <1>3, <3>1, UNCHANGED binlog, HistoryNext
      <3>3. QED
        BY ONLY <1>4, <2>7, <3>2 DEF Numbering, Num, Map, Nums, NumsIn
    <2>9. QED
      BY <2>8
  <1>8. CASE /\ Written' = Append(Written, u) /\ step2.processed_count = Len(Written)
             /\ Len(Written') = Len(Written) + 1 /\ Written'[Len(Written) + 1] = u
             /\ \A i \in 1 .. Len(Written) : Written'[i] = Written[i]
    <2>1. n = p
      BY ONLY <1>1, <1>8
    <2>2. PICK hist1, a, k : hist1 = [hist EXCEPT ![k] = a] /\ a = Num(step2') /\ k = n + 1
      OBVIOUS
    <2>3. k \in Nat /\ n + 1 = k /\ a \in NumType /\ \A j \in 0 .. n : j \in Nat /\ j # k
      BY ONLY <1>2, <1>5, <2>2
    <2>4. hist1 \in [Nat -> NumType] /\ hist1[k] = a /\ \A j \in 0 .. n : hist1[j] = hist[j]
      BY ONLY <1>3, <2>2, <2>3
    <2>5. hist1[0] = NumZero /\ hist1[n] = hist[n]
      <3>1. 0 \in 0 .. n /\ n \in 0 .. n
        BY ONLY <1>2
      <3>2. QED
        BY ONLY <1>3, <2>4, <3>1
    <2>6. ASSUME NEW j \in 1 .. k
          PROVE  hist1[j] = NextNum(hist1[j - 1], Written'[j]) /\ HasGids(hist1[j - 1], Written'[j])
      <3>1. CASE j = k
        <4>1. j - 1 = n /\ Written'[j] = u
          BY ONLY <1>1, <1>2, <1>8, <2>3, <3>1
        <4>2. hist1[j - 1] = Num(step2) /\ hist1[j] = Num(step2')
          BY ONLY <1>3, <2>1, <2>2, <2>4, <2>5, <3>1, <4>1
        <4>3. QED
          BY ONLY <4>1, <4>2, Num(step2') = NextNum(Num(step2), u), HasGids(Num(step2), u)
      <3>2. CASE j \in 1 .. n
        <4>1. j \in 0 .. n /\ j - 1 \in 0 .. n
          BY ONLY <1>2, <3>2
        <4>2. hist1[j] = hist[j] /\ hist1[j - 1] = hist[j - 1] /\ Written'[j] = Written[j]
          BY ONLY <1>1, <1>8, <2>4, <3>2, <4>1
        <4>3. QED
          BY ONLY <1>3, <3>2, <4>2
      <3>3. QED
        BY ONLY <1>2, <2>3, <3>1, <3>2, j \in 1 .. k
    <2>7. Len(Written') = k
      BY ONLY <1>1, <1>8, <2>3
    <2>8. \A j \in 1 .. Len(Written') :
            hist1[j] = NextNum(hist1[j - 1], Written'[j]) /\ HasGids(hist1[j - 1], Written'[j])
      BY ONLY <2>6, <2>7
    <2>9. History(hist1)'
      BY ONLY <2>4, <2>5, <2>8, UNCHANGED binlog, HistoryNext
    <2>10. Num(step2') = hist1[p + 1]
      BY ONLY <2>1, <2>2, <2>4
    <2>11. Numbering(hist1)'
      BY ONLY <1>4, <2>9, <2>10 DEF Numbering, Num, Map, Nums, NumsIn
    <2>12. QED
      BY <2>11
  <1>9. QED
    BY <1>7, <1>8, WriteFacts


LEMMA NumberingSame ==
  ASSUME NEW hist, Numbering(hist), UNCHANGED binlog, Written' = Written,
         Num(step2') = Num(step2), step2'.processed_count = step2.processed_count
  PROVE  Numbering(hist)'
  <1>1. /\ hist \in [Nat -> NumType] /\ hist[0] = NumZero
        /\ Num(step2) = hist[step2.processed_count]
        /\ \A i \in 1 .. Len(Written) :
             hist[i] = NextNum(hist[i - 1], Written[i]) /\ HasGids(hist[i - 1], Written[i])
    BY DEF Numbering, History
  <1>2. \A j \in 1 .. Len(Written') :
          hist[j] = NextNum(hist[j - 1], Written'[j]) /\ HasGids(hist[j - 1], Written'[j])
    BY ONLY <1>1, Written' = Written
  <1>3. History(hist)'
    BY ONLY <1>1, <1>2, UNCHANGED binlog, HistoryNext
  <1>4. Num(step2') = hist[step2'.processed_count]
    BY ONLY <1>1, Num(step2') = Num(step2), step2'.processed_count = step2.processed_count
  <1>5. QED
    BY ONLY <1>3, <1>4 DEF Numbering, Num, Map, Nums, NumsIn

LEMMA NumberingEntry ==
  ASSUME Types, Types', NEW nx, NEW start, Progress(nx, start), NEW hist, Numbering(hist),
         NEW k, NEW g, EntryStep(nx, k, g)
  PROVE  \E hist1 : Numbering(hist1)'
  <1>1. PICK u : u = LogOf([msg |-> nx, part |-> k], g)
    OBVIOUS
  <1>2. WriteStep(u) /\ UNCHANGED binlog
    BY <1>1, EntryWrites
  <1>3. Starts(start) /\ Logs(start) /\ Window
    BY DEF Progress
  <1>4. LogAt(start, u, step2.processed_count + 1)
    BY <1>1, EntryPlace
  <1>5. Num(step2') = NextNum(Num(step2), u) /\ HasGids(Num(step2), u)
    BY <1>1, NumEntry
  <1>6. QED
    BY <1>2, <1>3, <1>4, <1>5, NumberingWrite

LEMMA NumberingEnd ==
  ASSUME Types, Types', NEW nx, NEW start, Progress(nx, start), NEW hist, Numbering(hist),
         EndStep(nx)
  PROVE  \E hist1 : Numbering(hist1)'
  <1>1. Num(step2') = Num(step2)
    <2>1. Map(step2') = Map(step2) /\ Nums(step2') = Nums(step2) /\ NumsIn(step2') = NumsIn(step2)
      BY DEF EndStep, Map, Nums, NumsIn
    <2>2. QED
      BY ONLY <2>1 DEF Num
  <1>2. UNCHANGED <<binlog, unified>>
    BY EndWrites
  <1>3. CASE EndsSnapshot(nx)
    <2>1. PICK u : u = EndLog
      OBVIOUS
    <2>2. WriteStep(u)
      BY <1>3, <2>1, EndWrites
    <2>3. LogAt(start, u, step2.processed_count + 1)
      BY <1>3, <2>1, EndPlace
    <2>4. u.part = 0
      BY <2>1 DEF EndLog
    <2>5. ~IsOp(u) /\ ~IsInsert(u)
      BY <2>4 DEF IsOp, IsInsert
    <2>6. NextNum(Num(step2), u) = Num(step2) /\ HasGids(Num(step2), u)
      BY ONLY <2>5 DEF NextNum, HasGids
    <2>7. Starts(start) /\ Logs(start) /\ Window
      BY DEF Progress
    <2>8. Num(step2') = NextNum(Num(step2), u)
      BY ONLY <1>1, <2>6
    <2>9. QED
      BY <1>2, <2>2, <2>3, <2>6, <2>7, <2>8, NumberingWrite
  <1>4. CASE ~EndsSnapshot(nx)
    <2>1. UNCHANGED buffer /\ step2'.processed_count = step2.processed_count
      BY <1>4, EndWrites
    <2>2. Written' = Written
      BY <1>2, <2>1 DEF Written
    <2>3. QED
      BY <1>1, <1>2, <2>1, <2>2, NumberingSame
  <1>5. QED
    BY <1>3, <1>4

LEMMA NumberingRestart ==
  ASSUME Types, NEW start, Logs(start), NEW hist, Numbering(hist), RestartStep
  PROVE  Numbering(hist)'
  <1>1. /\ UNCHANGED <<binlog, unified>> /\ Written' = unified
        /\ step2' = InitStep2(Len(unified))
    BY RestartFacts
  <1>2. Num(step2') = NumZero /\ step2'.processed_count = 0
    BY <1>1 DEF InitStep2, Num, Map, Nums, NumsIn, NumZero
  <1>3. /\ hist \in [Nat -> NumType] /\ hist[0] = NumZero
        /\ \A i \in 1 .. Len(Written) :
             hist[i] = NextNum(hist[i - 1], Written[i]) /\ HasGids(hist[i - 1], Written[i])
    BY DEF Numbering, History
  <1>4. \A i \in 1 .. Len(unified) : i \in 1 .. Len(Written) /\ Written[i] = unified[i]
    BY WrittenFacts
  <1>5. \A j \in 1 .. Len(Written') :
          hist[j] = NextNum(hist[j - 1], Written'[j]) /\ HasGids(hist[j - 1], Written'[j])
    BY ONLY <1>1, <1>3, <1>4
  <1>6. History(hist)'
    BY ONLY <1>1, <1>3, <1>5, HistoryNext
  <1>7. Num(step2') = hist[step2'.processed_count]
    BY ONLY <1>2, <1>3
  <1>8. QED
    BY ONLY <1>6, <1>7 DEF Numbering, Num, Map, Nums, NumsIn

LEMMA NumberingAppend ==
  ASSUME Types, NEW start, Logs(start), NEW hist, Numbering(hist),
         NEW m \in Messages, AppendStep(m)
  PROVE  Numbering(hist)'
  <1>1. UNCHANGED <<unified, buffer, step2>> /\ Written' = Written
    BY DEF AppendStep, Written
  <1>2. /\ hist \in [Nat -> NumType] /\ hist[0] = NumZero
        /\ Num(step2) = hist[step2.processed_count]
        /\ \A i \in 1 .. Len(Written) :
             hist[i] = NextNum(hist[i - 1], Written[i]) /\ HasGids(hist[i - 1], Written[i])
    BY DEF Numbering, History
  <1>3. ASSUME NEW i \in 1 .. Len(Written)
        PROVE  hist[i] = NextNum(hist[i - 1], Written[i])' /\ HasGids(hist[i - 1], Written[i])'
    <2>1. PICK u : u = Written[i]
      OBVIOUS
    <2>2. IsPart(u.msg, u.part)
      BY <2>1 DEF Logs, LogAt
    <2>3. binlog'[u.msg] = binlog[u.msg]
      BY <2>2, LogGrows DEF IsPart
    <2>4. \A a : NextNum(a, u)' = NextNum(a, u) /\ HasGids(a, u)' = HasGids(a, u)
      BY <2>3, SameEntries
    <2>5. hist[i] = NextNum(hist[i - 1], u)' /\ HasGids(hist[i - 1], u)'
      BY <1>2, <2>1, <2>4
    <2>6. Written'[i] = u
      BY <1>1, <2>1
    <2>7. QED
      BY ONLY <2>5, <2>6 DEF NextNum, HasGids, IsInsert, IsOp, EntryOf
  <1>4. History(hist)'
    BY <1>1, <1>2, <1>3 DEF History
  <1>5. Num(step2') = Num(step2) /\ step2'.processed_count = step2.processed_count
    BY <1>1
  <1>6. QED
    BY ONLY <1>2, <1>4, <1>5 DEF Numbering, Num, Map, Nums, NumsIn

LEMMA NumberingStep ==
  ASSUME Types, Types', NEW nx, NEW nx1, NEW start, Progress(nx, start),
         NEW hist, Numbering(hist), Seen(nx, nx1)
  PROVE  \E hist1 : Numbering(hist1)'
  <1>0. Logs(start)
    BY DEF Progress
  <1>1. CASE QuietStep
    <2>1. UNCHANGED binlog /\ Written' = Written /\ step2' = step2
      BY <1>1 DEF QuietStep, Written
    <2>2. QED
      BY <2>1, NumberingSame
  <1>2. CASE DeliverStep
    <2>1. UNCHANGED binlog /\ Written' = Written /\ step2' = step2
      BY <1>2, DeliverWritten DEF DeliverStep
    <2>2. QED
      BY <2>1, NumberingSame
  <1>3. CASE CountStep(nx, nx1)
    <2>1. UNCHANGED binlog /\ Written' = Written /\ SameCounters(step2, step2')
      BY <1>3 DEF CountStep, Written
    <2>2. Num(step2') = Num(step2) /\ step2'.processed_count = step2.processed_count
      BY ONLY <2>1 DEF SameCounters, Num
    <2>3. QED
      BY <2>1, <2>2, NumberingSame
  <1>4. CASE \E k, g : EntryStep(nx, k, g)
    BY <1>4, NumberingEntry
  <1>5. CASE EndStep(nx)
    BY <1>5, NumberingEnd
  <1>6. CASE RestartStep
    BY <1>0, <1>6, NumberingRestart
  <1>7. CASE \E m \in Messages : AppendStep(m)
    BY <1>0, <1>7, NumberingAppend
  <1>8. QED
    BY <1>1, <1>2, <1>3, <1>4, <1>5, <1>6, <1>7 DEF Seen

LEMMA NumberingInit ==
  ASSUME Init
  PROVE  \E hist : Numbering(hist)
  <1>1. PICK hist : hist = [i \in Nat |-> NumZero]
    OBVIOUS
  <1>2. NumZero \in NumType /\ Num(step2) = NumZero /\ step2.processed_count = 0
    <2>1. step2 = InitStep2(0)
      BY DEF Init
    <2>2. Num(step2) = NumZero /\ step2.processed_count = 0
      BY <2>1 DEF InitStep2, Num, Map, Nums, NumsIn, NumZero
    <2>3. step2 \in Step2Type
      BY SeenInit DEF Types
    <2>4. Num(step2) \in NumType
      BY <2>3, NumTypes
    <2>5. QED
      BY ONLY <2>2, <2>4
  <1>3. Len(Written) = 0
    BY DEF Init, Written
  <1>4. hist \in [Nat -> NumType] /\ hist[0] = NumZero
    BY ONLY <1>1, <1>2
  <1>5. QED
    BY <1>2, <1>3, <1>4 DEF Numbering, History


-----------------------------------------------------------------------------
(* What the numbering is after n logs: every fragment's counter is the      *)
(* number of inserts it got.                                                *)

InsertsTo(n) == {j \in 1 .. n : IsInsert(Written[j])}

InFragment(n, f) == {j \in InsertsTo(n) : Written[j].gids[1].fid = f}

LEMMA InFragmentNext ==
  ASSUME NEW n \in Nat, NEW f
  PROVE  /\ InFragment(0, f) = {}
         /\ (IsInsert(Written[n + 1]) /\ Written[n + 1].gids[1].fid = f)
              => InFragment(n + 1, f) = InFragment(n, f) \cup {n + 1}
         /\ ~(IsInsert(Written[n + 1]) /\ Written[n + 1].gids[1].fid = f)
              => InFragment(n + 1, f) = InFragment(n, f)
         /\ n + 1 \notin InFragment(n, f)
         /\ IsFiniteSet(InFragment(n, f)) /\ Cardinality(InFragment(n, f)) \in Nat
  <1>1. 1 .. 0 = {} /\ 1 .. n + 1 = (1 .. n) \cup {n + 1} /\ n + 1 \notin 1 .. n
    OBVIOUS
  <1>2. InFragment(n, f) \subseteq 1 .. n /\ InFragment(0, f) \subseteq 1 .. 0
    BY DEF InFragment, InsertsTo
  <1>3. \A j : j \in InFragment(n + 1, f) <=>
                 j \in 1 .. n + 1 /\ IsInsert(Written[j]) /\ Written[j].gids[1].fid = f
    BY DEF InFragment, InsertsTo
  <1>4. \A j : j \in InFragment(n, f) <=>
                 j \in 1 .. n /\ IsInsert(Written[j]) /\ Written[j].gids[1].fid = f
    BY DEF InFragment, InsertsTo
  <1>5. IsFiniteSet(1 .. n)
    BY FS_Interval
  <1>6. IsFiniteSet(InFragment(n, f))
    BY <1>2, <1>5, FS_Subset
  <1>7. Cardinality(InFragment(n, f)) \in Nat
    BY <1>6, FS_CardinalityType
  <1>8. IsInsert(Written[n + 1]) /\ Written[n + 1].gids[1].fid = f
          => InFragment(n + 1, f) = InFragment(n, f) \cup {n + 1}
    BY ONLY <1>1, <1>3, <1>4
  <1>9. ~(IsInsert(Written[n + 1]) /\ Written[n + 1].gids[1].fid = f)
          => InFragment(n + 1, f) = InFragment(n, f)
    BY ONLY <1>1, <1>3, <1>4
  <1>10. QED
    BY <1>1, <1>2, <1>6, <1>7, <1>8, <1>9

LEMMA GidAtType ==
  ASSUME NEW a \in NumType
  PROVE  /\ GidAt(a).fid \in 0 .. SubgraphNum - 1
         /\ GidAt(a).offset = a.per[GidAt(a).fid]
  <1>1. SubgraphNum \in Nat \ {0} /\ a.nums \in Nat
    BY ConverterAssumption DEF NumType
  <1>2. a.nums % SubgraphNum \in 0 .. SubgraphNum - 1
    BY ONLY <1>1
  <1>3. QED
    BY <1>2 DEF GidAt

LEMMA PerSound ==
  ASSUME Types, NEW hist, History(hist), NEW n \in 0 .. Len(Written),
         NEW f \in 0 .. SubgraphNum - 1
  PROVE  hist[n].per[f] = Cardinality(InFragment(n, f))
  <1>1. PICK N : N = Len(Written)
    OBVIOUS
  <1>2. N \in Nat /\ n \in 0 .. N
    BY <1>1, WrittenFacts
  <1>3. PICK Bad : Bad = {i \in Nat : i <= N /\ hist[i].per[f] # Cardinality(InFragment(i, f))}
    OBVIOUS
  <1>4. 0 \notin Bad
    <2>1. hist[0].per[f] = 0
      BY DEF History, NumZero
    <2>2. Cardinality(InFragment(0, f)) = 0
      BY FS_EmptySet, InFragmentNext
    <2>3. QED
      BY ONLY <1>3, <2>1, <2>2
  <1>5. ASSUME NEW i \in Nat, i + 1 <= N, i \notin Bad PROVE i + 1 \notin Bad
    <2>1. hist[i].per[f] = Cardinality(InFragment(i, f))
      BY ONLY <1>2, <1>3, <1>5
    <2>2. i + 1 \in 1 .. N /\ (i + 1) - 1 = i
      BY ONLY <1>2, <1>5
    <2>3. hist[i + 1] = NextNum(hist[i], Written[i + 1]) /\ HasGids(hist[i], Written[i + 1])
      <3>1. PICK k : k = i + 1
        OBVIOUS
      <3>2. hist[k] = NextNum(hist[k - 1], Written[k]) /\ HasGids(hist[k - 1], Written[k])
        BY <1>1, <2>2, <3>1 DEF History
      <3>3. QED
        BY ONLY <2>2, <3>1, <3>2
    <2>4. hist[i] \in NumType
      BY DEF History
    <2>5. PICK a, u : a = hist[i] /\ u = Written[i + 1]
      OBVIOUS
    <2>6. a \in NumType /\ a.per \in [0 .. SubgraphNum - 1 -> Nat]
      BY ONLY <2>4, <2>5 DEF NumType
    <2>7. GidAt(a).fid \in 0 .. SubgraphNum - 1
      BY ONLY <2>6, GidAtType
    <2>8. CASE IsInsert(u) /\ u.gids[1].fid = f
      <3>1. GidAt(a).fid = f
        BY <2>3, <2>5, <2>8 DEF HasGids
      <3>2. hist[i + 1].per = [a.per EXCEPT ![f] = a.per[f] + 1]
        BY <2>3, <2>5, <2>8, <3>1 DEF NextNum
      <3>3. hist[i + 1].per[f] = a.per[f] + 1
        BY ONLY <2>6, <3>2, f \in 0 .. SubgraphNum - 1
      <3>4. InFragment(i + 1, f) = InFragment(i, f) \cup {i + 1}
            /\ i + 1 \notin InFragment(i, f) /\ IsFiniteSet(InFragment(i, f))
        BY <2>5, <2>8, InFragmentNext
      <3>5. Cardinality(InFragment(i + 1, f)) = Cardinality(InFragment(i, f)) + 1
        BY ONLY <3>4, FS_AddElement
      <3>6. QED
        BY ONLY <1>3, <2>1, <2>5, <3>3, <3>5
    <2>9. CASE ~(IsInsert(u) /\ u.gids[1].fid = f)
      <3>1. hist[i + 1].per[f] = a.per[f]
        <4>1. CASE IsInsert(u)
          <5>1. GidAt(a).fid # f
            BY <2>3, <2>5, <2>9, <4>1 DEF HasGids
          <5>2. hist[i + 1].per = [a.per EXCEPT ![GidAt(a).fid] = a.per[GidAt(a).fid] + 1]
            BY <2>3, <2>5, <4>1 DEF NextNum
          <5>3. QED
            BY ONLY <2>6, <5>1, <5>2, f \in 0 .. SubgraphNum - 1
        <4>2. CASE ~IsInsert(u)
          BY <2>3, <2>5, <4>2 DEF NextNum
        <4>3. QED
          BY <4>1, <4>2
      <3>2. InFragment(i + 1, f) = InFragment(i, f)
        BY <2>5, <2>9, InFragmentNext
      <3>3. QED
        BY ONLY <1>3, <2>1, <2>5, <3>1, <3>2
    <2>10. QED
      BY <2>8, <2>9
  <1>6. Bad = {}
    <2>1. ASSUME Bad # {} PROVE FALSE
      <3>1. Bad \in SUBSET Nat
        BY ONLY <1>3
      <3>2. PICK x \in Bad : \A y \in Bad : x <= y
        BY <2>1, <3>1, LeastNumber
      <3>3. x \in Nat /\ x # 0 /\ x <= N
        BY ONLY <1>3, <1>4, <3>2
      <3>4. PICK y : y = x - 1
        OBVIOUS
      <3>5. y \in Nat /\ y + 1 = x /\ ~(x <= y)
        BY ONLY <3>3, <3>4
      <3>6. y \notin Bad /\ y + 1 <= N
        BY ONLY <3>2, <3>3, <3>5
      <3>7. y + 1 \notin Bad
        BY ONLY <1>5, <3>5, <3>6
      <3>8. QED
        BY ONLY <3>2, <3>5, <3>7
    <2>2. QED
      BY <2>1
  <1>7. QED
    BY ONLY <1>2, <1>3, <1>6

(* The number an insert took. *)
LEMMA GidFacts ==
  ASSUME Types, NEW hist, History(hist), NEW i \in 1 .. Len(Written), IsInsert(Written[i])
  PROVE  /\ i - 1 \in Nat /\ i \in Nat
         /\ Written[i].gids[1].offset
              = Cardinality(InFragment(i - 1, Written[i].gids[1].fid))
  <1>1. i \in Nat /\ i - 1 \in Nat /\ i - 1 \in 0 .. Len(Written)
    <2>1. Len(Written) \in Nat
      BY WrittenFacts
    <2>2. QED
      BY ONLY <2>1, i \in 1 .. Len(Written)
  <1>2. PICK a, g, n : a = hist[i - 1] /\ g = Written[i].gids[1] /\ n = i - 1
    OBVIOUS
  <1>3. HasGids(a, Written[i]) /\ a \in NumType
    BY <1>1, <1>2 DEF History
  <1>4. g = GidAt(a)
    BY <1>2, <1>3 DEF HasGids
  <1>5. g.fid \in 0 .. SubgraphNum - 1 /\ g.offset = a.per[g.fid]
    BY ONLY <1>3, <1>4, GidAtType
  <1>6. PICK f : f = g.fid
    OBVIOUS
  <1>7. f \in 0 .. SubgraphNum - 1 /\ n \in 0 .. Len(Written)
    BY ONLY <1>1, <1>2, <1>5, <1>6
  <1>8. hist[n].per[f] = Cardinality(InFragment(n, f))
    BY <1>7, PerSound
  <1>9. QED
    BY ONLY <1>1, <1>2, <1>5, <1>6, <1>8

LEMMA GidsOrdered ==
  ASSUME Types, NEW hist, History(hist), NEW i \in 1 .. Len(Written), IsInsert(Written[i]),
         NEW j \in 1 .. i - 1, IsInsert(Written[j])
  PROVE  Written[i].gids[1] # Written[j].gids[1]
  <1>1. Len(Written) \in Nat
    BY WrittenFacts
  <1>2. i \in Nat /\ j \in 1 .. Len(Written) /\ j \in Nat /\ j <= i - 1
    BY ONLY <1>1, i \in 1 .. Len(Written), j \in 1 .. i - 1
  <1>3. SUFFICES ASSUME Written[i].gids[1] = Written[j].gids[1] PROVE FALSE
    OBVIOUS
  <1>4. PICK g, f, n, l : g = Written[i].gids[1] /\ f = g.fid /\ n = i - 1 /\ l = j - 1
    OBVIOUS
  <1>5. /\ g.offset = Cardinality(InFragment(n, f))
        /\ g.offset = Cardinality(InFragment(l, f))
        /\ n \in Nat /\ l \in Nat
    BY <1>2, <1>3, <1>4, GidFacts
  <1>6. \A x : x \in 1 .. l => x \in 1 .. n
    BY ONLY <1>2, <1>4
  <1>7. j \in 1 .. n /\ j \notin 1 .. l
    BY ONLY <1>2, <1>4
  <1>8. InFragment(l, f) \subseteq InFragment(n, f)
    BY ONLY <1>6 DEF InFragment, InsertsTo
  <1>9. j \in InFragment(n, f) /\ j \notin InFragment(l, f)
    BY <1>3, <1>4, <1>7 DEF InFragment, InsertsTo
  <1>10. IsFiniteSet(InFragment(n, f))
    BY <1>5, InFragmentNext
  <1>11. QED
    BY ONLY <1>5, <1>8, <1>9, <1>10, FS_Subset

LEMMA HistoryDense ==
  ASSUME Types, NEW hist, History(hist)
  PROVE  GidsDense
  <1> DEFINE gid(i) == Written[i].gids[1]
             inserts(n) == {j \in 1 .. n : IsInsert(Written[j])}
  <1>1. ASSUME NEW i \in inserts(Len(Written))
        PROVE  /\ \A j \in inserts(i - 1) : gid(i) # gid(j)
               /\ gid(i).offset = Cardinality({j \in inserts(i - 1) : gid(j).fid = gid(i).fid})
    <2>1. i \in 1 .. Len(Written) /\ IsInsert(Written[i])
      OBVIOUS
    <2>2. \A j \in inserts(i - 1) : gid(i) # gid(j)
      BY <2>1, GidsOrdered
    <2>3. gid(i).offset = Cardinality(InFragment(i - 1, gid(i).fid))
      BY <2>1, GidFacts
    <2>4. InFragment(i - 1, gid(i).fid) = {j \in inserts(i - 1) : gid(j).fid = gid(i).fid}
      BY DEF InFragment, InsertsTo
    <2>5. QED
      BY <2>2, <2>3, <2>4
  <1>2. QED
    BY <1>1 DEF GidsDense


-----------------------------------------------------------------------------
(* The map: of every key the number of its newest insert. *)

OfKey(n, o) == {j \in InsertsTo(n) : EntryOf(Written[j]).ids[1] = o}

Newest(n, o, a) ==
  /\ o \in DOMAIN a.map =>
       \E j \in OfKey(n, o) :
         (\A k \in OfKey(n, o) : k <= j) /\ a.map[o] = Written[j].gids[1]
  /\ o \notin DOMAIN a.map => OfKey(n, o) = {}

LEMMA OfKeyNext ==
  ASSUME NEW n \in Nat, NEW o
  PROVE  /\ OfKey(0, o) = {}
         /\ OfKey(n, o) \subseteq 1 .. n
         /\ IsInsert(Written[n + 1]) /\ EntryOf(Written[n + 1]).ids[1] = o
              => OfKey(n + 1, o) = OfKey(n, o) \cup {n + 1}
         /\ ~(IsInsert(Written[n + 1]) /\ EntryOf(Written[n + 1]).ids[1] = o)
              => OfKey(n + 1, o) = OfKey(n, o)
  <1>1. 1 .. 0 = {} /\ 1 .. n + 1 = (1 .. n) \cup {n + 1} /\ n + 1 \notin 1 .. n
    OBVIOUS
  <1>2. OfKey(n, o) \subseteq 1 .. n /\ OfKey(0, o) \subseteq 1 .. 0
    BY DEF OfKey, InsertsTo
  <1>3. \A j : j \in OfKey(n + 1, o) <=>
                 j \in 1 .. n + 1 /\ IsInsert(Written[j]) /\ EntryOf(Written[j]).ids[1] = o
    BY DEF OfKey, InsertsTo
  <1>4. \A j : j \in OfKey(n, o) <=>
                 j \in 1 .. n /\ IsInsert(Written[j]) /\ EntryOf(Written[j]).ids[1] = o
    BY DEF OfKey, InsertsTo
  <1>5. IsInsert(Written[n + 1]) /\ EntryOf(Written[n + 1]).ids[1] = o
          => OfKey(n + 1, o) = OfKey(n, o) \cup {n + 1}
    BY ONLY <1>1, <1>3, <1>4
  <1>6. ~(IsInsert(Written[n + 1]) /\ EntryOf(Written[n + 1]).ids[1] = o)
          => OfKey(n + 1, o) = OfKey(n, o)
    BY ONLY <1>1, <1>3, <1>4
  <1>7. QED
    BY <1>1, <1>2, <1>5, <1>6

LEMMA NewestNext ==
  ASSUME NEW n \in Nat, NEW o, NEW a, Newest(n, o, a), HasGids(a, Written[n + 1])
  PROVE  Newest(n + 1, o, NextNum(a, Written[n + 1]))
  <1>1. PICK u, b : u = Written[n + 1] /\ b = NextNum(a, u)
    OBVIOUS
  <1>2. HasGids(a, u)
    BY <1>1
  <1>3. \A k \in OfKey(n, o) : k <= n + 1
    BY OfKeyNext
  <1>4. CASE IsInsert(u) /\ EntryOf(u).ids[1] = o
    <2>1. OfKey(n + 1, o) = OfKey(n, o) \cup {n + 1}
      BY <1>1, <1>4, OfKeyNext
    <2>2. b.map = SetGid(a.map, o, GidAt(a)) /\ u.gids[1] = GidAt(a)
      BY <1>1, <1>2, <1>4 DEF NextNum, HasGids
    <2>3. o \in DOMAIN b.map /\ b.map[o] = u.gids[1]
      BY ONLY <2>2 DEF SetGid
    <2>4. n + 1 \in OfKey(n + 1, o) /\ \A k \in OfKey(n + 1, o) : k <= n + 1
      BY ONLY <1>3, <2>1, n \in Nat
    <2>5. QED
      BY <1>1, <2>3, <2>4 DEF Newest
  <1>5. CASE ~(IsInsert(u) /\ EntryOf(u).ids[1] = o)
    <2>1. OfKey(n + 1, o) = OfKey(n, o)
      BY <1>1, <1>5, OfKeyNext
    <2>2. /\ o \in DOMAIN b.map <=> o \in DOMAIN a.map
          /\ o \in DOMAIN a.map => b.map[o] = a.map[o]
      <3>1. CASE IsInsert(u)
        <4>1. b.map = SetGid(a.map, EntryOf(u).ids[1], GidAt(a)) /\ o # EntryOf(u).ids[1]
          BY <1>1, <1>5, <3>1 DEF NextNum
        <4>2. QED
          BY ONLY <4>1 DEF SetGid
      <3>2. CASE ~IsInsert(u)
        BY <1>1, <3>2 DEF NextNum
      <3>3. QED
        BY <3>1, <3>2
    <2>3. QED
      BY <1>1, <2>1, <2>2 DEF Newest
  <1>6. QED
    BY <1>4, <1>5

LEMMA MapSound ==
  ASSUME Types, NEW hist, History(hist), NEW n \in 0 .. Len(Written), NEW o
  PROVE  Newest(n, o, hist[n])
  <1>1. PICK N : N = Len(Written)
    OBVIOUS
  <1>2. N \in Nat /\ n \in 0 .. N
    BY <1>1, WrittenFacts
  <1>3. PICK Bad : Bad = {i \in Nat : i <= N /\ ~Newest(i, o, hist[i])}
    OBVIOUS
  <1>4. 0 \notin Bad
    <2>1. hist[0].map = << >>
      BY DEF History, NumZero
    <2>2. o \notin DOMAIN hist[0].map
      BY ONLY <2>1
    <2>3. OfKey(0, o) = {}
      BY OfKeyNext
    <2>4. Newest(0, o, hist[0])
      BY ONLY <2>2, <2>3 DEF Newest
    <2>5. QED
      BY ONLY <1>3, <2>4
  <1>5. ASSUME NEW i \in Nat, i + 1 <= N, i \notin Bad PROVE i + 1 \notin Bad
    <2>1. Newest(i, o, hist[i])
      BY ONLY <1>2, <1>3, <1>5
    <2>2. i + 1 \in 1 .. N /\ (i + 1) - 1 = i
      BY ONLY <1>2, <1>5
    <2>3. hist[i + 1] = NextNum(hist[i], Written[i + 1]) /\ HasGids(hist[i], Written[i + 1])
      <3>1. PICK k : k = i + 1
        OBVIOUS
      <3>2. hist[k] = NextNum(hist[k - 1], Written[k]) /\ HasGids(hist[k - 1], Written[k])
        BY <1>1, <2>2, <3>1 DEF History
      <3>3. QED
        BY ONLY <2>2, <3>1, <3>2
    <2>4. Newest(i + 1, o, NextNum(hist[i], Written[i + 1]))
      BY <2>1, <2>3, NewestNext
    <2>5. Newest(i + 1, o, hist[i + 1])
      BY ONLY <2>3, <2>4
    <2>6. QED
      BY ONLY <1>3, <2>5
  <1>6. Bad = {}
    <2>1. ASSUME Bad # {} PROVE FALSE
      <3>1. Bad \in SUBSET Nat
        BY ONLY <1>3
      <3>2. PICK x \in Bad : \A y \in Bad : x <= y
        BY <2>1, <3>1, LeastNumber
      <3>3. x \in Nat /\ x # 0 /\ x <= N
        BY ONLY <1>3, <1>4, <3>2
      <3>4. PICK y : y = x - 1
        OBVIOUS
      <3>5. y \in Nat /\ y + 1 = x /\ ~(x <= y)
        BY ONLY <3>3, <3>4
      <3>6. y \notin Bad /\ y + 1 <= N
        BY ONLY <3>2, <3>3, <3>5
      <3>7. y + 1 \notin Bad
        BY ONLY <1>5, <3>5, <3>6
      <3>8. QED
        BY ONLY <3>2, <3>5, <3>7
    <2>2. QED
      BY <2>1
  <1>7. QED
    BY ONLY <1>2, <1>3, <1>6


(* The largest number of a set that is bounded. *)
LEMMA MaxFacts ==
  ASSUME NEW S \in SUBSET Nat, S # {}, NEW n \in Nat, \A x \in S : x <= n
  PROVE  Max(S) \in S /\ \A x \in S : x <= Max(S)
  <1>1. PICK B : B = {b \in Nat : \A x \in S : x <= b}
    OBVIOUS
  <1>2. B \in SUBSET Nat /\ B # {}
    BY ONLY <1>1, n \in Nat, \A x \in S : x <= n
  <1>3. PICK b \in B : \A c \in B : b <= c
    BY <1>2, LeastNumber
  <1>4. b \in Nat /\ \A x \in S : x <= b
    BY ONLY <1>1, <1>3
  <1>5. b \in S
    <2>1. ASSUME b \notin S PROVE FALSE
      <3>1. \A x \in S : x \in Nat /\ x < b
        BY <1>4, <2>1
      <3>2. b # 0
        <4>1. PICK z : z \in S
          OBVIOUS
        <4>2. z \in Nat /\ z < b
          BY ONLY <3>1, <4>1
        <4>3. QED
          BY ONLY <1>4, <4>2
      <3>3. PICK c : c = b - 1
        OBVIOUS
      <3>4. c \in Nat /\ ~(b <= c)
        BY ONLY <1>4, <3>2, <3>3
      <3>5. \A x \in S : x <= c
        BY ONLY <1>4, <3>1, <3>3
      <3>6. QED
        BY ONLY <1>1, <1>3, <3>4, <3>5
    <2>2. QED
      BY <2>1
  <1>6. \E x \in S : \A y \in S : x >= y
    BY ONLY <1>4, <1>5, S \in SUBSET Nat
  <1>7. Max(S) \in S /\ \A y \in S : Max(S) >= y
    BY ONLY <1>6 DEF Max
  <1>8. QED
    BY ONLY <1>7, S \in SUBSET Nat

-----------------------------------------------------------------------------
(* The database's keys: what a row refers to was inserted before it. *)

InsertsKey(m, o) ==
  /\ m \in DOMAIN binlog /\ binlog[m].ents # << >>
  /\ binlog[m].ents[1].op = "insert" /\ binlog[m].ents[1].ids[1] = o

RefersBack(m, k) ==
  binlog[m].ents[k].op # "insert" =>
    \A j \in DOMAIN binlog[m].ents[k].ids :
      \E l \in 1 .. m - 1 : InsertsKey(l, binlog[m].ents[k].ids[j])

Referred == \A m \in DOMAIN binlog : \A k \in DOMAIN binlog[m].ents : RefersBack(m, k)

LEMMA LiveFacts ==
  ASSUME Types, NEW o, Live(o)
  PROVE  \E m \in DOMAIN binlog : InsertsKey(m, o)
  <1>1. PICK S : S = {i \in DOMAIN binlog :
                        /\ binlog[i].ents # << >>
                        /\ binlog[i].ents[1].op \in {"insert", "delete"}
                        /\ binlog[i].ents[1].ids[1] = o}
    OBVIOUS
  <1>2. S # {} /\ binlog[Max(S)].ents[1].op = "insert"
    BY <1>1 DEF Live
  <1>3. Len(binlog) \in Nat /\ DOMAIN binlog = 1 .. Len(binlog)
    BY BinlogFacts
  <1>4. S \in SUBSET Nat /\ \A x \in S : x <= Len(binlog)
    BY ONLY <1>1, <1>3
  <1>5. Max(S) \in S
    BY ONLY <1>2, <1>3, <1>4, MaxFacts
  <1>6. QED
    BY ONLY <1>1, <1>2, <1>5 DEF InsertsKey

LEMMA ReferredAppend ==
  ASSUME Types, Referred, NEW m \in Messages, AppendStep(m)
  PROVE  Referred'
  <1>1. PICK n : n = Len(binlog)
    OBVIOUS
  <1>2. /\ n \in Nat /\ DOMAIN binlog = 1 .. n /\ DOMAIN binlog' = 1 .. n + 1
        /\ \A i \in DOMAIN binlog : binlog'[i] = binlog[i]
        /\ binlog'[n + 1].ents = m.ents
    BY <1>1, LogGrows
  <1>3. \A i, o : InsertsKey(i, o) => InsertsKey(i, o)'
    BY ONLY <1>2 DEF InsertsKey
  <1>4. ASSUME NEW i \in 1 .. n, NEW k \in DOMAIN binlog'[i].ents PROVE RefersBack(i, k)'
    <2>1. binlog'[i] = binlog[i] /\ RefersBack(i, k)
      BY <1>2 DEF Referred
    <2>2. QED
      BY ONLY <1>3, <2>1 DEF RefersBack
  <1>5. ASSUME NEW k \in DOMAIN m.ents PROVE RefersBack(n + 1, k)'
    <2>1. PICK e : e = m.ents[k]
      OBVIOUS
    <2>2. ASSUME e.op # "insert", NEW j \in DOMAIN e.ids
          PROVE  \E l \in 1 .. n : InsertsKey(l, e.ids[j])
      <3>1. Live(e.ids[j])
        BY <2>1, <2>2 DEF AppendStep, BinlogAppend, KeysHold
      <3>2. QED
        BY <1>2, <3>1, LiveFacts
    <2>3. (n + 1) - 1 = n
      BY ONLY <1>2
    <2>4. PICK p : p = n + 1
      OBVIOUS
    <2>5. binlog'[p].ents[k] = e /\ p - 1 = n
      BY ONLY <1>2, <2>1, <2>3, <2>4
    <2>6. RefersBack(p, k)'
      BY ONLY <1>3, <2>2, <2>5 DEF RefersBack
    <2>7. QED
      BY <2>4, <2>6
  <1>6. \A i \in 1 .. n + 1 : i \in 1 .. n \/ i = n + 1
    BY ONLY <1>2
  <1>7. \A i \in DOMAIN binlog' : \A k \in DOMAIN binlog'[i].ents : RefersBack(i, k)'
    <2>1. ASSUME NEW i \in DOMAIN binlog', NEW k \in DOMAIN binlog'[i].ents
          PROVE  RefersBack(i, k)'
      <3>1. CASE i \in 1 .. n
        BY <1>4, <3>1
      <3>2. CASE i = n + 1
        <4>1. k \in DOMAIN m.ents
          BY ONLY <1>2, <3>2, k \in DOMAIN binlog'[i].ents
        <4>2. QED
          BY <1>5, <3>2, <4>1
      <3>3. QED
        BY <1>2, <1>6, <3>1, <3>2
    <2>2. QED
      BY <2>1
  <1>8. QED
    BY <1>7 DEF Referred

LEMMA ReferredStep ==
  ASSUME Types, Referred, NEW nx, NEW nx1, Seen(nx, nx1)
  PROVE  Referred'
  <1>1. CASE \E m \in Messages : AppendStep(m)
    BY <1>1, ReferredAppend
  <1>2. CASE UNCHANGED binlog
    BY <1>2 DEF Referred, RefersBack, InsertsKey
  <1>3. Seen(nx, nx1) => UNCHANGED binlog \/ \E m \in Messages : AppendStep(m)
    BY DEF Seen, QuietStep, CountStep, EntryStep, EndStep, DeliverStep, RestartStep
  <1>4. QED
    BY <1>1, <1>2, <1>3

(* The vertex an entry refers to is in a log before its own. *)
LEMMA ReferenceWritten ==
  ASSUME Types, Referred, NEW start, Starts(start), Logs(start),
         NEW i \in 1 .. Len(Written), IsOp(Written[i]), ~IsInsert(Written[i]),
         NEW j \in DOMAIN EntryOf(Written[i]).ids
  PROVE  OfKey(i - 1, EntryOf(Written[i]).ids[j]) # {}
  <1>1. PICK u, m, k, o : /\ u = Written[i] /\ m = u.msg /\ k = u.part
                          /\ o = EntryOf(Written[i]).ids[j]
    OBVIOUS
  <1>2. IsPart(m, k) /\ i = start[m] + PlaceOf(m, k)
    BY <1>1 DEF Logs, LogAt
  <1>3. k > 0 /\ binlog[m].ents[k].op # "insert" /\ j \in DOMAIN binlog[m].ents[k].ids
        /\ o = binlog[m].ents[k].ids[j]
    BY <1>1 DEF IsOp, IsInsert, EntryOf
  <1>4. m \in DOMAIN binlog /\ k \in DOMAIN binlog[m].ents
    <2>1. m \in DOMAIN binlog /\ k \in 0 .. Entries[m]
      BY ONLY <1>2 DEF IsPart
    <2>2. DOMAIN binlog[m].ents = 1 .. Entries[m] /\ Entries[m] \in Nat
      BY <2>1, BinlogFacts
    <2>3. QED
      BY ONLY <1>3, <2>1, <2>2
  <1>5. PICK l \in 1 .. m - 1 : InsertsKey(l, o)
    BY <1>3, <1>4 DEF Referred, RefersBack
  <1>6. l \in DOMAIN binlog /\ Entries[l] \in Nat /\ Entries[l] >= 1
    <2>1. l \in DOMAIN binlog /\ binlog[l].ents # << >>
      BY ONLY <1>5 DEF InsertsKey
    <2>2. binlog[l].ents \in Seq(Entry) /\ Entries[l] = Len(binlog[l].ents)
      BY <2>1, BinlogFacts
    <2>3. QED
      BY ONLY <2>1, <2>2
  <1>7. IsPart(l, 1) /\ PlaceOf(l, 1) = 1
    BY ONLY <1>6 DEF IsPart, PlaceOf
  <1>8. l < m /\ start[l] \in Nat
    <2>1. m \in Nat
      BY <1>4, BinlogFacts
    <2>2. l < m
      BY ONLY <1>5, <2>1
    <2>3. QED
      BY <1>6, <2>2, PartFacts
  <1>9. start[l] + PlaceOf(l, 1) < i
    BY <1>2, <1>7, <1>8, PlaceBefore
  <1>10. PICK p : p = start[l] + 1
    OBVIOUS
  <1>11. p \in 1 .. i - 1 /\ p \in 1 .. Len(Written)
    <2>1. Len(Written) \in Nat
      BY WrittenFacts
    <2>2. p = start[l] + PlaceOf(l, 1)
      BY ONLY <1>7, <1>10
    <2>3. p < i /\ p \in Nat /\ p >= 1
      BY ONLY <1>8, <1>9, <1>10, <2>2
    <2>4. QED
      BY ONLY <2>1, <2>3, i \in 1 .. Len(Written)
  <1>12. Written[p].msg = l /\ Written[p].part = 1
    BY <1>7, <1>10, <1>11, LogIs
  <1>13. IsInsert(Written[p]) /\ EntryOf(Written[p]).ids[1] = o
    BY <1>5, <1>12 DEF InsertsKey, IsInsert, IsOp, EntryOf
  <1>14. p \in OfKey(i - 1, o)
    BY ONLY <1>11, <1>13 DEF OfKey, InsertsTo
  <1>15. QED
    BY <1>1, <1>14

LEMMA HistoryResolves ==
  ASSUME Types, Referred, NEW start, Starts(start), Logs(start), NEW hist, History(hist)
  PROVE  IdsResolve
  <1>1. ASSUME NEW i \in 1 .. Len(Written), IsOp(Written[i]), ~IsInsert(Written[i]),
               NEW k \in DOMAIN EntryOf(Written[i]).ids,
               NEW S, S = OfKey(i - 1, EntryOf(Written[i]).ids[k])
        PROVE  S # {} /\ Written[Max(S)].gids[1] = Written[i].gids[k]
    <2>1. PICK a, o, n : a = hist[i - 1] /\ o = EntryOf(Written[i]).ids[k] /\ n = i - 1
      OBVIOUS
    <2>2. S # {}
      BY <1>1, ReferenceWritten
    <2>3. n \in 0 .. Len(Written) /\ n \in Nat
      <3>1. Len(Written) \in Nat
        BY WrittenFacts
      <3>2. QED
        BY ONLY <2>1, <3>1, i \in 1 .. Len(Written)
    <2>4. Newest(n, o, a)
      BY <2>1, <2>3, MapSound
    <2>5. S = OfKey(n, o)
      BY <1>1, <2>1
    <2>6. PICK j \in S : (\A x \in S : x <= j) /\ a.map[o] = Written[j].gids[1]
      BY <2>2, <2>4, <2>5 DEF Newest
    <2>7. S \in SUBSET Nat /\ \A x \in S : x <= n
      <3>1. S \subseteq 1 .. n
        BY <2>3, <2>5, OfKeyNext
      <3>2. QED
        BY ONLY <2>3, <3>1
    <2>8. Max(S) \in S /\ \A x \in S : x <= Max(S)
      BY ONLY <2>2, <2>3, <2>7, MaxFacts
    <2>9. Max(S) = j
      <3>1. PICK p : p = Max(S)
        OBVIOUS
      <3>2. p \in Nat /\ j \in Nat /\ p <= j /\ j <= p
        BY <2>6, <2>7, <2>8, <3>1
      <3>3. p = j
        BY ONLY <3>2
      <3>4. QED
        BY <3>1, <3>3
    <2>10. o \in DOMAIN a.map
      BY <2>2, <2>4, <2>5 DEF Newest
    <2>11. Written[i].gids[k] = Lookup(a, o)
      <3>1. HasGids(a, Written[i])
        BY <2>1 DEF History
      <3>2. QED
        BY <1>1, <2>1, <3>1 DEF HasGids
    <2>12. QED
      BY <2>2, <2>6, <2>9, <2>10, <2>11 DEF Lookup
  <1>2. DOMAIN Written = 1 .. Len(Written)
    BY WrittenFacts
  <1>3. ASSUME NEW i \in 1 .. Len(Written), IsOp(Written[i]), ~IsInsert(Written[i]),
               NEW k \in DOMAIN EntryOf(Written[i]).ids
        PROVE  LET inserts == {j \in 1 .. i - 1 :
                                 IsInsert(Written[j])
                                   /\ EntryOf(Written[j]).ids[1] = EntryOf(Written[i]).ids[k]}
               IN  inserts # {} /\ Written[Max(inserts)].gids[1] = Written[i].gids[k]
    <2>1. PICK S : S = {j \in 1 .. i - 1 :
                          IsInsert(Written[j])
                            /\ EntryOf(Written[j]).ids[1] = EntryOf(Written[i]).ids[k]}
      OBVIOUS
    <2>2. S = OfKey(i - 1, EntryOf(Written[i]).ids[k])
      BY <2>1 DEF OfKey, InsertsTo
    <2>3. S # {} /\ Written[Max(S)].gids[1] = Written[i].gids[k]
      BY <1>1, <1>3, <2>2
    <2>4. QED
      BY ONLY <2>1, <2>3
  <1>4. QED
    BY <1>2, <1>3 DEF IdsResolve


-----------------------------------------------------------------------------
(* The epochs, counted in logs and with transaction ids: ep[m] are the      *)
(* counters before message m.  They follow from the binlog alone.           *)

Counters(s) ==
  [epoch |-> s.epoch, tx |-> s.last_tx_id, from |-> s.last_log_count,
   loaded |-> s.bulk_load_finished, count |-> s.log_count]

CounterType == [epoch : Int, tx : Int, from : Nat, loaded : BOOLEAN, count : Nat]

CounterZero == [epoch |-> 0, tx |-> -1, from |-> 0, loaded |-> FALSE, count |-> 0]

Begun(c) ==
  [epoch |-> c.epoch, tx |-> c.tx, from |-> c.from, loaded |-> c.loaded, count |-> c.count + 1]

Settled(c, tx) == (EnableBulkLoad /\ ~c.loaded) \/ tx = c.tx

AfterMsg(c, m) ==
  IF Entries[m] = 0 THEN c
  ELSE IF binlog[m].last
       THEN [epoch |-> 1, tx |-> binlog[m].tx, from |-> c.count + 1, loaded |-> TRUE,
             count |-> c.count + 1]
  ELSE IF Settled(c, binlog[m].tx) THEN Begun(c)
  ELSE IF c.count + 1 - c.from >= LogsPerEpoch
       THEN [epoch |-> c.epoch + 1, tx |-> binlog[m].tx, from |-> c.count + 1,
             loaded |-> c.loaded, count |-> c.count + 1]
  ELSE [epoch |-> c.epoch, tx |-> binlog[m].tx, from |-> c.from, loaded |-> c.loaded,
        count |-> c.count + 1]

EpochsFrom(ep) ==
  /\ ep \in [Nat -> CounterType] /\ ep[1] = CounterZero
  /\ \A m \in DOMAIN binlog : ep[m + 1] = AfterMsg(ep[m], m)

LogEpoch(ep, u) == IF u.part = 0 THEN 1 ELSE ep[u.msg].epoch

InEpochs(ep) == \A i \in 1 .. Len(Written) : Written[i].epoch = LogEpoch(ep, Written[i])

CountersAt(nx, ep) == Counters(step2) = IF Busy THEN Begun(ep[nx]) ELSE ep[nx]

Counting(nx, ep) == EpochsFrom(ep) /\ InEpochs(ep) /\ CountersAt(nx, ep)

LEMMA CounterTypes ==
  ASSUME NEW s \in Step2Type
  PROVE  Counters(s) \in CounterType
  BY DEF Step2Type, Counters, CounterType

LEMMA AfterMsgType ==
  ASSUME Types, NEW c \in CounterType, NEW m \in DOMAIN binlog
  PROVE  AfterMsg(c, m) \in CounterType /\ Begun(c) \in CounterType
  <1>1. binlog[m].tx \in Nat /\ binlog[m].tx \in Int
    <2>1. binlog[m].tx \in Nat
      BY BinlogFacts
    <2>2. QED
      BY ONLY <2>1
  <1>2. /\ c.epoch \in Int /\ c.epoch + 1 \in Int /\ c.tx \in Int /\ c.from \in Nat
        /\ c.loaded \in BOOLEAN /\ c.count + 1 \in Nat /\ c = c
    BY ONLY c \in CounterType DEF CounterType
  <1>3. Begun(c) \in CounterType
    BY ONLY <1>2 DEF Begun, CounterType
  <1>4. /\ [epoch |-> 1, tx |-> binlog[m].tx, from |-> c.count + 1, loaded |-> TRUE,
            count |-> c.count + 1] \in CounterType
        /\ [epoch |-> c.epoch + 1, tx |-> binlog[m].tx, from |-> c.count + 1,
            loaded |-> c.loaded, count |-> c.count + 1] \in CounterType
        /\ [epoch |-> c.epoch, tx |-> binlog[m].tx, from |-> c.from, loaded |-> c.loaded,
            count |-> c.count + 1] \in CounterType
    BY ONLY <1>1, <1>2 DEF CounterType
  <1>5. QED
    BY ONLY <1>3, <1>4, c \in CounterType DEF AfterMsg

CountersTyped ==
  \A c \in CounterType : \A m \in DOMAIN binlog : AfterMsg(c, m) \in CounterType

LEMMA AfterMsgTypes == Types => CountersTyped
  BY AfterMsgType DEF CountersTyped

(* While the binlog stays, so do the counters it makes. *)
LEMMA EpochsSame ==
  ASSUME UNCHANGED binlog, NEW ep, EpochsFrom(ep)
  PROVE  EpochsFrom(ep)'
  <1>1. Entries' = Entries
    BY DEF Entries
  <1>2. \A c, m : AfterMsg(c, m)' = AfterMsg(c, m)
    BY <1>1 DEF AfterMsg
  <1>3. QED
    BY <1>2 DEF EpochsFrom

LEMMA InEpochsSame ==
  ASSUME NEW ep, InEpochs(ep), Written' = Written
  PROVE  InEpochs(ep)'
  BY DEF InEpochs

LEMMA InEpochsWrite ==
  ASSUME Types, Window, NEW u, WriteStep(u), NEW ep, InEpochs(ep), u.epoch = LogEpoch(ep, u)
  PROVE  InEpochs(ep)'
  <1>1. CASE Written' = Written
    BY <1>1, InEpochsSame
  <1>2. CASE /\ Len(Written') = Len(Written) + 1 /\ Written'[Len(Written) + 1] = u
             /\ \A i \in 1 .. Len(Written) : Written'[i] = Written[i]
    <2>1. PICK n : n = Len(Written)
      OBVIOUS
    <2>2. n \in Nat
      BY <2>1, WrittenFacts
    <2>3. \A i \in 1 .. n : Written'[i].epoch = LogEpoch(ep, Written'[i])
      BY <1>2, <2>1 DEF InEpochs
    <2>4. Written'[n + 1].epoch = LogEpoch(ep, Written'[n + 1]) /\ Len(Written') = n + 1
      BY <1>2, <2>1
    <2>5. \A i \in 1 .. n + 1 : i \in 1 .. n \/ i = n + 1
      BY ONLY <2>2
    <2>6. \A i \in 1 .. Len(Written') : Written'[i].epoch = LogEpoch(ep, Written'[i])
      BY ONLY <2>3, <2>4, <2>5
    <2>7. QED
      BY <2>6 DEF InEpochs, LogEpoch
  <1>3. QED
    BY <1>1, <1>2, WriteFacts

LEMMA CountingCount ==
  ASSUME Types, NEW nx, NEW nx1, NEW start, Reached(nx, start),
         NEW ep, Counting(nx, ep), CountStep(nx, nx1)
  PROVE  Counting(nx1, ep)'
  <1>1. UNCHANGED binlog /\ Written' = Written /\ ~Busy /\ SameCounters(step2, step2')
    BY DEF CountStep, Written
  <1>2. EpochsFrom(ep)' /\ InEpochs(ep)'
    BY <1>1, EpochsSame, InEpochsSame DEF Counting
  <1>3. Counters(step2) = ep[nx]
    BY <1>1 DEF Counting, CountersAt
  <1>4. nx + 1 \in Nat /\ nx \in Nat
    BY BinlogFacts DEF Reached
  <1>5. CASE /\ step2'.left = 0 /\ step2'.msg = 0 /\ step2'.log_count = step2.log_count
             /\ nx1 = nx \/ (nx1 = nx + 1 /\ nx \in DOMAIN binlog /\ Entries[nx] = 0)
    <2>1. Counters(step2') = Counters(step2)
      BY <1>1, <1>5 DEF Counters, SameCounters
    <2>2. ep[nx1] = ep[nx]
      BY <1>5 DEF Counting, EpochsFrom, AfterMsg
    <2>3. ~Busy'
      BY <1>5 DEF Busy
    <2>4. CountersAt(nx1, ep)'
      BY ONLY <1>3, <2>1, <2>2, <2>3 DEF CountersAt, Counters
    <2>5. QED
      BY <1>2, <2>4 DEF Counting
  <1>6. CASE /\ nx1 = nx /\ nx \in DOMAIN binlog /\ Entries[nx] > 0
             /\ step2'.left = Entries[nx] /\ step2'.msg = 0
             /\ step2'.log_count = step2.log_count + 1
    <2>1. PICK c : c = ep[nx]
      OBVIOUS
    <2>2. /\ c.epoch = step2.epoch /\ c.tx = step2.last_tx_id /\ c.from = step2.last_log_count
          /\ c.loaded = step2.bulk_load_finished /\ c.count = step2.log_count
      BY ONLY <1>3, <2>1 DEF Counters
    <2>3. Counters(step2') = Begun(c)
      BY ONLY <1>1, <1>6, <2>2 DEF Counters, Begun, SameCounters
    <2>4. Busy'
      BY <1>6 DEF Busy
    <2>5. CountersAt(nx1, ep)'
      BY ONLY <1>6, <2>1, <2>3, <2>4 DEF CountersAt, Counters
    <2>6. QED
      BY <1>2, <2>5 DEF Counting
  <1>7. QED
    BY <1>5, <1>6 DEF CountStep

LEMMA CountingEntry ==
  ASSUME Types, NEW nx, NEW start, Progress(nx, start), NEW ep, Counting(nx, ep),
         NEW k, NEW g, EntryStep(nx, k, g)
  PROVE  Counting(nx, ep)'
  <1>1. PICK u : u = LogOf([msg |-> nx, part |-> k], g)
    OBVIOUS
  <1>2. WriteStep(u) /\ UNCHANGED binlog
    BY <1>1, EntryWrites
  <1>3. Busy /\ Busy'
    BY <1>1, EntryPlace
  <1>4. Counters(step2) = Begun(ep[nx])
    BY <1>3 DEF Counting, CountersAt
  <1>5. u.msg = nx /\ u.part = k /\ u.epoch = step2.epoch
    BY <1>1 DEF LogOf
  <1>6. step2.epoch = ep[nx].epoch
    <2>1. Counters(step2).epoch = step2.epoch
      BY DEF Counters
    <2>2. Begun(ep[nx]).epoch = ep[nx].epoch
      BY DEF Begun
    <2>3. QED
      BY <1>4, <2>1, <2>2
  <1>7. k # 0
    <2>1. k \in 1 .. Entries[nx] /\ nx \in DOMAIN binlog
      BY DEF EntryStep
    <2>2. Entries[nx] \in Nat
      BY <2>1, BinlogFacts
    <2>3. QED
      BY ONLY <2>1, <2>2
  <1>8. u.epoch = LogEpoch(ep, u)
    BY <1>5, <1>6, <1>7 DEF LogEpoch
  <1>9. InEpochs(ep)'
    BY <1>2, <1>8, InEpochsWrite DEF Progress, Counting
  <1>10. EpochsFrom(ep)'
    BY <1>2, EpochsSame DEF Counting
  <1>11. Counters(step2') = Counters(step2)
    BY DEF EntryStep, Counters
  <1>12. CountersAt(nx, ep)'
    BY ONLY <1>3, <1>4, <1>11 DEF CountersAt, Counters
  <1>13. QED
    BY <1>9, <1>10, <1>12 DEF Counting


LEMMA CountingEnd ==
  ASSUME UseLogsPerEpoch, TxIds,
         Types, NEW nx, NEW start, Progress(nx, start), NEW ep, Counting(nx, ep), EndStep(nx)
  PROVE  Counting(nx + 1, ep)'
  <1>1. /\ nx \in DOMAIN binlog /\ Entries[nx] > 0 /\ step2.left = 0 /\ step2.msg = nx
        /\ UNCHANGED <<binlog, unified>> /\ step2'.log_count = step2.log_count
    BY DEF EndStep
  <1>2. ~Busy'
    BY EndPlace
  <1>3. Busy /\ binlog[nx].last \in BOOLEAN
    <2>1. nx # 0 /\ binlog[nx].last \in BOOLEAN
      BY <1>1, BinlogFacts
    <2>2. QED
      BY <1>1, <2>1 DEF Busy
  <1>4. PICK c, m : c = ep[nx] /\ m = binlog[nx]
    OBVIOUS
  <1>5. Counters(step2) = Begun(c)
    BY <1>3, <1>4 DEF Counting, CountersAt
  <1>6. /\ step2.epoch = c.epoch /\ step2.last_tx_id = c.tx /\ step2.last_log_count = c.from
        /\ step2.bulk_load_finished = c.loaded /\ step2.log_count = c.count + 1
    BY ONLY <1>5 DEF Counters, Begun
  <1>7. ep[nx + 1] = AfterMsg(c, nx)
    BY <1>1, <1>4 DEF Counting, EpochsFrom
  <1>8. Entries[nx] # 0 /\ m.last \in BOOLEAN
    BY <1>1, <1>3, <1>4
  <1>9. Counters(step2') = AfterMsg(c, nx)
    <2>1. CASE m.last
      <3>1. /\ step2'.bulk_load_finished = TRUE /\ step2'.last_tx_id = m.tx
            /\ step2'.last_log_count = step2.log_count /\ step2'.epoch = 1
        BY <1>4, <2>1 DEF EndStep
      <3>2. Counters(step2') = [epoch |-> 1, tx |-> m.tx, from |-> c.count + 1, loaded |-> TRUE,
                                count |-> c.count + 1]
        BY ONLY <1>1, <1>6, <3>1 DEF Counters
      <3>3. QED
        BY ONLY <1>4, <1>8, <2>1, <3>2 DEF AfterMsg
    <2>2. CASE ~m.last
      <3>1. /\ step2'.bulk_load_finished = step2.bulk_load_finished
            /\ EpochChange(step2, step2', m.tx)
        BY <1>4, <2>2 DEF EndStep
      <3>2. SameEpoch(step2, m.tx) <=> Settled(c, m.tx)
        BY ONLY <1>6 DEF SameEpoch, Settled
      <3>3. CASE Settled(c, m.tx)
        <4>1. step2'.epoch = step2.epoch /\ step2'.last_tx_id = step2.last_tx_id
              /\ step2'.last_log_count = step2.last_log_count
          BY ONLY <3>1, <3>2, <3>3 DEF EpochChange
        <4>2. Counters(step2') = Begun(c)
          BY ONLY <1>1, <1>6, <3>1, <4>1 DEF Counters, Begun
        <4>3. QED
          BY ONLY <1>4, <1>8, <2>2, <3>3, <4>2 DEF AfterMsg
      <3>4. CASE ~Settled(c, m.tx)
        <4>0. c.count \in Nat /\ c.from \in Nat
          <5>1. nx \in Nat /\ ep \in [Nat -> CounterType]
            BY <1>1, BinlogFacts DEF Counting, EpochsFrom
          <5>2. c \in CounterType
            BY ONLY <1>4, <5>1
          <5>3. QED
            BY ONLY <5>2 DEF CounterType
        <4>1. /\ step2'.last_tx_id = m.tx
              /\ IF step2.log_count - step2.last_log_count >= LogsPerEpoch
                 THEN step2'.epoch = step2.epoch + 1 /\ step2'.last_log_count = step2.log_count
                 ELSE step2'.epoch = step2.epoch
                      /\ step2'.last_log_count = step2.last_log_count
          BY ONLY <3>1, <3>2, <3>4 DEF EpochChange
        <4>2. AfterMsg(c, nx) =
                IF c.count + 1 - c.from >= LogsPerEpoch
                THEN [epoch |-> c.epoch + 1, tx |-> m.tx, from |-> c.count + 1,
                      loaded |-> c.loaded, count |-> c.count + 1]
                ELSE [epoch |-> c.epoch, tx |-> m.tx, from |-> c.from, loaded |-> c.loaded,
                      count |-> c.count + 1]
          BY ONLY <1>4, <1>8, <2>2, <3>4 DEF AfterMsg
        <4>3. CASE step2.log_count - step2.last_log_count >= LogsPerEpoch
          <5>1. c.count + 1 - c.from >= LogsPerEpoch
            BY ONLY <1>6, <4>3, <4>0
          <5>2. Counters(step2') = [epoch |-> c.epoch + 1, tx |-> m.tx, from |-> c.count + 1,
                                    loaded |-> c.loaded, count |-> c.count + 1]
            BY ONLY <1>1, <1>6, <3>1, <4>1, <4>3 DEF Counters
          <5>3. QED
            BY ONLY <4>2, <5>1, <5>2
        <4>4. CASE ~(step2.log_count - step2.last_log_count >= LogsPerEpoch)
          <5>1. ~(c.count + 1 - c.from >= LogsPerEpoch)
            BY ONLY <1>6, <4>4, <4>0
          <5>2. Counters(step2') = [epoch |-> c.epoch, tx |-> m.tx, from |-> c.from,
                                    loaded |-> c.loaded, count |-> c.count + 1]
            BY ONLY <1>1, <1>6, <3>1, <4>1, <4>4 DEF Counters
          <5>3. QED
            BY ONLY <4>2, <5>1, <5>2
        <4>5. QED
          BY <4>3, <4>4
      <3>5. QED
        BY <3>3, <3>4
    <2>3. QED
      BY <1>8, <2>1, <2>2
  <1>10. CountersAt(nx + 1, ep)'
    <2>1. Counters(step2') = ep[nx + 1]
      BY ONLY <1>7, <1>9
    <2>2. PICK n : n = nx + 1
      OBVIOUS
    <2>3. CountersAt(n, ep)'
      BY ONLY <1>2, <2>1, <2>2 DEF CountersAt, Counters
    <2>4. QED
      BY <2>2, <2>3
  <1>11. EpochsFrom(ep)'
    BY <1>1, EpochsSame DEF Counting
  <1>12. InEpochs(ep)'
    <2>1. CASE EndsSnapshot(nx)
      <3>1. WriteStep(EndLog)
        BY <2>1, EndWrites
      <3>2. PICK u : u = EndLog
        OBVIOUS
      <3>3. u.part = 0 /\ u.epoch = 1
        BY <3>2 DEF EndLog
      <3>4. u.epoch = LogEpoch(ep, u)
        BY ONLY <3>3 DEF LogEpoch
      <3>5. QED
        BY <3>1, <3>2, <3>4, InEpochsWrite DEF Progress, Counting
    <2>2. CASE ~EndsSnapshot(nx)
      <3>1. Written' = Written
        BY <1>1, <2>2, EndWrites DEF Written
      <3>2. QED
        BY <3>1, InEpochsSame DEF Counting
    <2>3. QED
      BY <2>1, <2>2
  <1>13. QED
    BY <1>10, <1>11, <1>12 DEF Counting

LEMMA CountingRestart ==
  ASSUME Types, RestartStep, NEW start, Logs(start), NEW nx, NEW ep, Counting(nx, ep)
  PROVE  Counting(1, ep)'
  <1>1. /\ UNCHANGED <<binlog, unified>> /\ Written' = unified
        /\ step2' = InitStep2(Len(unified)) /\ Len(unified) \in Nat
        /\ ~Busy'
    BY RestartFacts
  <1>2. Counters(step2') = CounterZero
    BY <1>1, InitStep2Facts DEF Counters, CounterZero
  <1>3. EpochsFrom(ep) /\ InEpochs(ep)
    BY DEF Counting
  <1>4. EpochsFrom(ep)' /\ ep[1] = CounterZero
    BY <1>1, <1>3, EpochsSame DEF EpochsFrom
  <1>5. \A i \in 1 .. Len(unified) : i \in 1 .. Len(Written) /\ Written[i] = unified[i]
    BY WrittenFacts
  <1>6. \A i \in 1 .. Len(Written') : Written'[i].epoch = LogEpoch(ep, Written'[i])
    BY ONLY <1>1, <1>3, <1>5 DEF InEpochs
  <1>7. InEpochs(ep)'
    BY <1>6 DEF InEpochs, LogEpoch
  <1>8. CountersAt(1, ep)'
    BY ONLY <1>1, <1>2, <1>4 DEF CountersAt, Counters
  <1>9. QED
    BY <1>4, <1>7, <1>8 DEF Counting

LEMMA CountingAppend ==
  ASSUME Types, Types', NEW m \in Messages, AppendStep(m), NEW nx, NEW start, Progress(nx, start),
         NEW ep, Counting(nx, ep)
  PROVE  \E ep1 : Counting(nx, ep1)'
  <1>1. PICK n : n = Len(binlog)
    OBVIOUS
  <1>2. /\ n \in Nat /\ DOMAIN binlog = 1 .. n /\ DOMAIN binlog' = 1 .. n + 1
        /\ \A i \in DOMAIN binlog : binlog'[i] = binlog[i] /\ Entries'[i] = Entries[i]
        /\ UNCHANGED <<unified, buffer, step2>>
    BY <1>1, LogGrows
  <1>3. EpochsFrom(ep) /\ InEpochs(ep) /\ CountersAt(nx, ep)
    BY DEF Counting
  <1>4. PICK k : k = n + 1
    OBVIOUS
  <1>5. PICK a : a = AfterMsg(ep[k], k)'
    OBVIOUS
  <1>6. k \in Nat /\ k + 1 \in Nat /\ ep \in [Nat -> CounterType] /\ ep[k] \in CounterType
    BY <1>2, <1>3, <1>4 DEF EpochsFrom
  <1>7. a \in CounterType
    <2>1. PICK c : c = ep[k]
      OBVIOUS
    <2>2. k \in DOMAIN binlog' /\ c \in CounterType
      BY <1>2, <1>4, <1>6, <2>1
    <2>3. CountersTyped'
      BY AfterMsgTypes, PTL
    <2>4. AfterMsg(c, k)' \in CounterType
      BY ONLY <2>2, <2>3 DEF CountersTyped, AfterMsg
    <2>5. QED
      BY ONLY <1>5, <2>1, <2>4 DEF AfterMsg
  <1>8. PICK ep1 : ep1 = [ep EXCEPT ![k + 1] = a]
    OBVIOUS
  <1>9. ep1 \in [Nat -> CounterType] /\ ep1[k + 1] = a /\ \A i \in Nat : i # k + 1 => ep1[i] = ep[i]
    BY ONLY <1>6, <1>7, <1>8
  <1>10. \A i \in 1 .. k : i \in Nat /\ i # k + 1 /\ ep1[i] = ep[i]
    BY ONLY <1>6, <1>9
  <1>11. EpochsFrom(ep1)'
    <2>1. ep1[1] = CounterZero
      <3>1. 1 \in 1 .. k
        BY ONLY <1>2, <1>4
      <3>2. QED
        BY <1>3, <1>10, <3>1 DEF EpochsFrom
    <2>2. ASSUME NEW i \in DOMAIN binlog' PROVE ep1[i + 1] = AfterMsg(ep1[i], i)'
      <3>1. CASE i \in 1 .. n
        <4>1. i \in 1 .. k /\ i + 1 \in 1 .. k
          BY ONLY <1>2, <1>4, <3>1
        <4>2. ep1[i] = ep[i] /\ ep1[i + 1] = ep[i + 1]
          BY ONLY <1>10, <4>1
        <4>3. ep[i + 1] = AfterMsg(ep[i], i)
          BY <1>2, <1>3, <3>1 DEF EpochsFrom
        <4>4. AfterMsg(ep[i], i)' = AfterMsg(ep[i], i)
          BY ONLY <1>2, <3>1 DEF AfterMsg
        <4>5. QED
          BY ONLY <4>2, <4>3, <4>4 DEF AfterMsg
      <3>2. CASE i = k
        <4>1. ep1[k] = ep[k]
          BY <1>2, <1>4, <1>10
        <4>2. QED
          BY ONLY <1>5, <1>9, <3>2, <4>1 DEF AfterMsg
      <3>3. QED
        BY ONLY <1>2, <1>4, <3>1, <3>2, i \in DOMAIN binlog'
    <2>3. QED
      BY <1>9, <2>1, <2>2 DEF EpochsFrom
  <1>12. InEpochs(ep1)'
    <2>1. Written' = Written
      BY <1>2 DEF Written
    <2>2. ASSUME NEW i \in 1 .. Len(Written) PROVE Written[i].epoch = LogEpoch(ep1, Written[i])
      <3>1. PICK u : u = Written[i]
        OBVIOUS
      <3>2. u.msg \in DOMAIN binlog
        BY <3>1 DEF Progress, Logs, LogAt, IsPart
      <3>3. u.msg \in 1 .. k
        BY ONLY <1>2, <1>4, <3>2
      <3>4. u.epoch = LogEpoch(ep, u)
        BY <1>3, <3>1 DEF InEpochs
      <3>5. LogEpoch(ep1, u) = LogEpoch(ep, u)
        BY ONLY <1>10, <3>3 DEF LogEpoch
      <3>6. QED
        BY ONLY <3>1, <3>4, <3>5
    <2>3. QED
      BY <2>1, <2>2 DEF InEpochs, LogEpoch
  <1>13. CountersAt(nx, ep1)'
    <2>1. nx \in 1 .. k
      BY <1>1, <1>4 DEF Progress, Reached
    <2>2. ep1[nx] = ep[nx]
      BY ONLY <1>10, <2>1
    <2>3. Busy' = Busy
      BY <1>2 DEF Busy
    <2>4. QED
      BY ONLY <1>2, <1>3, <2>2, <2>3 DEF CountersAt, Counters
  <1>14. QED
    BY <1>11, <1>12, <1>13 DEF Counting

LEMMA CountingStep ==
  ASSUME UseLogsPerEpoch, TxIds, Types, Types', NEW nx, NEW nx1, NEW start,
         Progress(nx, start), NEW ep, Counting(nx, ep), Seen(nx, nx1)
  PROVE  \E ep1 : Counting(nx1, ep1)'
  <1>1. CASE nx1 = nx /\ (QuietStep \/ DeliverStep)
    <2>1. UNCHANGED <<binlog, step2>> /\ Written' = Written
      BY <1>1, DeliverWritten DEF QuietStep, DeliverStep, Written
    <2>2. EpochsFrom(ep)' /\ InEpochs(ep)'
      BY <2>1, EpochsSame, InEpochsSame DEF Counting
    <2>3. CountersAt(nx, ep)'
      BY <2>1 DEF Counting, CountersAt, Counters, Busy
    <2>4. QED
      BY <1>1, <2>2, <2>3 DEF Counting
  <1>2. CASE CountStep(nx, nx1)
    BY <1>2, CountingCount DEF Progress
  <1>3. CASE nx1 = nx /\ \E k, g : EntryStep(nx, k, g)
    BY <1>3, CountingEntry
  <1>4. CASE nx1 = nx + 1 /\ EndStep(nx)
    BY <1>4, CountingEnd
  <1>5. CASE nx1 = 1 /\ RestartStep
    BY <1>5, CountingRestart DEF Progress
  <1>6. CASE nx1 = nx /\ \E m \in Messages : AppendStep(m)
    BY <1>6, CountingAppend
  <1>7. QED
    BY <1>1, <1>2, <1>3, <1>4, <1>5, <1>6 DEF Seen

LEMMA CountingInit ==
  ASSUME Init
  PROVE  \E ep : Counting(1, ep)
  <1>1. PICK ep : ep = [i \in Nat |-> CounterZero]
    OBVIOUS
  <1>2. binlog = << >> /\ unified = << >> /\ buffer = << >> /\ step2 = InitStep2(0)
    BY DEF Init
  <1>3. Counters(step2) = CounterZero /\ step2.left = 0 /\ step2.msg = 0
    BY <1>2, InitStep2Facts DEF Counters, CounterZero
  <1>4. CounterZero \in CounterType
    BY DEF CounterZero, CounterType
  <1>5. ep \in [Nat -> CounterType] /\ ep[1] = CounterZero
    BY ONLY <1>1, <1>4
  <1>6. EpochsFrom(ep)
    BY <1>2, <1>5 DEF EpochsFrom
  <1>7. Len(Written) = 0
    BY <1>2 DEF Written
  <1>8. InEpochs(ep)
    BY <1>7 DEF InEpochs
  <1>9. CountersAt(1, ep)
    BY <1>3, <1>5 DEF CountersAt, Busy
  <1>10. QED
    BY <1>6, <1>8, <1>9 DEF Counting


-----------------------------------------------------------------------------
(* The transactions of the binlog: their ids grow, the initial snapshot is  *)
(* transaction 0, and its end is the last message of it.                    *)

TxOrder == \A i, j \in DOMAIN binlog : i <= j => binlog[i].tx <= binlog[j].tx

SnapshotEnds ==
  \A i \in DOMAIN binlog :
    binlog[i].last => /\ binlog[i].tx = 0
                      /\ \A j \in DOMAIN binlog : j > i => binlog[j].tx >= 1

Transactions == TxOrder /\ SnapshotEnds

LEMMA LastTxFacts ==
  ASSUME Types, NEW n, n = Len(binlog)
  PROVE  /\ LastTx \in Nat /\ n \in Nat
         /\ n > 0 => LastTx = binlog[n].tx /\ Last(binlog) = binlog[n] /\ n \in DOMAIN binlog
                     /\ binlog # << >>
         /\ n = 0 => LastTx = 0
  <1>1. binlog \in Seq(MessageType) /\ n \in Nat /\ DOMAIN binlog = 1 .. n
    BY DEF Types
  <1>2. CASE n > 0
    <2>1. binlog # << >> /\ Last(binlog) = binlog[n] /\ n \in DOMAIN binlog
      BY <1>1, <1>2 DEF Last
    <2>2. binlog[n].tx \in Nat
      BY <2>1, BinlogFacts
    <2>3. QED
      BY <1>1, <1>2, <2>1, <2>2 DEF LastTx
  <1>3. CASE n = 0
    <2>1. binlog = << >>
      BY <1>1, <1>3
    <2>2. QED
      BY <1>1, <1>3, <2>1 DEF LastTx
  <1>4. QED
    BY ONLY <1>1, <1>2, <1>3

LEMMA TransactionsAppend ==
  ASSUME Types, Transactions, NEW m \in Messages, AppendStep(m)
  PROVE  Transactions'
  <1>1. PICK n, k, t : n = Len(binlog) /\ k = n + 1 /\ t = LastTx
    OBVIOUS
  <1>2. /\ n \in Nat /\ t \in Nat
        /\ n > 0 => t = binlog[n].tx /\ Last(binlog) = binlog[n] /\ binlog # << >>
        /\ n = 0 => t = 0
    BY <1>1, LastTxFacts
  <1>3. /\ DOMAIN binlog = 1 .. n /\ DOMAIN binlog' = 1 .. n + 1
        /\ \A i \in DOMAIN binlog : binlog'[i] = binlog[i]
        /\ binlog'[n + 1].last = m.last /\ binlog'[n + 1].tx = t + (IF m.newtx THEN 1 ELSE 0)
    BY <1>1, LogGrows
  <1>4. /\ m.last => ~m.newtx /\ \A i \in 1 .. n : binlog[i].tx = 0 /\ ~binlog[i].last
        /\ (n > 0 /\ binlog[n].last) => m.newtx
    BY <1>2, <1>3 DEF AppendStep, BinlogAppend
  <1>5. \A i \in 1 .. n : binlog[i].tx \in Nat
    BY <1>3, BinlogFacts
  <1>6. PICK x : x = binlog'[k].tx
    OBVIOUS
  <1>7. x = t + (IF m.newtx THEN 1 ELSE 0) /\ x \in Nat /\ x >= t
    BY ONLY <1>1, <1>2, <1>3, <1>6
  <1>8. \A i \in 1 .. n : binlog[i].tx <= t
    <2>1. ASSUME NEW i \in 1 .. n PROVE binlog[i].tx <= t
      <3>1. n \in 1 .. n /\ i <= n /\ n > 0
        BY ONLY <1>2, i \in 1 .. n
      <3>2. binlog[i].tx <= binlog[n].tx
        BY <1>3, <3>1 DEF Transactions, TxOrder
      <3>3. QED
        BY ONLY <1>2, <3>1, <3>2
    <2>2. QED
      BY <2>1
  <1>9. \A i \in 1 .. n + 1 : i \in 1 .. n \/ i = k
    BY ONLY <1>1, <1>2
  <1>10. TxOrder'
    <2>1. ASSUME NEW i \in 1 .. n + 1, NEW j \in 1 .. n + 1, i <= j
          PROVE  binlog'[i].tx <= binlog'[j].tx
      <3>1. CASE i \in 1 .. n /\ j \in 1 .. n
        BY <1>3, <2>1, <3>1 DEF Transactions, TxOrder
      <3>2. CASE i \in 1 .. n /\ j = k
        <4>1. PICK y : y = binlog[i].tx
          OBVIOUS
        <4>2. y \in Nat /\ y <= t /\ binlog'[i].tx = y /\ binlog'[j].tx = x
          BY <1>3, <1>5, <1>6, <1>8, <3>2, <4>1
        <4>3. y <= x
          BY ONLY <1>2, <1>7, <4>2
        <4>4. QED
          BY ONLY <4>2, <4>3
      <3>3. CASE i = k
        <4>1. j = k
          BY ONLY <1>1, <1>2, <2>1, <3>3, j \in 1 .. n + 1
        <4>2. x <= x
          BY ONLY <1>7
        <4>3. QED
          BY ONLY <1>6, <3>3, <4>1, <4>2
      <3>4. QED
        BY ONLY <1>9, <3>1, <3>2, <3>3, i \in 1 .. n + 1, j \in 1 .. n + 1
    <2>2. QED
      BY ONLY <1>3, <2>1 DEF TxOrder
  <1>11. SnapshotEnds'
    <2>1. ASSUME NEW i \in 1 .. n + 1, binlog'[i].last PROVE binlog'[i].tx = 0
      <3>1. CASE i \in 1 .. n
        BY <1>3, <2>1, <3>1 DEF Transactions, SnapshotEnds
      <3>2. CASE i = k
        <4>1. m.last
          BY ONLY <1>1, <1>3, <2>1, <3>2
        <4>2. ~m.newtx /\ \A j \in 1 .. n : binlog[j].tx = 0
          BY ONLY <1>4, <4>1
        <4>3. t = 0
          <5>1. CASE n > 0
            BY ONLY <1>2, <4>2, <5>1, n \in 1 .. n
          <5>2. QED
            BY ONLY <1>2, <5>1
        <4>4. x = 0
          BY ONLY <1>7, <4>2, <4>3
        <4>5. QED
          BY ONLY <1>6, <3>2, <4>4
      <3>3. QED
        BY <1>9, <3>1, <3>2
    <2>2. ASSUME NEW i \in 1 .. n + 1, binlog'[i].last, NEW j \in 1 .. n + 1, j > i
          PROVE  binlog'[j].tx >= 1
      <3>1. i \in 1 .. n /\ n > 0 /\ i <= n
        BY ONLY <1>2, <2>2, i \in 1 .. n + 1, j \in 1 .. n + 1
      <3>2. binlog[i].last /\ \A l \in 1 .. n : l > i => binlog[l].tx >= 1
        BY <1>3, <2>2, <3>1 DEF Transactions, SnapshotEnds
      <3>3. CASE j \in 1 .. n
        BY ONLY <1>3, <2>2, <3>2, <3>3
      <3>4. CASE j = k
        <4>1. x >= 1
          <5>1. CASE i = n
            <6>1. m.newtx
              BY ONLY <1>4, <3>1, <3>2, <5>1
            <6>2. QED
              BY ONLY <1>2, <1>7, <6>1
          <5>2. CASE i < n
            <6>1. n \in 1 .. n
              BY ONLY <1>2, <3>1
            <6>2. binlog[n].tx >= 1
              BY ONLY <3>2, <5>2, <6>1
            <6>3. t >= 1
              BY ONLY <1>2, <3>1, <6>2
            <6>4. QED
              BY ONLY <1>2, <1>7, <6>3
          <5>3. QED
            BY ONLY <1>2, <3>1, <5>1, <5>2
        <4>2. QED
          BY ONLY <1>6, <3>4, <4>1
      <3>5. QED
        BY <1>9, <3>3, <3>4
    <2>3. QED
      BY ONLY <1>3, <2>1, <2>2 DEF SnapshotEnds
  <1>12. QED
    BY <1>10, <1>11 DEF Transactions

LEMMA TransactionsStep ==
  ASSUME Types, Transactions, NEW nx, NEW nx1, Seen(nx, nx1)
  PROVE  Transactions'
  <1>1. CASE \E m \in Messages : AppendStep(m)
    BY <1>1, TransactionsAppend
  <1>2. CASE UNCHANGED binlog
    BY <1>2 DEF Transactions, TxOrder, SnapshotEnds
  <1>3. Seen(nx, nx1) => UNCHANGED binlog \/ \E m \in Messages : AppendStep(m)
    BY DEF Seen, QuietStep, CountStep, EntryStep, EndStep, DeliverStep, RestartStep
  <1>4. QED
    BY <1>1, <1>2, <1>3


-----------------------------------------------------------------------------
(* What the epochs are. *)

(* Before the end of the initial snapshot the epoch is at most 1. *)
InSnapshot(ep, m) ==
  (\A j \in DOMAIN binlog : j < m => binlog[j].tx = 0)
    => /\ ep[m].epoch \in {0, 1} /\ ep[m].tx \in {-1, 0}
       /\ ep[m].tx = -1 => ep[m].epoch = 0

LEMMA SnapshotNext ==
  ASSUME NEW c, NEW m, c.epoch \in {0, 1}, c.tx \in {-1, 0}, c.tx = -1 => c.epoch = 0,
         binlog[m].tx = 0
  PROVE  LET d == AfterMsg(c, m) IN
         /\ d.epoch \in {0, 1} /\ d.tx \in {-1, 0}
         /\ d.tx = -1 => d.epoch = 0
  <1> DEFINE d == AfterMsg(c, m)
  <1>1. CASE Entries[m] = 0
    BY <1>1 DEF AfterMsg
  <1>2. CASE Entries[m] # 0 /\ binlog[m].last
    <2>1. d.epoch = 1 /\ d.tx = 0
      BY <1>2 DEF AfterMsg
    <2>2. QED
      BY <2>1
  <1>3. CASE Entries[m] # 0 /\ ~binlog[m].last /\ Settled(c, binlog[m].tx)
    <2>1. d.epoch = c.epoch /\ d.tx = c.tx
      BY <1>3 DEF AfterMsg, Begun
    <2>2. QED
      BY <2>1
  <1>4. CASE Entries[m] # 0 /\ ~binlog[m].last /\ ~Settled(c, binlog[m].tx)
    <2>1. c.tx # 0
      BY <1>4 DEF Settled
    <2>2. c.epoch = 0
      BY <2>1
    <2>3. d.tx = 0 /\ (d.epoch = c.epoch \/ d.epoch = c.epoch + 1)
      BY <1>4 DEF AfterMsg
    <2>4. QED
      BY <2>2, <2>3
  <1>5. QED
    BY <1>1, <1>2, <1>3, <1>4

LEMMA SnapshotEpochs ==
  ASSUME Types, NEW ep, EpochsFrom(ep), NEW m \in 1 .. Len(binlog) + 1
  PROVE  InSnapshot(ep, m)
  <1>1. PICK N : N = Len(binlog) + 1
    OBVIOUS
  <1>2. N \in Nat /\ m \in 1 .. N /\ DOMAIN binlog = 1 .. N - 1
    BY <1>1, BinlogFacts
  <1>3. PICK Bad : Bad = {i \in Nat : i >= 1 /\ i <= N /\ ~InSnapshot(ep, i)}
    OBVIOUS
  <1>4. 1 \notin Bad
    <2>1. ep[1].epoch = 0 /\ ep[1].tx = -1
      BY DEF EpochsFrom, CounterZero
    <2>2. InSnapshot(ep, 1)
      BY <2>1 DEF InSnapshot
    <2>3. QED
      BY ONLY <1>3, <2>2
  <1>5. ASSUME NEW i \in Nat, i >= 1, i + 1 <= N, i \notin Bad PROVE i + 1 \notin Bad
    <2>1. InSnapshot(ep, i) /\ i \in DOMAIN binlog
      BY ONLY <1>2, <1>3, <1>5
    <2>2. ASSUME \A j \in DOMAIN binlog : j < i + 1 => binlog[j].tx = 0
          PROVE  /\ ep[i + 1].epoch \in {0, 1} /\ ep[i + 1].tx \in {-1, 0}
                 /\ ep[i + 1].tx = -1 => ep[i + 1].epoch = 0
      <3>1. \A j \in DOMAIN binlog : j < i => binlog[j].tx = 0
        BY ONLY <1>2, <2>2, i \in Nat
      <3>2. binlog[i].tx = 0
        BY ONLY <2>1, <2>2, i \in Nat
      <3>3. PICK c : c = ep[i]
        OBVIOUS
      <3>4. c.epoch \in {0, 1} /\ c.tx \in {-1, 0} /\ (c.tx = -1 => c.epoch = 0)
        BY ONLY <2>1, <3>1, <3>3 DEF InSnapshot
      <3>5. ep[i + 1] = AfterMsg(c, i)
        BY <2>1, <3>3 DEF EpochsFrom
      <3>6. LET d == AfterMsg(c, i) IN
            /\ d.epoch \in {0, 1} /\ d.tx \in {-1, 0}
            /\ d.tx = -1 => d.epoch = 0
        BY <3>2, <3>4, SnapshotNext
      <3>7. QED
        BY ONLY <3>5, <3>6
    <2>3. InSnapshot(ep, i + 1)
      BY ONLY <2>2 DEF InSnapshot
    <2>4. QED
      BY ONLY <1>3, <2>3
  <1>6. Bad = {}
    <2>1. ASSUME Bad # {} PROVE FALSE
      <3>1. Bad \in SUBSET Nat
        BY ONLY <1>3
      <3>2. PICK x \in Bad : \A y \in Bad : x <= y
        BY <2>1, <3>1, LeastNumber
      <3>3. x \in Nat /\ x > 1 /\ x <= N
        BY ONLY <1>3, <1>4, <3>2
      <3>4. PICK y : y = x - 1
        OBVIOUS
      <3>5. y \in Nat /\ y >= 1 /\ y + 1 = x /\ ~(x <= y)
        BY ONLY <3>3, <3>4
      <3>6. y \notin Bad /\ y + 1 <= N
        BY ONLY <3>2, <3>3, <3>5
      <3>7. y + 1 \notin Bad
        BY ONLY <1>5, <3>5, <3>6
      <3>8. QED
        BY ONLY <3>2, <3>5, <3>7
    <2>2. QED
      BY <2>1
  <1>7. QED
    BY ONLY <1>2, <1>3, <1>6

(* At the end of the initial snapshot it is at most 1, too. *)
LEMMA SnapshotEpoch ==
  ASSUME Types, Transactions, NEW ep, EpochsFrom(ep), NEW m \in DOMAIN binlog, binlog[m].last
  PROVE  ep[m].epoch \in {0, 1}
  <1>1. m \in 1 .. Len(binlog) + 1 /\ m \in Nat
    BY BinlogFacts
  <1>2. binlog[m].tx = 0
    BY DEF Transactions, SnapshotEnds
  <1>3. \A j \in DOMAIN binlog : j < m => binlog[j].tx = 0
    <2>1. ASSUME NEW j \in DOMAIN binlog, j < m PROVE binlog[j].tx = 0
      <3>1. j \in Nat /\ binlog[j].tx \in Nat
        BY BinlogFacts
      <3>2. j <= m
        BY ONLY <1>1, <2>1, <3>1
      <3>3. binlog[j].tx <= binlog[m].tx
        BY <3>2 DEF Transactions, TxOrder
      <3>4. PICK x : x = binlog[j].tx
        OBVIOUS
      <3>5. x \in Nat /\ x <= 0
        BY ONLY <1>2, <3>1, <3>3, <3>4
      <3>6. QED
        BY ONLY <3>4, <3>5
    <2>2. QED
      BY <2>1
  <1>4. InSnapshot(ep, m)
    BY <1>1, SnapshotEpochs
  <1>5. QED
    BY <1>3, <1>4 DEF InSnapshot

(* From one message to the next the epoch stays or is one more. *)
LEMMA EpochGrows ==
  ASSUME Types, Transactions, NEW ep, EpochsFrom(ep), NEW m \in DOMAIN binlog
  PROVE  /\ ep[m].epoch \in Int /\ ep[m + 1].epoch \in Int
         /\ ep[m].epoch <= ep[m + 1].epoch /\ ep[m + 1].epoch <= ep[m].epoch + 1
  <1>1. PICK c, d : c = ep[m] /\ d = AfterMsg(c, m)
    OBVIOUS
  <1>2. m \in Nat /\ binlog[m].last \in BOOLEAN
    BY BinlogFacts
  <1>3. c \in CounterType /\ d = ep[m + 1]
    BY <1>1, <1>2 DEF EpochsFrom
  <1>4. c.epoch \in Int
    BY ONLY <1>3 DEF CounterType
  <1>5. d.epoch \in {c.epoch, c.epoch + 1}
    <2>1. CASE Entries[m] = 0
      BY ONLY <1>1, <2>1 DEF AfterMsg
    <2>2. CASE Entries[m] # 0 /\ binlog[m].last
      <3>1. d.epoch = 1
        BY ONLY <1>1, <2>2 DEF AfterMsg
      <3>2. c.epoch \in {0, 1}
        BY <1>1, <2>2, SnapshotEpoch
      <3>3. QED
        BY ONLY <3>1, <3>2
    <2>3. CASE Entries[m] # 0 /\ ~binlog[m].last
      <3>1. d.epoch = c.epoch \/ d.epoch = c.epoch + 1
        BY ONLY <1>1, <2>3 DEF AfterMsg, Begun
      <3>2. QED
        BY ONLY <3>1
    <2>4. QED
      BY ONLY <1>2, <2>1, <2>2, <2>3
  <1>6. PICK e, f : e = c.epoch /\ f = d.epoch
    OBVIOUS
  <1>7. e \in Int /\ f \in Int /\ e <= f /\ f <= e + 1
    BY ONLY <1>4, <1>5, <1>6
  <1>8. QED
    BY ONLY <1>1, <1>3, <1>6, <1>7

LEMMA EpochsGrow ==
  ASSUME Types, Transactions, NEW ep, EpochsFrom(ep),
         NEW m \in 1 .. Len(binlog) + 1, NEW n \in 1 .. Len(binlog) + 1, m <= n
  PROVE  ep[m].epoch <= ep[n].epoch
  <1>1. PICK N : N = Len(binlog) + 1
    OBVIOUS
  <1>2. N \in Nat /\ m \in 1 .. N /\ n \in 1 .. N /\ DOMAIN binlog = 1 .. N - 1
    BY <1>1, BinlogFacts
  <1>3. PICK Bad : Bad = {i \in Nat : m <= i /\ i <= N /\ ~(ep[m].epoch <= ep[i].epoch)}
    OBVIOUS
  <1>4. ep[m].epoch \in Int
    <2>1. m \in Nat /\ ep \in [Nat -> CounterType]
      BY <1>2 DEF EpochsFrom
    <2>2. ep[m] \in CounterType
      BY ONLY <2>1
    <2>3. QED
      BY ONLY <2>2 DEF CounterType
  <1>5. m \notin Bad
    <2>1. PICK e : e = ep[m].epoch
      OBVIOUS
    <2>2. e <= e
      BY ONLY <1>4, <2>1
    <2>3. QED
      BY ONLY <1>3, <2>1, <2>2
  <1>6. ASSUME NEW i \in Nat, m <= i, i + 1 <= N, i \notin Bad PROVE i + 1 \notin Bad
    <2>1. ep[m].epoch <= ep[i].epoch /\ i \in DOMAIN binlog
      BY ONLY <1>2, <1>3, <1>6
    <2>2. ep[i].epoch \in Int /\ ep[i + 1].epoch \in Int /\ ep[i].epoch <= ep[i + 1].epoch
      BY <2>1, EpochGrows
    <2>3. PICK e, f, g : e = ep[m].epoch /\ f = ep[i].epoch /\ g = ep[i + 1].epoch
      OBVIOUS
    <2>4. e <= g
      BY ONLY <1>4, <2>1, <2>2, <2>3
    <2>5. QED
      BY ONLY <1>3, <2>3, <2>4
  <1>7. Bad = {}
    <2>1. ASSUME Bad # {} PROVE FALSE
      <3>1. Bad \in SUBSET Nat
        BY ONLY <1>3
      <3>2. PICK x \in Bad : \A y \in Bad : x <= y
        BY <2>1, <3>1, LeastNumber
      <3>3. x \in Nat /\ x > m /\ x <= N /\ m \in Nat /\ m >= 1
        BY ONLY <1>2, <1>3, <1>5, <3>2
      <3>4. PICK y : y = x - 1
        OBVIOUS
      <3>5. y \in Nat /\ m <= y /\ y + 1 = x /\ ~(x <= y)
        BY ONLY <3>3, <3>4
      <3>6. y \notin Bad /\ y + 1 <= N
        BY ONLY <3>2, <3>3, <3>5
      <3>7. y + 1 \notin Bad
        BY ONLY <1>6, <3>5, <3>6
      <3>8. QED
        BY ONLY <3>2, <3>5, <3>7
    <2>2. QED
      BY <2>1
  <1>8. QED
    BY ONLY <1>2, <1>3, <1>7, m <= n


(* A log's epoch is between those before and after its message. *)
LEMMA LogEpochFacts ==
  ASSUME Types, Transactions, NEW ep, EpochsFrom(ep), NEW u, IsPart(u.msg, u.part)
  PROVE  /\ LogEpoch(ep, u) \in Int
         /\ ep[u.msg].epoch <= LogEpoch(ep, u) /\ LogEpoch(ep, u) <= ep[u.msg + 1].epoch
         /\ ep[u.msg].epoch \in Int /\ ep[u.msg + 1].epoch \in Int
         /\ u.msg \in DOMAIN binlog
  <1>1. PICK m : m = u.msg
    OBVIOUS
  <1>2. m \in DOMAIN binlog /\ (u.part = 0 => EndsSnapshot(m))
    BY <1>1 DEF IsPart
  <1>3. ep[m].epoch \in Int /\ ep[m + 1].epoch \in Int /\ ep[m].epoch <= ep[m + 1].epoch
    BY <1>2, EpochGrows
  <1>4. PICK e, f : e = ep[m].epoch /\ f = ep[m + 1].epoch
    OBVIOUS
  <1>5. CASE u.part = 0
    <2>1. binlog[m].last /\ Entries[m] # 0
      BY ONLY <1>2, <1>5 DEF EndsSnapshot
    <2>2. f = 1
      <3>1. ep[m + 1] = AfterMsg(ep[m], m)
        BY <1>2 DEF EpochsFrom
      <3>2. AfterMsg(ep[m], m).epoch = 1
        BY ONLY <2>1 DEF AfterMsg
      <3>3. QED
        BY ONLY <1>4, <3>1, <3>2
    <2>3. LogEpoch(ep, u) = 1
      BY ONLY <1>5 DEF LogEpoch
    <2>4. 1 \in Int /\ e <= 1 /\ 1 <= f
      BY ONLY <1>3, <1>4, <2>2
    <2>5. QED
      BY ONLY <1>1, <1>2, <1>3, <1>4, <2>3, <2>4
  <1>6. CASE u.part # 0
    <2>1. LogEpoch(ep, u) = e
      BY ONLY <1>1, <1>4, <1>6 DEF LogEpoch
    <2>2. e \in Int /\ e <= e /\ e <= f
      BY ONLY <1>3, <1>4
    <2>3. QED
      BY ONLY <1>1, <1>2, <1>3, <1>4, <2>1, <2>2
  <1>7. QED
    BY <1>5, <1>6

(* Logs that follow one another are of messages in that order. *)
LEMMA LogsFollow ==
  ASSUME Types, NEW start, Starts(start), Logs(start),
         NEW i \in 1 .. Len(Written), NEW j \in 1 .. Len(Written), i <= j
  PROVE  /\ Written[i].msg \in Nat /\ Written[j].msg \in Nat
         /\ Written[i].msg <= Written[j].msg
         /\ IsPart(Written[i].msg, Written[i].part) /\ IsPart(Written[j].msg, Written[j].part)
         /\ Written[i].msg = Written[j].msg =>
              PlaceOf(Written[i].msg, Written[i].part) <= PlaceOf(Written[i].msg, Written[j].part)
  <1>1. PICK m, k, n, l : /\ m = Written[i].msg /\ k = Written[i].part
                          /\ n = Written[j].msg /\ l = Written[j].part
    OBVIOUS
  <1>2. /\ IsPart(m, k) /\ i = start[m] + PlaceOf(m, k)
        /\ IsPart(n, l) /\ j = start[n] + PlaceOf(n, l)
    BY <1>1 DEF Logs, LogAt
  <1>3. m \in DOMAIN binlog /\ n \in DOMAIN binlog
    BY <1>2 DEF IsPart
  <1>4. m \in Nat /\ n \in Nat /\ start[m] \in Nat
    BY <1>3, PartFacts
  <1>5. i \in Nat /\ j \in Nat
    OBVIOUS
  <1>6. ~(n < m)
    <2>1. n < m => j < i
      BY <1>2, PlaceBefore
    <2>2. QED
      BY ONLY <1>5, <2>1, i <= j
  <1>7. m <= n
    BY ONLY <1>4, <1>6
  <1>8. ASSUME m = n PROVE PlaceOf(m, k) <= PlaceOf(m, l)
    <2>1. \A p : IsPart(m, p) => PlaceOf(m, p) \in Nat
      BY <1>3, PartFacts
    <2>2. PICK a, x, y : a = start[m] /\ x = PlaceOf(m, k) /\ y = PlaceOf(m, l)
      OBVIOUS
    <2>3. x \in Nat /\ y \in Nat /\ a \in Nat /\ i = a + x /\ j = a + y
      BY ONLY <1>2, <1>4, <1>8, <2>1, <2>2
    <2>4. x <= y
      BY ONLY <2>3, i <= j
    <2>5. QED
      BY ONLY <2>2, <2>4
  <1>9. QED
    BY ONLY <1>1, <1>2, <1>4, <1>7, <1>8

LEMMA CountingMonotone ==
  ASSUME Types, Transactions, NEW start, Starts(start), Logs(start),
         NEW ep, EpochsFrom(ep), InEpochs(ep)
  PROVE  EpochsMonotone
  <1>1. ASSUME NEW i \in 1 .. Len(Written), NEW j \in 1 .. Len(Written), i <= j
        PROVE  Written[i].epoch <= Written[j].epoch
    <2>1. PICK u, w : u = Written[i] /\ w = Written[j]
      OBVIOUS
    <2>2. u.epoch = LogEpoch(ep, u) /\ w.epoch = LogEpoch(ep, w)
      BY <2>1 DEF InEpochs
    <2>3. /\ u.msg \in Nat /\ w.msg \in Nat /\ u.msg <= w.msg
          /\ IsPart(u.msg, u.part) /\ IsPart(w.msg, w.part)
          /\ u.msg = w.msg => PlaceOf(u.msg, u.part) <= PlaceOf(u.msg, w.part)
      BY <1>1, <2>1, LogsFollow
    <2>4. /\ LogEpoch(ep, u) \in Int /\ LogEpoch(ep, u) <= ep[u.msg + 1].epoch
          /\ ep[u.msg + 1].epoch \in Int /\ u.msg \in DOMAIN binlog
      BY <2>3, LogEpochFacts
    <2>5. /\ LogEpoch(ep, w) \in Int /\ ep[w.msg].epoch <= LogEpoch(ep, w)
          /\ ep[w.msg].epoch \in Int /\ w.msg \in DOMAIN binlog
      BY <2>3, LogEpochFacts
    <2>6. CASE u.msg < w.msg
      <3>1. u.msg + 1 \in 1 .. Len(binlog) + 1 /\ w.msg \in 1 .. Len(binlog) + 1
            /\ u.msg + 1 <= w.msg
        <4>1. Len(binlog) \in Nat /\ DOMAIN binlog = 1 .. Len(binlog)
          BY BinlogFacts
        <4>2. PICK m, n, l : m = u.msg /\ n = w.msg /\ l = Len(binlog)
          OBVIOUS
        <4>3. m \in 1 .. l /\ n \in 1 .. l /\ l \in Nat /\ m < n
          BY ONLY <2>4, <2>5, <2>6, <4>1, <4>2
        <4>4. m + 1 \in 1 .. l + 1 /\ n \in 1 .. l + 1 /\ m + 1 <= n
          BY ONLY <4>3
        <4>5. QED
          BY ONLY <4>2, <4>4
      <3>2. ep[u.msg + 1].epoch <= ep[w.msg].epoch
        BY <3>1, EpochsGrow
      <3>3. PICK a, b, c, d : /\ a = LogEpoch(ep, u) /\ b = ep[u.msg + 1].epoch
                              /\ c = ep[w.msg].epoch /\ d = LogEpoch(ep, w)
        OBVIOUS
      <3>4. a <= d
        BY ONLY <2>4, <2>5, <3>2, <3>3
      <3>5. QED
        BY ONLY <2>1, <2>2, <3>3, <3>4
    <2>7. CASE u.msg = w.msg
      <3>1. PICK m, k, l, e : m = u.msg /\ k = u.part /\ l = w.part /\ e = Entries[m]
        OBVIOUS
      <3>2. e \in Nat /\ k \in 0 .. e /\ l \in 0 .. e
        <4>1. m \in DOMAIN binlog /\ k \in 0 .. Entries[m] /\ l \in 0 .. Entries[m]
          BY ONLY <2>3, <2>7, <3>1 DEF IsPart
        <4>2. Entries[m] \in Nat
          BY <4>1, BinlogFacts
        <4>3. QED
          BY ONLY <3>1, <4>1, <4>2
      <3>3. CASE k = 0 /\ l # 0
        <4>1. PlaceOf(m, k) = e + 1 /\ PlaceOf(m, l) = l
          BY ONLY <3>1, <3>3 DEF PlaceOf
        <4>2. e + 1 <= l
          BY ONLY <2>3, <2>7, <3>1, <4>1
        <4>3. FALSE
          BY ONLY <3>2, <4>2
        <4>4. QED
          BY ONLY <4>3
      <3>4. CASE (k = 0 /\ l = 0) \/ (k # 0 /\ l # 0)
        <4>1. LogEpoch(ep, u) = LogEpoch(ep, w)
          BY ONLY <2>7, <3>1, <3>4 DEF LogEpoch
        <4>2. PICK a : a = LogEpoch(ep, u)
          OBVIOUS
        <4>3. a <= a
          BY ONLY <2>4, <4>2
        <4>4. QED
          BY ONLY <2>1, <2>2, <4>1, <4>2, <4>3
      <3>5. CASE k # 0 /\ l = 0
        <4>1. LogEpoch(ep, u) = ep[w.msg].epoch
          BY ONLY <2>7, <3>1, <3>5 DEF LogEpoch
        <4>2. QED
          BY ONLY <2>1, <2>2, <2>5, <4>1
      <3>6. QED
        BY <3>3, <3>4, <3>5
    <2>8. QED
      BY ONLY <2>3, <2>6, <2>7
  <1>2. DOMAIN Written = 1 .. Len(Written)
    BY WrittenFacts
  <1>3. QED
    BY ONLY <1>1, <1>2 DEF EpochsMonotone

-----------------------------------------------------------------------------
(* Where the epoch may change: behind the first message of a transaction.   *)

(* Message m of the transaction after the snapshot that has entries, and    *)
(* what the counters are up to a later message of it.                       *)
LEMMA EpochStays ==
  ASSUME Types, Transactions, NEW ep, EpochsFrom(ep), NEW m \in DOMAIN binlog, Entries[m] # 0,
         binlog[m].tx > 0, NEW n \in DOMAIN binlog, m < n, binlog[n].tx = binlog[m].tx
  PROVE  ep[n].epoch = ep[m + 1].epoch /\ Settled(ep[n], binlog[m].tx)
  <1>1. PICK N, t : N = Len(binlog) /\ t = binlog[m].tx
    OBVIOUS
  <1>2. /\ N \in Nat /\ m \in 1 .. N /\ n \in 1 .. N /\ DOMAIN binlog = 1 .. N
        /\ t \in Nat /\ t > 0 /\ \A l \in DOMAIN binlog : binlog[l].tx \in Nat
    BY <1>1, BinlogFacts
  <1>3. ASSUME NEW l \in DOMAIN binlog, m <= l, l <= n PROVE binlog[l].tx = t /\ ~binlog[l].last
    <2>1. binlog[m].tx <= binlog[l].tx /\ binlog[l].tx <= binlog[n].tx
      BY <1>3 DEF Transactions, TxOrder
    <2>2. PICK x : x = binlog[l].tx
      OBVIOUS
    <2>3. x \in Nat /\ t <= x /\ x <= t
      BY ONLY <1>1, <1>2, <2>1, <2>2, l \in DOMAIN binlog, binlog[n].tx = binlog[m].tx
    <2>4. x = t /\ x # 0
      BY ONLY <1>2, <2>3
    <2>5. binlog[l].last => binlog[l].tx = 0
      BY DEF Transactions, SnapshotEnds
    <2>6. QED
      BY ONLY <2>2, <2>4, <2>5
  <1>4. PICK Bad : Bad = {i \in Nat : m < i /\ i <= n /\ ~(ep[i].epoch = ep[m + 1].epoch
                                                          /\ Settled(ep[i], t))}
    OBVIOUS
  <1>5. m + 1 \notin Bad
    <2>1. m \in DOMAIN binlog /\ m <= m /\ m <= n
      BY ONLY <1>2, m < n
    <2>2. binlog[m].tx = t /\ ~binlog[m].last
      BY <1>3, <2>1
    <2>3. PICK c, d : c = ep[m] /\ d = ep[m + 1]
      OBVIOUS
    <2>4. d = AfterMsg(c, m)
      BY <2>3 DEF EpochsFrom
    <2>5. Settled(d, t)
      <3>1. CASE Settled(c, t)
        <4>1. d = Begun(c)
          BY ONLY <2>2, <2>4, <3>1, Entries[m] # 0 DEF AfterMsg
        <4>2. QED
          BY ONLY <3>1, <4>1 DEF Begun, Settled
      <3>2. CASE ~Settled(c, t)
        <4>1. d.tx = t
          BY ONLY <2>2, <2>4, <3>2, Entries[m] # 0 DEF AfterMsg
        <4>2. QED
          BY ONLY <4>1 DEF Settled
      <3>3. QED
        BY <3>1, <3>2
    <2>6. QED
      BY ONLY <1>4, <2>3, <2>5
  <1>6. ASSUME NEW i \in Nat, m < i, i + 1 <= n, i \notin Bad PROVE i + 1 \notin Bad
    <2>1. /\ ep[i].epoch = ep[m + 1].epoch /\ Settled(ep[i], t)
          /\ i \in DOMAIN binlog /\ m <= i /\ i <= n
      BY ONLY <1>2, <1>4, <1>6
    <2>2. binlog[i].tx = t /\ ~binlog[i].last
      BY <1>3, <2>1
    <2>3. PICK c, d : c = ep[i] /\ d = ep[i + 1]
      OBVIOUS
    <2>4. d = AfterMsg(c, i)
      BY <2>1, <2>3 DEF EpochsFrom
    <2>5. d = c \/ d = Begun(c)
      BY ONLY <2>1, <2>2, <2>3, <2>4 DEF AfterMsg
    <2>6. d.epoch = c.epoch /\ d.tx = c.tx /\ d.loaded = c.loaded
      BY ONLY <2>5 DEF Begun
    <2>7. Settled(d, t)
      BY ONLY <2>1, <2>3, <2>6 DEF Settled
    <2>8. QED
      BY ONLY <1>4, <2>1, <2>3, <2>6, <2>7
  <1>7. Bad = {}
    <2>1. ASSUME Bad # {} PROVE FALSE
      <3>1. Bad \in SUBSET Nat
        BY ONLY <1>4
      <3>2. PICK x \in Bad : \A y \in Bad : x <= y
        BY <2>1, <3>1, LeastNumber
      <3>3. x \in Nat /\ x > m + 1 /\ x <= n /\ m \in Nat
        BY ONLY <1>2, <1>4, <1>5, <3>2
      <3>4. PICK y : y = x - 1
        OBVIOUS
      <3>5. y \in Nat /\ m < y /\ y + 1 = x /\ ~(x <= y)
        BY ONLY <3>3, <3>4
      <3>6. y \notin Bad /\ y + 1 <= n
        BY ONLY <3>2, <3>3, <3>5
      <3>7. y + 1 \notin Bad
        BY ONLY <1>6, <3>5, <3>6
      <3>8. QED
        BY ONLY <3>2, <3>5, <3>7
    <2>2. QED
      BY <2>1
  <1>8. n \in Nat /\ n <= n
    BY ONLY <1>2
  <1>9. QED
    BY ONLY <1>1, <1>4, <1>7, <1>8, m < n

LEMMA CountingCut ==
  ASSUME Types, Transactions, NEW start, Starts(start), Logs(start),
         NEW ep, EpochsFrom(ep), InEpochs(ep)
  PROVE  TransactionCut
  <1>1. ASSUME NEW i \in 1 .. Len(Written), NEW j \in 1 .. Len(Written), i < j,
               binlog[Written[i].msg].tx > 0,
               binlog[Written[i].msg].tx = binlog[Written[j].msg].tx
        PROVE  \/ Written[j].epoch = Written[i].epoch
               \/ Written[j].epoch = Written[i].epoch + 1 /\ FirstOfTx(Written[i].msg)
    <2>1. PICK u, w, m, n : u = Written[i] /\ w = Written[j] /\ m = u.msg /\ n = w.msg
      OBVIOUS
    <2>2. i <= j
      BY ONLY <1>1, i \in 1 .. Len(Written), j \in 1 .. Len(Written)
    <2>3. m \in Nat /\ n \in Nat /\ m <= n /\ IsPart(m, u.part) /\ IsPart(n, w.part)
      BY <2>1, <2>2, LogsFollow
    <2>4. m \in DOMAIN binlog /\ n \in DOMAIN binlog
      BY <2>3 DEF IsPart
    <2>5. binlog[m].tx > 0 /\ binlog[n].tx = binlog[m].tx /\ binlog[m].tx \in Nat
      BY <1>1, <2>1, <2>4, BinlogFacts
    <2>6. ~binlog[m].last /\ ~binlog[n].last
      <3>1. binlog[m].tx # 0 /\ binlog[n].tx # 0
        BY ONLY <2>5
      <3>2. QED
        BY <2>4, <3>1 DEF Transactions, SnapshotEnds
    <2>7. u.part # 0 /\ w.part # 0
      BY ONLY <2>3, <2>6 DEF IsPart, EndsSnapshot
    <2>8. u.epoch = ep[m].epoch /\ w.epoch = ep[n].epoch
      <3>1. u.epoch = LogEpoch(ep, u) /\ w.epoch = LogEpoch(ep, w)
        BY <2>1 DEF InEpochs
      <3>2. QED
        BY ONLY <2>1, <2>7, <3>1 DEF LogEpoch
    <2>9. CASE m = n
      BY ONLY <2>1, <2>8, <2>9
    <2>10. CASE m < n
      <3>1. Entries[m] # 0
        <4>1. u.part \in 0 .. Entries[m]
          BY ONLY <2>3 DEF IsPart
        <4>2. Entries[m] \in Nat
          BY <2>4, BinlogFacts
        <4>3. QED
          BY ONLY <2>7, <4>1, <4>2
      <3>2. ep[n].epoch = ep[m + 1].epoch
        BY <2>4, <2>5, <2>10, <3>1, EpochStays
      <3>3. PICK c, d, t : c = ep[m] /\ d = ep[m + 1] /\ t = binlog[m].tx
        OBVIOUS
      <3>4. d = AfterMsg(c, m)
        BY <2>4, <3>3 DEF EpochsFrom
      <3>5. CASE Settled(c, t)
        <4>1. d = Begun(c)
          BY ONLY <2>6, <3>1, <3>3, <3>4, <3>5 DEF AfterMsg
        <4>2. d.epoch = c.epoch
          BY ONLY <4>1 DEF Begun
        <4>3. QED
          BY ONLY <2>1, <2>8, <3>2, <3>3, <4>2
      <3>6. CASE ~Settled(c, t)
        <4>1. d.epoch = c.epoch \/ d.epoch = c.epoch + 1
          BY ONLY <2>6, <3>1, <3>3, <3>4, <3>6 DEF AfterMsg
        <4>2. FirstOfTx(m)
          <5>1. ASSUME NEW l \in 1 .. m - 1, binlog[l].tx = t, binlog[l].ents # << >>
                PROVE  FALSE
            <6>1. l \in DOMAIN binlog /\ l < m
              <7>1. DOMAIN binlog = 1 .. Len(binlog) /\ Len(binlog) \in Nat
                BY BinlogFacts
              <7>2. QED
                BY ONLY <2>3, <2>4, <7>1, l \in 1 .. m - 1
            <6>2. Entries[l] # 0
              <7>1. Entries[l] = Len(binlog[l].ents) /\ binlog[l].ents \in Seq(Entry)
                BY <6>1, BinlogFacts
              <7>2. QED
                BY ONLY <5>1, <7>1
            <6>3. binlog[l].tx > 0 /\ binlog[m].tx = binlog[l].tx
              BY ONLY <2>5, <3>3, <5>1
            <6>4. Settled(ep[m], binlog[l].tx)
              BY <2>4, <6>1, <6>2, <6>3, EpochStays
            <6>5. QED
              BY ONLY <3>3, <3>6, <5>1, <6>4
          <5>2. QED
            BY <3>3, <5>1 DEF FirstOfTx
        <4>3. QED
          BY ONLY <2>1, <2>8, <3>2, <3>3, <4>1, <4>2
      <3>7. QED
        BY <3>5, <3>6
    <2>11. QED
      BY ONLY <2>3, <2>9, <2>10
  <1>2. DOMAIN Written = 1 .. Len(Written)
    BY WrittenFacts
  <1>3. QED
    BY <1>1, <1>2 DEF TransactionCut


-----------------------------------------------------------------------------
(* The inductive invariant: for some history of the pipeline, of the logs   *)
(* and of the numbers.                                                      *)

IInv ==
  /\ Types
  /\ \E nx, start, hist : At(nx) /\ Progress(nx, start) /\ Numbering(hist)
  /\ Referred

LEMMA IInvInit == Init => IInv
  <1> SUFFICES ASSUME Init PROVE IInv
    OBVIOUS
  <1>2. Types /\ At(1)
    BY SeenInit
  <1>3. PICK start : Progress(1, start)
    BY ProgressInit
  <1>4. PICK hist : Numbering(hist)
    BY NumberingInit
  <1>5. Referred
    BY DEF Init, Referred
  <1>6. QED
    BY <1>2, <1>3, <1>4, <1>5 DEF IInv

LEMMA IInvStep == IInv /\ [Next]_vars => IInv'
  <1> SUFFICES ASSUME IInv, [Next]_vars PROVE IInv'
    OBVIOUS
  <1>2. PICK nx, start, hist : At(nx) /\ Progress(nx, start) /\ Numbering(hist)
    BY DEF IInv
  <1>3. Types /\ Referred
    BY DEF IInv
  <1>4. PICK nx1 : At(nx1)' /\ Seen(nx, nx1)
    BY <1>2, <1>3, SeenNext
  <1>5. Types'
    BY <1>2, <1>3, SeenNext
  <1>6. PICK start1 : Progress(nx1, start1)'
    BY <1>2, <1>3, <1>4, <1>5, ProgressStep
  <1>7. PICK hist1 : Numbering(hist1)'
    BY <1>2, <1>3, <1>4, <1>5, NumberingStep
  <1>8. Referred'
    BY <1>3, <1>4, ReferredStep
  <1>9. QED
    BY <1>4, <1>5, <1>6, <1>7, <1>8 DEF IInv

LEMMA IInvFacts == IInv => InOrderOnce /\ GidsDense /\ IdsResolve
  <1> SUFFICES ASSUME IInv PROVE InOrderOnce /\ GidsDense /\ IdsResolve
    OBVIOUS
  <1>2. PICK nx, start, hist : At(nx) /\ Progress(nx, start) /\ Numbering(hist)
    BY DEF IInv
  <1>3. Types /\ Referred
    BY DEF IInv
  <1>4. InOrderOnce
    BY <1>2, <1>3, ProgressIsInOrder
  <1>5. GidsDense
    BY <1>2, <1>3, HistoryDense DEF Numbering
  <1>6. IdsResolve
    BY <1>2, <1>3, HistoryResolves DEF Numbering, Progress
  <1>7. QED
    BY <1>4, <1>5, <1>6

LEMMA IInvAlways == Spec => []IInv
  BY IInvInit, IInvStep, PTL DEF Spec

(* The whole log is written once and in order (process_binlog_step_1 and    *)
(* _2): for any number of parser threads, whatever their queues hold and    *)
(* however their timeouts fall, and after any number of restarts, the       *)
(* unified log is a beginning of what one thread would make of the binlog,  *)
(* and its offsets are consecutive.                                         *)
THEOREM LogInOrder == Spec => []InOrderOnce
  BY IInvAlways, IInvFacts, PTL

(* The global ids (generate_gid in parse_again): no two vertices share one, *)
(* those of a fragment are consecutive, and a process that reads the binlog *)
(* again after a crash goes on with the numbers of the one before.          *)
THEOREM GidsUnique == Spec => []GidsDense
  BY IInvAlways, IInvFacts, PTL

(* The lookups of parse_again: updates, deletes and edges carry the ids of  *)
(* the newest vertices with the keys they name, across restarts, when the   *)
(* database keeps its primary and foreign keys.                             *)
THEOREM ReferencesResolve == Spec => []IdsResolve
  BY IInvAlways, IInvFacts, PTL

(* The invariant with the counters of the epochs. *)
EpochInv ==
  /\ Types
  /\ \E nx, start, ep : At(nx) /\ Progress(nx, start) /\ Counting(nx, ep)
  /\ Transactions

LEMMA EpochInvInit == Init => EpochInv
  <1> SUFFICES ASSUME Init PROVE EpochInv
    OBVIOUS
  <1>2. Types /\ At(1)
    BY SeenInit
  <1>3. PICK start : Progress(1, start)
    BY ProgressInit
  <1>4. PICK ep : Counting(1, ep)
    BY CountingInit
  <1>5. Transactions
    BY DEF Init, Transactions, TxOrder, SnapshotEnds
  <1>6. QED
    BY <1>2, <1>3, <1>4, <1>5 DEF EpochInv

LEMMA EpochInvStep ==
  UseLogsPerEpoch /\ TxIds => (EpochInv /\ [Next]_vars => EpochInv')
  <1> SUFFICES ASSUME UseLogsPerEpoch, TxIds, EpochInv, [Next]_vars PROVE EpochInv'
    OBVIOUS
  <1>2. PICK nx, start, ep : At(nx) /\ Progress(nx, start) /\ Counting(nx, ep)
    BY DEF EpochInv
  <1>3. Types /\ Transactions
    BY DEF EpochInv
  <1>4. PICK nx1 : At(nx1)' /\ Seen(nx, nx1)
    BY <1>2, <1>3, SeenNext
  <1>5. Types'
    BY <1>2, <1>3, SeenNext
  <1>6. PICK start1 : Progress(nx1, start1)'
    BY <1>2, <1>3, <1>4, <1>5, ProgressStep
  <1>7. PICK ep1 : Counting(nx1, ep1)'
    BY <1>2, <1>3, <1>4, <1>5, CountingStep
  <1>8. Transactions'
    BY <1>3, <1>4, TransactionsStep
  <1>9. QED
    BY <1>4, <1>5, <1>6, <1>7, <1>8 DEF EpochInv

LEMMA EpochInvFacts == EpochInv => EpochsMonotone /\ TransactionCut
  <1> SUFFICES ASSUME EpochInv PROVE EpochsMonotone /\ TransactionCut
    OBVIOUS
  <1>2. PICK nx, start, ep : At(nx) /\ Progress(nx, start) /\ Counting(nx, ep)
    BY DEF EpochInv
  <1>3. Types /\ Transactions
    BY DEF EpochInv
  <1>4. Starts(start) /\ Logs(start) /\ EpochsFrom(ep) /\ InEpochs(ep)
    BY <1>2 DEF Progress, Counting
  <1>5. EpochsMonotone
    BY <1>3, <1>4, CountingMonotone
  <1>6. TransactionCut
    BY <1>3, <1>4, CountingCut
  <1>7. QED
    BY <1>5, <1>6

LEMMA EpochInvAlways ==
  ASSUME UseLogsPerEpoch, TxIds
  PROVE  Spec => []EpochInv
  <1>1. EpochInv /\ [Next]_vars => EpochInv'
    BY EpochInvStep
  <1>2. QED
    BY <1>1, EpochInvInit, PTL DEF Spec

(* The epochs of process_binlog_step_2, counted in logs and with            *)
(* transaction ids (the default of the flags, and what the connectors       *)
(* send): they never decrease along the unified log, whatever restarts      *)
(* happen in between and although the end of the snapshot sets the epoch.   *)
THEOREM EpochsGrowAlong ==
  ASSUME UseLogsPerEpoch, TxIds
  PROVE  Spec => []EpochsMonotone
  BY EpochInvAlways, EpochInvFacts, PTL

(* The cut of transactions (process_binlog_step_2 compares the transaction  *)
(* with the one of the message before, after it has written the message):   *)
(* a transaction after the snapshot is cut at most once, behind its first   *)
(* message, between one epoch and the next, in one process or over many.    *)
THEOREM TransactionsCutOnce ==
  ASSUME UseLogsPerEpoch, TxIds
  PROVE  Spec => []TransactionCut
  BY EpochInvAlways, EpochInvFacts, PTL
=============================================================================
