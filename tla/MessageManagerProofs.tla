------------------------- MODULE MessageManagerProofs -------------------------
(***************************************************************************)
(* Proofs about the rounds of a query, for any number of workers, channels *)
(* and messages: a round sees the messages of the round before and no      *)
(* others, and a query that nobody forced to end has reached a fixed point *)
(* but for messages that left in a full block.  First what they rest on:   *)
(* the inductive invariant in named parts, facts about the operators of    *)
(* the model, its types, and what each step does to each variable.         *)
(***************************************************************************)
EXTENDS MessageManager, FiniteSetTheorems, TLAPS

-----------------------------------------------------------------------------
(* The steps *)

(* Message is this with bounds: here rounds and numbers are any.            *)
Mess == [from : Workers, to : Workers, round : Nat, n : Nat]
Block == Seq(Mess)
Packet == [tag : Nat, block : Block]
Finals == {"finalize", "barrier", "join"}

Types ==
    /\ pc \in [Workers -> {"start", "eval", "drain", "vote"} \cup Finals]
    /\ round \in [Workers -> Nat]
    /\ channels \in [Workers -> [Channels -> [Workers -> Block]]]
    /\ sent_size \in [Workers -> Nat]
    /\ force \in [Workers -> [continue : BOOLEAN, terminate : BOOLEAN]]
    /\ sending \in [Workers -> [blocks : Seq(Workers \X Block), open : BOOLEAN]]
    /\ sender \in [Workers -> {"none", "run", "ended"}]
    /\ to_self \in [Workers -> Seq(Block)]
    /\ recv \in [Workers -> [0 .. 1 -> [blocks : Seq(Block), producers : Int]]]
    /\ DOMAIN net = Workers /\ \A v \in Workers : DOMAIN net[v] = Workers
    /\ \A v, d \in Workers : v # d => net[v][d] \in Seq(Packet)
    /\ ballots \subseteq [by : Workers, round : Nat, goOn : BOOLEAN, stop : BOOLEAN]
    /\ sent \subseteq Mess /\ IsFiniteSet(sent) /\ overflowed \subseteq sent
    /\ got \in [Workers -> SUBSET Mess]

(* What v sent to d for d's round k, and all that was sent to d for it. *)
Ours(v, d, k) == {m \in sent : m.from = v /\ m.to = d /\ m.round + 1 = k}
Theirs(d, k) == {m \in sent : m.to = d /\ m.round + 1 = k}

(* The messages in a queue of blocks, in the sending queue for d, and in    *)
(* flight with a tag.                                                       *)
Stuff(q) == UNION {ToSet(b) : b \in ToSet(q)}
Outgoing(q, d) == UNION {ToSet(x[2]) : x \in {y \in ToSet(q) : y[1] = d}}
InNet(s, k) == UNION {ToSet(x.block) : x \in {y \in ToSet(s) : y.tag = k}}

(* v's send thread has sent all there is for round k, and the end of it. *)
Ended(v, k) == k > 0 /\ (Tag(v) > k \/ (Tag(v) = k /\ sender[v] = "ended"))

(* d's queue for round k counts v as done. *)
Delivered(v, d, k) ==
    IF v = d THEN k > 0 /\ Tag(d) > k
    ELSE Ended(v, k) /\ [tag |-> k, block |-> EndOfRound] \notin ToSet(net[v][d])

Pending(d, k) == {v \in Workers : ~Delivered(v, d, k)}

-----------------------------------------------------------------------------
(* No worker is a round ahead of another but in waiting for the vote. *)
Close ==
    \A w, v \in Workers :
        round[v] >= IF pc[w] = "vote" THEN round[w] - 1 ELSE round[w]

(* The main and the send thread of a worker. *)
MainSound(w) ==
    /\ sending[w].open <=> pc[w] = "eval"
    /\ pc[w] = "eval" => sender[w] = "run"
    /\ sender[w] # "run" => sending[w].blocks = <<>>
    /\ round[w] = 0 => pc[w] \in {"start", "eval", "drain"}
    /\ sender[w] = "none" <=> round[w] = 0 /\ pc[w] = "start"

(* What a worker is about to send is of this round. *)
SendSound(w) ==
    /\ pc[w] # "eval" => \A c \in Channels, d \in Workers : channels[w][c][d] = <<>>
    /\ \A c \in Channels, d \in Workers :
          ToSet(channels[w][c][d]) \subseteq Ours(w, d, Tag(w))
    /\ \A x \in ToSet(sending[w].blocks) :
          x[2] # <<>> /\ ToSet(x[2]) \subseteq Ours(w, x[1], Tag(w))
    /\ Stuff(to_self[w]) \subseteq Ours(w, w, Tag(w))

(* Between two workers: rounds in order, each with its end last. *)
Fifo(s) ==
    \A i, j \in 1 .. Len(s) :
        i < j => /\ s[i].tag <= s[j].tag
                 /\ s[i].block = EndOfRound => s[i].tag < s[j].tag

LinkSound(v, d) ==
    /\ Fifo(net[v][d])
    /\ \A x \in ToSet(net[v][d]) :
          /\ x.tag > 0 /\ x.tag >= round[d] /\ x.tag <= Tag(v)
          /\ ToSet(x.block) \subseteq Ours(v, d, x.tag)
          /\ x.block = EndOfRound => Ended(v, x.tag)
          /\ Ended(v, x.tag) => [tag |-> x.tag, block |-> EndOfRound] \in ToSet(net[v][d])

(* The two queues of a worker: the one of this round and of the next. *)
QueueSound(d, k) ==
    /\ Stuff(recv[d][Parity(k)].blocks) \subseteq Theirs(d, k)
    /\ recv[d][Parity(k)].producers = Cardinality(Pending(d, k))

GotSound(w) ==
    /\ got[w] \subseteq {m \in sent : m.to = w}
    /\ pc[w] \in {"eval", "drain"} => got[w] \subseteq Theirs(w, round[w])
    /\ pc[w] \in {"vote"} \cup Finals => got[w] = Theirs(w, round[w] - 1)

(* Every message for a round that is not over is somewhere. *)
InChannel(m) == \E c \in Channels : m \in ToSet(channels[m.from][c][m.to])
InSending(m) == m \in Outgoing(sending[m.from].blocks, m.to)
OnTheWay(m) == m.from # m.to /\ m \in InNet(net[m.from][m.to], m.round + 1)
InToSelf(m) == m.from = m.to /\ m \in Stuff(to_self[m.to])
InQueue(m) == m \in Stuff(recv[m.to][Parity(m.round + 1)].blocks)
Taken(m) == /\ m \in got[m.to] /\ round[m.to] = m.round + 1
            /\ pc[m.to] \in {"eval", "drain"}

Somewhere(m) == \/ InChannel(m) \/ InSending(m) \/ OnTheWay(m)
                \/ InToSelf(m) \/ InQueue(m) \/ Taken(m)

NoneLost ==
    \A m \in sent : /\ m.round + 1 <= Tag(m.from)
                    /\ round[m.to] <= m.round + 1 => Somewhere(m)

VotesSound == \A b \in ballots : b.round < round[b.by]

(* A round is over for a worker only when all have sent all there is for it. *)
OverSound == \A v, d \in Workers : round[d] > 1 => Ended(v, round[d] - 1)

RoundInv ==
    /\ Types /\ Close /\ VotesSound /\ OverSound /\ NoneLost
    /\ \A w \in Workers : /\ MainSound(w) /\ SendSound(w) /\ GotSound(w)
                          /\ QueueSound(w, round[w]) /\ QueueSound(w, round[w] + 1)
    /\ \A v, d \in Workers : v # d => LinkSound(v, d)

-----------------------------------------------------------------------------
(* What a worker sent in a round that it does not count left in full blocks. *)
Uncounted(w, r) == {m \in sent : m.from = w /\ m.round = r} \subseteq overflowed

EndInv ==
    /\ \A w \in Workers :
          /\ pc[w] = "eval" => \A m \in sent : m.from = w /\ m.round = round[w] =>
                                  m \in overflowed \cup InChannels(w)
          /\ pc[w] = "drain" /\ sent_size[w] = 0 => Uncounted(w, round[w])
          /\ pc[w] \in Finals => /\ Contributed(round[w] - 1) = Workers
                                 /\ Ends(round[w] - 1)
    /\ \A b \in ballots : ~b.goOn => Uncounted(b.by, b.round)
-----------------------------------------------------------------------------
(* Facts about the operators *)

(* The two queues of a worker are those of two rounds in a row. *)
LEMMA Parities ==
  \A n \in Nat : /\ Parity(n) \in 0 .. 1 /\ Parity(n + 1) \in 0 .. 1
                 /\ Parity(n + 1) # Parity(n) /\ Parity(n + 2) = Parity(n)
  BY DEF Parity

(* What is in a sequence. *)
LEMMA InSet ==
  ASSUME NEW S, NEW s \in Seq(S)
  PROVE  /\ Len(s) \in Nat /\ DOMAIN s = 1 .. Len(s)
         /\ ToSet(s) = {s[i] : i \in 1 .. Len(s)} /\ ToSet(s) \subseteq S
  <1>1. Len(s) \in Nat /\ DOMAIN s = 1 .. Len(s) /\ \A i \in 1 .. Len(s) : s[i] \in S
    OBVIOUS
  <1>2. QED
    BY <1>1 DEF ToSet

LEMMA EmptySet == ToSet(<< >>) = {}
  BY DEF ToSet

LEMMA AppendSet ==
  ASSUME NEW S, NEW s \in Seq(S), NEW x \in S
  PROVE  /\ Append(s, x) \in Seq(S) /\ Len(Append(s, x)) = Len(s) + 1
         /\ \A i \in 1 .. Len(s) : Append(s, x)[i] = s[i]
         /\ Append(s, x)[Len(s) + 1] = x
         /\ ToSet(Append(s, x)) = ToSet(s) \cup {x}
         /\ Append(s, x) # << >>
  <1>1. /\ Append(s, x) \in Seq(S) /\ Len(Append(s, x)) = Len(s) + 1 /\ Len(s) \in Nat
        /\ \A i \in 1 .. Len(s) : Append(s, x)[i] = s[i]
        /\ Append(s, x)[Len(s) + 1] = x
        /\ Append(s, x) # << >>
    OBVIOUS
  <1>2. /\ ToSet(s) = {s[i] : i \in 1 .. Len(s)}
        /\ ToSet(Append(s, x)) = {Append(s, x)[i] : i \in 1 .. Len(s) + 1}
    BY <1>1, InSet
  <1>3. ToSet(Append(s, x)) = ToSet(s) \cup {x}
    BY <1>1, <1>2
  <1>4. QED
    BY <1>1, <1>3

LEMMA ConcatSet ==
  ASSUME NEW S, NEW s \in Seq(S), NEW t \in Seq(S)
  PROVE  s \o t \in Seq(S) /\ ToSet(s \o t) = ToSet(s) \cup ToSet(t)
  <1>1. /\ s \o t \in Seq(S) /\ Len(s \o t) = Len(s) + Len(t)
        /\ Len(s) \in Nat /\ Len(t) \in Nat
        /\ \A i \in 1 .. Len(s) : (s \o t)[i] = s[i]
        /\ \A i \in 1 .. Len(t) : (s \o t)[Len(s) + i] = t[i]
    OBVIOUS
  <1>2. /\ ToSet(s) = {s[i] : i \in 1 .. Len(s)}
        /\ ToSet(t) = {t[i] : i \in 1 .. Len(t)}
        /\ ToSet(s \o t) = {(s \o t)[i] : i \in 1 .. Len(s) + Len(t)}
    BY <1>1, InSet
  <1>3. ASSUME NEW i \in 1 .. Len(s) + Len(t) PROVE (s \o t)[i] \in ToSet(s) \cup ToSet(t)
    <2>1. CASE i <= Len(s)
      BY <1>1, <1>2, <2>1
    <2>2. CASE i > Len(s)
      <3>1. i - Len(s) \in 1 .. Len(t) /\ i = Len(s) + (i - Len(s))
        BY <1>1, <2>2
      <3>2. (s \o t)[i] = t[i - Len(s)]
        BY <1>1, <3>1
      <3>3. QED
        BY <1>2, <3>1, <3>2
    <2>3. QED
      BY <1>1, <2>1, <2>2
  <1>4. ASSUME NEW i \in 1 .. Len(s) PROVE s[i] \in ToSet(s \o t)
    BY <1>1, <1>2
  <1>5. ASSUME NEW i \in 1 .. Len(t) PROVE t[i] \in ToSet(s \o t)
    <2>1. Len(s) + i \in 1 .. Len(s) + Len(t) /\ (s \o t)[Len(s) + i] = t[i]
      BY <1>1
    <2>2. QED
      BY <1>2, <2>1
  <1>6. ToSet(s \o t) \subseteq ToSet(s) \cup ToSet(t)
    BY <1>2, <1>3
  <1>7. ToSet(s) \subseteq ToSet(s \o t) /\ ToSet(t) \subseteq ToSet(s \o t)
    BY <1>2, <1>4, <1>5
  <1>8. QED
    BY <1>1, <1>6, <1>7

LEMMA TailSet ==
  ASSUME NEW S, NEW s \in Seq(S), s # << >>
  PROVE  /\ Head(s) \in S /\ Tail(s) \in Seq(S)
         /\ Len(s) \in Nat /\ Len(s) > 0 /\ Len(Tail(s)) = Len(s) - 1 /\ Head(s) = s[1]
         /\ \A i \in 1 .. Len(s) - 1 : Tail(s)[i] = s[i + 1]
         /\ ToSet(s) = ToSet(Tail(s)) \cup {Head(s)}
  <1>1. /\ Head(s) \in S /\ Tail(s) \in Seq(S)
        /\ Len(s) \in Nat /\ Len(s) > 0 /\ Len(Tail(s)) = Len(s) - 1 /\ Head(s) = s[1]
        /\ \A i \in 1 .. Len(s) - 1 : Tail(s)[i] = s[i + 1]
    OBVIOUS
  <1>2. /\ ToSet(s) = {s[i] : i \in 1 .. Len(s)}
        /\ ToSet(Tail(s)) = {Tail(s)[i] : i \in 1 .. Len(s) - 1}
    BY <1>1, InSet
  <1>3. ASSUME NEW i \in 1 .. Len(s) PROVE s[i] \in ToSet(Tail(s)) \cup {Head(s)}
    <2>1. CASE i = 1
      BY <2>1, <1>1
    <2>2. CASE i # 1
      <3>1. i - 1 \in 1 .. Len(s) - 1 /\ s[i] = Tail(s)[i - 1]
        BY <2>2, <1>1
      <3>2. QED
        BY <1>2, <3>1
    <2>3. QED
      BY <2>1, <2>2
  <1>4. ASSUME NEW i \in 1 .. Len(s) - 1 PROVE Tail(s)[i] \in ToSet(s)
    <2>1. i + 1 \in 1 .. Len(s) /\ Tail(s)[i] = s[i + 1]
      BY <1>1
    <2>2. QED
      BY <1>2, <2>1
  <1>5. Head(s) \in ToSet(s)
    <2>1. 1 \in 1 .. Len(s)
      BY <1>1
    <2>2. QED
      BY <1>1, <1>2, <2>1
  <1>6. ToSet(s) \subseteq ToSet(Tail(s)) \cup {Head(s)}
    BY <1>2, <1>3
  <1>7. ToSet(Tail(s)) \subseteq ToSet(s)
    BY <1>2, <1>4
  <1>8. QED
    BY <1>1, <1>5, <1>6, <1>7

(* The sequence SetToSeq makes of a finite set has just its elements. *)
LEMMA SetToSeqFacts ==
  ASSUME NEW S, IsFiniteSet(S)
  PROVE  SetToSeq(S) \in Seq(S) /\ ToSet(SetToSeq(S)) = S
  <1> DEFINE n == Cardinality(S)
             q == SetToSeq(S)
  <1>1. n \in Nat /\ ExistsBijection(1 .. n, S)
    BY FS_CardinalityType
  <1>2. PICK g : g \in Bijection(1 .. n, S)
    BY <1>1 DEF ExistsBijection
  <1>3. g \in [1 .. n -> S] /\ IsInjective(g)
    BY <1>2 DEF Bijection, Injection, IsInjective
  <1>4. q \in [1 .. n -> S] /\ IsInjective(q)
    BY <1>3 DEF SetToSeq
  <1>5. IsFiniteSet(1 .. n) /\ Cardinality(1 .. n) = n
    BY <1>1, FS_Interval
  <1>6. q \in Injection(1 .. n, S)
    BY <1>4 DEF Injection, IsInjective
  <1>7. q \in Surjection(1 .. n, S)
    BY <1>5, <1>6, FS_Injection
  <1> HIDE DEF q
  <1>8. q \in Seq(S)
    BY <1>1, <1>4
  <1>9. DOMAIN q = 1 .. n
    BY <1>4
  <1>10. ToSet(q) = S
    BY <1>4, <1>7, <1>9 DEF Surjection, ToSet
  <1>11. QED
    BY <1>8, <1>10 DEF q

(* Blocks in a receive queue, or in to_self_. *)
LEMMA StuffFacts ==
  ASSUME NEW q \in Seq(Block)
  PROVE  /\ \A b \in Block : /\ Append(q, b) \in Seq(Block)
                             /\ Stuff(Append(q, b)) = Stuff(q) \cup ToSet(b)
         /\ \A p \in Seq(Block) : q \o p \in Seq(Block) /\ Stuff(q \o p) = Stuff(q) \cup Stuff(p)
         /\ q # << >> => /\ Head(q) \in Block /\ Tail(q) \in Seq(Block)
                         /\ Stuff(q) = Stuff(Tail(q)) \cup ToSet(Head(q))
  <1>1. ASSUME NEW b \in Block
        PROVE  Append(q, b) \in Seq(Block) /\ ToSet(Append(q, b)) = ToSet(q) \cup {b}
    BY AppendSet
  <1>2. ASSUME NEW p \in Seq(Block)
        PROVE  q \o p \in Seq(Block) /\ ToSet(q \o p) = ToSet(q) \cup ToSet(p)
    BY ConcatSet
  <1>3. ASSUME q # << >>
        PROVE  /\ Head(q) \in Block /\ Tail(q) \in Seq(Block)
               /\ ToSet(q) = ToSet(Tail(q)) \cup {Head(q)}
    BY <1>3, TailSet
  <1>4. QED
    BY <1>1, <1>2, <1>3 DEF Stuff

(* Blocks with their destination in a sending queue. *)
LEMMA OutgoingFacts ==
  ASSUME NEW q \in Seq(Workers \X Block), NEW e \in Workers
  PROVE  /\ \A d \in Workers, b \in Block :
               /\ Append(q, <<d, b>>) \in Seq(Workers \X Block)
               /\ Outgoing(Append(q, <<d, b>>), e)
                     = Outgoing(q, e) \cup (IF d = e THEN ToSet(b) ELSE {})
         /\ \A p \in Seq(Workers \X Block) :
               /\ q \o p \in Seq(Workers \X Block)
               /\ Outgoing(q \o p, e) = Outgoing(q, e) \cup Outgoing(p, e)
         /\ q # << >> =>
               /\ Head(q) \in Workers \X Block /\ Tail(q) \in Seq(Workers \X Block)
               /\ Outgoing(q, e) = Outgoing(Tail(q), e)
                                     \cup (IF Head(q)[1] = e THEN ToSet(Head(q)[2]) ELSE {})
  <1>1. ASSUME NEW d \in Workers, NEW b \in Block
        PROVE  /\ Append(q, <<d, b>>) \in Seq(Workers \X Block)
               /\ Outgoing(Append(q, <<d, b>>), e)
                     = Outgoing(q, e) \cup (IF d = e THEN ToSet(b) ELSE {})
    <2>1. <<d, b>> \in Workers \X Block
      OBVIOUS
    <2>2. /\ Append(q, <<d, b>>) \in Seq(Workers \X Block)
          /\ ToSet(Append(q, <<d, b>>)) = ToSet(q) \cup {<<d, b>>}
      BY <2>1, AppendSet
    <2>3. QED
      BY <2>2 DEF Outgoing
  <1>2. ASSUME NEW p \in Seq(Workers \X Block)
        PROVE  /\ q \o p \in Seq(Workers \X Block)
               /\ Outgoing(q \o p, e) = Outgoing(q, e) \cup Outgoing(p, e)
    <2>1. q \o p \in Seq(Workers \X Block) /\ ToSet(q \o p) = ToSet(q) \cup ToSet(p)
      BY ConcatSet
    <2>2. QED
      BY <2>1 DEF Outgoing
  <1>3. ASSUME q # << >>
        PROVE  /\ Head(q) \in Workers \X Block /\ Tail(q) \in Seq(Workers \X Block)
               /\ Outgoing(q, e) = Outgoing(Tail(q), e)
                                     \cup (IF Head(q)[1] = e THEN ToSet(Head(q)[2]) ELSE {})
    <2>1. /\ Head(q) \in Workers \X Block /\ Tail(q) \in Seq(Workers \X Block)
          /\ ToSet(q) = ToSet(Tail(q)) \cup {Head(q)}
      BY <1>3, TailSet
    <2>2. QED
      BY <2>1 DEF Outgoing
  <1>4. QED
    BY <1>1, <1>2, <1>3

(* Packets between two workers. *)
LEMMA InNetFacts ==
  ASSUME NEW s \in Seq(Packet), NEW k \in Nat
  PROVE  /\ \A x \in Packet : InNet(Append(s, x), k)
                                 = InNet(s, k) \cup (IF x.tag = k THEN ToSet(x.block) ELSE {})
         /\ s # << >> => InNet(s, k) = InNet(Tail(s), k)
                                 \cup (IF Head(s).tag = k THEN ToSet(Head(s).block) ELSE {})
  <1>1. ASSUME NEW x \in Packet PROVE ToSet(Append(s, x)) = ToSet(s) \cup {x}
    BY AppendSet
  <1>2. ASSUME s # << >> PROVE ToSet(s) = ToSet(Tail(s)) \cup {Head(s)}
    BY <1>2, TailSet
  <1>3. QED
    BY <1>1, <1>2 DEF InNet

LEMMA PacketFacts ==
  ASSUME NEW s \in Seq(Packet), NEW x \in ToSet(s)
  PROVE  x \in Packet /\ x.tag \in Nat /\ x.block \in Block
  <1>1. ToSet(s) \subseteq Packet
    BY InSet
  <1>2. QED
    BY <1>1 DEF Packet

(* Packets stay in order when one with a tag at least as high joins behind, *)
(* or the first one leaves.                                                 *)
LEMMA FifoAppend ==
  ASSUME NEW s \in Seq(Packet), NEW x \in Packet, Fifo(s),
         \A y \in ToSet(s) : y.tag <= x.tag /\ (y.block = EndOfRound => y.tag < x.tag)
  PROVE  Fifo(Append(s, x))
  <1>1. /\ Len(s) \in Nat /\ Len(Append(s, x)) = Len(s) + 1
        /\ \A i \in 1 .. Len(s) : Append(s, x)[i] = s[i]
        /\ Append(s, x)[Len(s) + 1] = x /\ ToSet(s) = {s[i] : i \in 1 .. Len(s)}
    BY AppendSet, InSet
  <1>2. SUFFICES ASSUME NEW i \in 1 .. Len(s) + 1, NEW j \in 1 .. Len(s) + 1, i < j
                 PROVE  /\ Append(s, x)[i].tag <= Append(s, x)[j].tag
                        /\ Append(s, x)[i].block = EndOfRound
                             => Append(s, x)[i].tag < Append(s, x)[j].tag
    BY <1>1 DEF Fifo
  <1>3. i \in 1 .. Len(s) /\ Append(s, x)[i] = s[i] /\ s[i] \in ToSet(s)
    BY <1>1, <1>2
  <1>4. CASE j = Len(s) + 1
    BY <1>1, <1>3, <1>4
  <1>5. CASE j # Len(s) + 1
    <2>1. j \in 1 .. Len(s) /\ Append(s, x)[j] = s[j]
      BY <1>1, <1>5
    <2>2. QED
      BY <1>2, <1>3, <2>1 DEF Fifo
  <1>6. QED
    BY <1>4, <1>5

LEMMA FifoTail ==
  ASSUME NEW s \in Seq(Packet), s # << >>, Fifo(s)
  PROVE  /\ Fifo(Tail(s))
         /\ \A y \in ToSet(Tail(s)) : /\ Head(s).tag <= y.tag
                                      /\ Head(s).block = EndOfRound => Head(s).tag < y.tag
  <1>1. /\ Len(s) \in Nat /\ Len(s) > 0 /\ Len(Tail(s)) = Len(s) - 1 /\ Head(s) = s[1]
        /\ \A i \in 1 .. Len(s) - 1 : Tail(s)[i] = s[i + 1]
        /\ Tail(s) \in Seq(Packet)
    BY TailSet
  <1>2. ToSet(Tail(s)) = {Tail(s)[i] : i \in 1 .. Len(s) - 1}
    BY <1>1, InSet
  <1>3. ASSUME NEW i \in 1 .. Len(s) - 1, NEW j \in 1 .. Len(s) - 1, i < j
        PROVE  /\ Tail(s)[i].tag <= Tail(s)[j].tag
               /\ Tail(s)[i].block = EndOfRound => Tail(s)[i].tag < Tail(s)[j].tag
    <2>1. i + 1 \in 1 .. Len(s) /\ j + 1 \in 1 .. Len(s) /\ i + 1 < j + 1
      BY <1>1, <1>3
    <2>2. Tail(s)[i] = s[i + 1] /\ Tail(s)[j] = s[j + 1]
      BY <1>1
    <2>3. QED
      BY <2>1, <2>2 DEF Fifo
  <1>4. ASSUME NEW i \in 1 .. Len(s) - 1
        PROVE  /\ Head(s).tag <= Tail(s)[i].tag
               /\ Head(s).block = EndOfRound => Head(s).tag < Tail(s)[i].tag
    <2>1. 1 \in 1 .. Len(s) /\ i + 1 \in 1 .. Len(s) /\ 1 < i + 1
      BY <1>1
    <2>2. QED
      BY <1>1, <2>1 DEF Fifo
  <1>5. QED
    BY <1>1, <1>2, <1>3, <1>4 DEF Fifo

-----------------------------------------------------------------------------
(* What the operators of the main thread yield *)

LEMMA NewMessageFacts ==
  ASSUME Types, NEW w \in Workers, NEW d \in Workers
  PROVE  /\ NewMessage(w, d) \in Mess
         /\ NewMessage(w, d).from = w /\ NewMessage(w, d).to = d
         /\ NewMessage(w, d).round = round[w]
  <1> DEFINE same == {m \in SentIn(round[w]) : m.from = w /\ m.to = d}
  <1>1. same \in SUBSET sent /\ IsFiniteSet(sent)
    BY DEF Types, SentIn
  <1>2. Cardinality(same) \in Nat
    BY <1>1, FS_Subset, FS_CardinalityType
  <1>3. NewMessage(w, d) = [from |-> w, to |-> d, round |-> round[w], n |-> Cardinality(same) + 1]
    BY DEF NewMessage
  <1> HIDE DEF same
  <1>4. round[w] \in Nat
    BY DEF Types
  <1>5. QED
    BY <1>2, <1>3, <1>4 DEF Mess

(* What FlushMessages puts into the sending queue. *)
LEMMA LeftBlocksFacts ==
  ASSUME Types, NEW w \in Workers
  PROVE  /\ LeftBlocks(w) \in Seq(Workers \X Block)
         /\ ToSet(LeftBlocks(w)) = {<<cd[2], channels[w][cd[1]][cd[2]]>> : cd \in Filled(w)}
  <1> DEFINE order == SetToSeq(Filled(w))
             At(cd) == <<cd[2], channels[w][cd[1]][cd[2]]>>
  <1>1. Filled(w) \in SUBSET (Channels \X Workers) /\ IsFiniteSet(Channels \X Workers)
    BY MessageAssumption, FS_Product DEF Filled
  <1>2. IsFiniteSet(Filled(w))
    BY <1>1, FS_Subset
  <1>3. order \in Seq(Filled(w)) /\ ToSet(order) = Filled(w)
    BY <1>2, SetToSeqFacts
  <1>4. LeftBlocks(w) = [i \in DOMAIN order |-> At(order[i])]
    BY DEF LeftBlocks
  <1>5. ASSUME NEW cd \in Filled(w) PROVE At(cd) \in Workers \X Block
    <2>1. cd[1] \in Channels /\ cd[2] \in Workers
      BY <1>1
    <2>2. \A c \in Channels, d \in Workers : channels[w][c][d] \in Block
      BY DEF Types
    <2>3. QED
      BY <2>1, <2>2
  <1> HIDE DEF order, At
  <1>6. /\ Len(order) \in Nat /\ DOMAIN order = 1 .. Len(order)
        /\ Filled(w) = {order[i] : i \in 1 .. Len(order)}
    BY <1>3, InSet
  <1>7. /\ LeftBlocks(w) = [i \in 1 .. Len(order) |-> At(order[i])]
        /\ \A i \in 1 .. Len(order) : At(order[i]) \in Workers \X Block
    BY <1>4, <1>5, <1>6
  <1>8. LeftBlocks(w) \in Seq(Workers \X Block)
    BY <1>6, <1>7
  <1>9. DOMAIN LeftBlocks(w) = 1 .. Len(order)
    BY <1>7
  <1>10. ToSet(LeftBlocks(w)) = {At(order[i]) : i \in 1 .. Len(order)}
    BY <1>7, <1>9 DEF ToSet
  <1>11. ToSet(LeftBlocks(w)) = {At(cd) : cd \in Filled(w)}
    BY <1>6, <1>10
  <1>12. QED
    BY <1>8, <1>11 DEF At

(* The size a worker votes by is 0 exactly if it flushed nothing. *)
LEMMA FlushedSizeFacts ==
  ASSUME Types, NEW w \in Workers, SendSound(w)
  PROVE  /\ FlushedSize(w) \in Nat
         /\ FlushedSize(w) = 0 <=> InChannels(w) = {}
         /\ InChannels(w) = UNION {ToSet(channels[w][c][d]) : c \in Channels, d \in Workers}
  <1>1. ASSUME NEW c \in Channels, NEW d \in Workers, NEW m \in ToSet(channels[w][c][d])
        PROVE  m \in sent /\ <<c, d>> \in Filled(w)
    BY <1>1, EmptySet DEF SendSound, Ours, Filled
  <1>2. InChannels(w) = UNION {ToSet(channels[w][c][d]) : c \in Channels, d \in Workers}
    <2>1. ASSUME NEW m \in InChannels(w)
          PROVE  \E c \in Channels, d \in Workers : m \in ToSet(channels[w][c][d])
      BY <2>1 DEF InChannels, Filled
    <2>2. ASSUME NEW c \in Channels, NEW d \in Workers, NEW m \in ToSet(channels[w][c][d])
          PROVE  m \in InChannels(w)
      <3>1. <<c, d>> \in Filled(w)
        BY <1>1
      <3>2. m \in ToSet(channels[w][<<c, d>>[1]][<<c, d>>[2]])
        OBVIOUS
      <3>3. QED
        BY <3>1, <3>2 DEF InChannels
    <2>3. QED
      BY <2>1, <2>2
  <1>3. InChannels(w) \in SUBSET sent
    <2>1. \A c \in Channels, d \in Workers : ToSet(channels[w][c][d]) \subseteq sent
      BY <1>1
    <2>2. QED
      BY <1>2, <2>1
  <1>4. IsFiniteSet(InChannels(w))
    BY <1>3, FS_Subset DEF Types
  <1>5. QED
    BY <1>2, <1>4, FS_CardinalityType, FS_EmptySet DEF FlushedSize

-----------------------------------------------------------------------------
(* Types *)

(* Blocks enter and leave sequences of blocks with their destination. *)
LEMMA SendingType ==
  ASSUME NEW q \in Seq(Workers \X Block), NEW d \in Workers, NEW b \in Block
  PROVE  Append(q, <<d, b>>) \in Seq(Workers \X Block)
  BY OutgoingFacts

LEMMA MainTypes ==
  ASSUME Types, NEW w \in Workers, SendSound(w),
         StartARound(w) \/ Sends(w) \/ GetMessages(w) \/ FinishMsgFilling(w)
           \/ DrainOne(w) \/ FinishARound(w)
  PROVE  Types'
  <1> DEFINE Q == [blocks : Seq(Block), producers : Int]
             p == Parity(round[w])
             q == recv[w][p]
  <1>0. /\ recv \in [Workers -> [0 .. 1 -> Q]] /\ to_self \in [Workers -> Seq(Block)]
        /\ sent_size \in [Workers -> Nat]
        /\ force \in [Workers -> [continue : BOOLEAN, terminate : BOOLEAN]]
        /\ sending \in [Workers -> [blocks : Seq(Workers \X Block), open : BOOLEAN]]
    BY DEF Types
  <1>1. /\ round[w] \in Nat /\ p \in 0 .. 1 /\ q \in Q /\ fnum \in Int
        /\ got[w] \in SUBSET Mess /\ to_self[w] \in Seq(Block)
        /\ sending[w] \in [blocks : Seq(Workers \X Block), open : BOOLEAN]
        /\ force[w] \in [continue : BOOLEAN, terminate : BOOLEAN]
    <2>1. round[w] \in Nat /\ p \in 0 .. 1
      BY Parities DEF Types
    <2>2. q \in Q
      BY <2>1 DEF Types
    <2>3. fnum \in Int
      BY MessageAssumption, FS_CardinalityType DEF fnum
    <2>4. QED
      BY <2>1, <2>2, <2>3 DEF Types
  <1>2. ASSUME q.blocks # << >>
        PROVE  Tail(q.blocks) \in Seq(Block) /\ ToSet(Head(q.blocks)) \in SUBSET Mess
    <2>1. q.blocks \in Seq(Block)
      BY <1>1
    <2>2. Tail(q.blocks) \in Seq(Block) /\ Head(q.blocks) \in Block
      BY <1>2, <2>1, StuffFacts
    <2>3. QED
      BY <2>2, InSet DEF Block
  <1>3. CASE StartARound(w)
    <2>1. SelfDelivered(q, w) \in Q
      <3>1. q.blocks \o to_self[w] \in Seq(Block) /\ q.producers - 1 \in Int
        BY <1>1, StuffFacts
      <3>2. QED
        BY <1>1, <3>1 DEF SelfDelivered, QDec
    <2>a. /\ recv' = [recv EXCEPT ![w][p] = SelfDelivered(q, w)] \/ recv' = recv
          /\ to_self' = [to_self EXCEPT ![w] = << >>] \/ to_self' = to_self
      BY <1>3 DEF StartARound
    <2> HIDE DEF Q, p, q
    <2>2. recv' \in [Workers -> [0 .. 1 -> Q]]
      <3>1. recv' = recv \/ \E x \in Q : recv' = [recv EXCEPT ![w][p] = x]
        BY <2>a, <2>1
      <3>2. p \in 0 .. 1
        BY <1>1
      <3>3. ASSUME NEW x \in Q, recv' = [recv EXCEPT ![w][p] = x]
            PROVE  recv' \in [Workers -> [0 .. 1 -> Q]]
        BY <1>0, <3>2, <3>3 DEF Q
      <3>4. QED
        BY <1>0, <3>1, <3>3
    <2>b. to_self' \in [Workers -> Seq(Block)]
      <3>1. << >> \in Seq(Block)
        OBVIOUS
      <3>2. QED
        BY <1>0, <2>a, <3>1
    <2>3. /\ sent_size' \in [Workers -> Nat]
          /\ sender' \in [Workers -> {"none", "run", "ended"}]
          /\ got' \in [Workers -> SUBSET Mess]
          /\ pc' \in [Workers -> {"start", "eval", "drain", "vote"} \cup Finals]
      BY <1>3 DEF StartARound, Types
    <2>4. force' \in [Workers -> [continue : BOOLEAN, terminate : BOOLEAN]]
      BY <1>1, <1>3 DEF StartARound, Types
    <2>5. sending' \in [Workers -> [blocks : Seq(Workers \X Block), open : BOOLEAN]]
      BY <1>1, <1>3 DEF StartARound, Types
    <2>6. QED
      BY <1>3, <2>2, <2>b, <2>3, <2>4, <2>5 DEF StartARound, Types, Q
  <1>4. CASE Sends(w)
    <2>1. ASSUME NEW c \in Channels, NEW d \in Workers
          PROVE  /\ NewMessage(w, d) \in Mess /\ channels[w][c][d] \in Block
                 /\ Append(channels[w][c][d], NewMessage(w, d)) \in Block
                 /\ IsFiniteSet(sent \cup {NewMessage(w, d)})
      <3>1. NewMessage(w, d) \in Mess
        BY NewMessageFacts
      <3>2. channels[w][c][d] \in Block
        BY DEF Types
      <3>3. Append(channels[w][c][d], NewMessage(w, d)) \in Block
        BY <3>1, <3>2, AppendSet DEF Block
      <3>4. IsFiniteSet(sent \cup {NewMessage(w, d)})
        BY FS_AddElement DEF Types
      <3>5. QED
        BY <3>1, <3>2, <3>3, <3>4
    <2>2. ASSUME NEW c \in Channels, SendToFragment(w, c) PROVE Types'
      <3> DEFINE m == NewMessage(w, w)
                 blk == Append(channels[w][c][w], m)
      <3>1. m \in Mess /\ blk \in Block /\ IsFiniteSet(sent \cup {m})
        BY <2>1
      <3>2. channels' = [channels EXCEPT ![w][c][w] = blk] /\ sent' = sent \cup {m}
        BY <2>2 DEF SendToFragment
      <3>u. UNCHANGED <<pc, round, sent_size, force, sending, to_self, sender,
                       recv, recvAlive, net, ballots, overflowed, got>>
        BY <2>2 DEF SendToFragment
      <3> HIDE DEF m, blk
      <3>3. channels' \in [Workers -> [Channels -> [Workers -> Block]]]
        BY <3>1, <3>2 DEF Types
      <3>4. sent' \subseteq Mess /\ IsFiniteSet(sent') /\ overflowed' \subseteq sent'
        BY <3>1, <3>2, <3>u DEF Types
      <3>5. QED
        BY <3>u, <3>3, <3>4 DEF Types
    <2>3. ASSUME NEW c \in Channels, NEW d \in Workers, SyncState(w, c, d) PROVE Types'
      <3> DEFINE m == NewMessage(w, d)
                 blk == Append(channels[w][c][d], m)
                 qs == sending[w].blocks
      <3>1. /\ m \in Mess /\ blk \in Block /\ IsFiniteSet(sent \cup {m})
            /\ channels[w][c][d] \in Block
        BY <2>1
      <3>2. ToSet(blk) \subseteq sent \cup {m}
        <4>1. ToSet(blk) = ToSet(channels[w][c][d]) \cup {m}
          BY <3>1, AppendSet DEF Block
        <4>2. ToSet(channels[w][c][d]) \subseteq sent
          BY DEF SendSound, Ours
        <4>3. QED
          BY <4>1, <4>2
      <3>3. Append(qs, <<d, blk>>) \in Seq(Workers \X Block)
        BY <1>1, <3>1, SendingType
      <3>4. << >> \in Block
        BY DEF Block
      <3>5. /\ \/ /\ sending' = [sending EXCEPT ![w].blocks = Append(qs, <<d, blk>>)]
               /\ channels' = [channels EXCEPT ![w][c][d] = << >>]
               /\ overflowed' = overflowed \cup ToSet(blk)
            \/ /\ channels' = [channels EXCEPT ![w][c][d] = blk]
               /\ UNCHANGED <<sending, overflowed>>
        BY <2>3 DEF SyncState
      <3>6. /\ sent' = sent \cup {m}
            /\ UNCHANGED <<pc, round, sent_size, force, to_self, sender, recv,
                           recvAlive, net, ballots, got>>
        BY <2>3 DEF SyncState
      <3> HIDE DEF m, blk, qs
      <3>7. channels' \in [Workers -> [Channels -> [Workers -> Block]]]
        <4>1. \E b \in Block : channels' = [channels EXCEPT ![w][c][d] = b]
          BY <3>1, <3>4, <3>5
        <4>2. QED
          BY <4>1 DEF Types
      <3>8. sending' \in [Workers -> [blocks : Seq(Workers \X Block), open : BOOLEAN]]
        <4>1. \/ sending' = sending
              \/ sending' = [sending EXCEPT ![w].blocks = Append(qs, <<d, blk>>)]
          BY <3>5
        <4>2. [sending[w] EXCEPT !.blocks = Append(qs, <<d, blk>>)]
                \in [blocks : Seq(Workers \X Block), open : BOOLEAN]
          BY <1>1, <3>3
        <4>3. QED
          BY <1>0, <4>1, <4>2
      <3>9. sent' \subseteq Mess /\ IsFiniteSet(sent') /\ overflowed' \subseteq sent'
        BY <3>1, <3>2, <3>5, <3>6 DEF Types
      <3>10. QED
        BY <3>6, <3>7, <3>8, <3>9 DEF Types
    <2>4. QED
      BY <1>4, <2>2, <2>3 DEF Sends
  <1>5. CASE GetMessages(w) \/ DrainOne(w)
    <2>1. /\ q.blocks # << >>
          /\ got' = [got EXCEPT ![w] = @ \cup ToSet(Head(q.blocks))]
          /\ recv' = [recv EXCEPT ![w][p].blocks = Tail(@)]
          /\ UNCHANGED <<pc, round, manager, sender, recvAlive, net, ballots, sent, overflowed>>
      BY <1>5 DEF GetMessages, DrainOne, QHas, CurrentQueue
    <2>2. Tail(q.blocks) \in Seq(Block) /\ ToSet(Head(q.blocks)) \in SUBSET Mess
      BY <1>2, <2>1
    <2>3. recv' \in [Workers -> [0 .. 1 -> Q]]
      <3>1. recv' = [recv EXCEPT ![w][p] = [q EXCEPT !.blocks = Tail(q.blocks)]]
        BY <2>1
      <3>2. [q EXCEPT !.blocks = Tail(q.blocks)] \in Q
        BY <1>1, <2>2
      <3> HIDE DEF q, p, Q
      <3>3. QED
        BY <1>1, <3>1, <3>2 DEF Types, Q
    <2>4. got' \in [Workers -> SUBSET Mess]
      BY <1>1, <2>1, <2>2 DEF Types
    <2>5. QED
      BY <2>1, <2>3, <2>4 DEF Types, manager
  <1>6. CASE FinishMsgFilling(w)
    <2>1. sending[w].blocks \o LeftBlocks(w) \in Seq(Workers \X Block)
      BY <1>1, LeftBlocksFacts, ConcatSet
    <2>2. sending' \in [Workers -> [blocks : Seq(Workers \X Block), open : BOOLEAN]]
      BY <1>6, <2>1 DEF FinishMsgFilling, Types
    <2>3. sent_size' \in [Workers -> Nat]
      <3>1. sent_size' = [sent_size EXCEPT ![w] = FlushedSize(w)]
        BY <1>6 DEF FinishMsgFilling
      <3>2. QED
        BY <1>0, <3>1, FlushedSizeFacts
    <2>4. channels' \in [Workers -> [Channels -> [Workers -> Block]]]
      BY <1>6 DEF FinishMsgFilling, Types, NoMessages, Block
    <2>5. force' \in [Workers -> [continue : BOOLEAN, terminate : BOOLEAN]]
      <3>1. \/ force' = force
            \/ force' = [force EXCEPT ![w].continue = TRUE]
            \/ force' = [force EXCEPT ![w].terminate = TRUE]
        BY <1>6 DEF FinishMsgFilling, ForceContinue, ForceTerminate
      <3>2. QED
        BY <1>0, <3>1
    <2>6. pc' \in [Workers -> {"start", "eval", "drain", "vote"} \cup Finals]
      BY <1>6 DEF FinishMsgFilling, Types
    <2>7. QED
      BY <1>6, <2>2, <2>3, <2>4, <2>5, <2>6 DEF FinishMsgFilling, Types
  <1>7. CASE FinishARound(w)
    <2>1. Reopened(q) \in Q
      BY <1>1 DEF Reopened
    <2>2. recv' \in [Workers -> [0 .. 1 -> Q]]
      <3>1. recv' = [recv EXCEPT ![w][p] = Reopened(q)]
        BY <1>7 DEF FinishARound
      <3> HIDE DEF q, p, Q
      <3>2. QED
        BY <1>1, <2>1, <3>1 DEF Types, Q
    <2>3. ballots' \subseteq [by : Workers, round : Nat, goOn : BOOLEAN, stop : BOOLEAN]
      <3> DEFINE g == sent_size[w] # 0 \/ force[w].continue
                 s == force[w].terminate
      <3>1. g \in BOOLEAN /\ s \in BOOLEAN
        BY <1>1
      <3>2. ballots' = ballots \cup {[by |-> w, round |-> round[w], goOn |-> g, stop |-> s]}
        BY <1>7 DEF FinishARound
      <3> HIDE DEF g, s
      <3>3. QED
        BY <1>1, <3>1, <3>2 DEF Types
    <2>4. /\ round' \in [Workers -> Nat]
          /\ pc' \in [Workers -> {"start", "eval", "drain", "vote"} \cup Finals]
      BY <1>1, <1>7 DEF FinishARound, Types
    <2>5. QED
      BY <1>7, <2>2, <2>3, <2>4 DEF FinishARound, Types, manager
  <1>8. QED
    BY <1>3, <1>4, <1>5, <1>6, <1>7

-----------------------------------------------------------------------------
LEMMA OtherTypes ==
  ASSUME Types, NEW w \in Workers,
         \/ ToTerminate(w) \/ WaitSend(w) \/ StopRecvThread(w)
         \/ SendBlock(w) \/ SendEnds(w) \/ ReceiveStop(w)
         \/ \E v \in Workers : Receive(w, v)
  PROVE  Types'
  <1> DEFINE NetType(n) == /\ DOMAIN n = Workers /\ \A v \in Workers : DOMAIN n[v] = Workers
                           /\ \A v, d \in Workers : v # d => n[v][d] \in Seq(Packet)
             Q == [blocks : Seq(Block), producers : Int]
  <1>0. /\ NetType(net) /\ recv \in [Workers -> [0 .. 1 -> Q]]
        /\ to_self \in [Workers -> Seq(Block)] /\ round[w] \in Nat
        /\ sending[w] \in [blocks : Seq(Workers \X Block), open : BOOLEAN]
        /\ sending \in [Workers -> [blocks : Seq(Workers \X Block), open : BOOLEAN]]
        /\ sender \in [Workers -> {"none", "run", "ended"}]
    BY DEF Types
  <1>t. Tag(w) \in Nat
    BY <1>0 DEF Tag
  <1>e. EndOfRound \in Block
    BY DEF EndOfRound, Block
  <1>1. CASE ToTerminate(w)
    BY <1>1 DEF ToTerminate, Types, manager, Finals
  <1>2. CASE WaitSend(w)
    BY <1>2 DEF WaitSend, Types, manager, Finals
  <1>3. CASE StopRecvThread(w)
    <2>1. NetType(net')
      BY <1>0, <1>3 DEF StopRecvThread
    <2>2. pc' \in [Workers -> {"start", "eval", "drain", "vote"} \cup Finals]
      BY <1>3 DEF StopRecvThread, Types, Finals
    <2>3. QED
      BY <1>3, <2>1, <2>2 DEF StopRecvThread, Types, manager
  <1>4. CASE SendBlock(w)
    <2> DEFINE d == Head(sending[w].blocks)[1]
               b == Head(sending[w].blocks)[2]
               x == [tag |-> Tag(w), block |-> b]
    <2>1. /\ sending[w].blocks # << >>
          /\ sending' = [sending EXCEPT ![w].blocks = Tail(sending[w].blocks)]
          /\ \/ /\ d = w /\ to_self' = [to_self EXCEPT ![w] = Append(to_self[w], b)] /\ net' = net
             \/ /\ d # w /\ to_self' = to_self
                /\ net' = [net EXCEPT ![w][d] = Append(net[w][d], x)]
          /\ UNCHANGED <<pc, round, channels, sent_size, force, sender, recv,
                         recvAlive, ballots, sent, overflowed, got>>
      BY <1>4 DEF SendBlock
    <2>2. Tail(sending[w].blocks) \in Seq(Workers \X Block) /\ d \in Workers /\ b \in Block
      <3>1. sending[w].blocks \in Seq(Workers \X Block)
        BY <1>0
      <3>2. /\ Tail(sending[w].blocks) \in Seq(Workers \X Block)
            /\ Head(sending[w].blocks) \in Workers \X Block
        BY <2>1, <3>1, TailSet
      <3>3. QED
        BY <3>2
    <2>3. x \in Packet
      BY <1>t, <2>2 DEF Packet
    <2> HIDE DEF d, b, x
    <2>4. sending' \in [Workers -> [blocks : Seq(Workers \X Block), open : BOOLEAN]]
      BY <1>0, <2>1, <2>2
    <2>5. to_self' \in [Workers -> Seq(Block)]
      <3>1. to_self[w] \in Seq(Block)
        BY <1>0
      <3>2. Append(to_self[w], b) \in Seq(Block)
        BY <2>2, <3>1, StuffFacts
      <3>3. QED
        BY <1>0, <2>1, <3>2
    <2>6. NetType(net')
      <3>1. CASE d = w
        BY <1>0, <2>1, <3>1
      <3>2. CASE d # w
        <4>1. Append(net[w][d], x) \in Seq(Packet)
          BY <1>0, <2>2, <2>3, <3>2, AppendSet
        <4>2. net' = [net EXCEPT ![w][d] = Append(net[w][d], x)]
          BY <2>1, <3>2
        <4>3. DOMAIN net' = Workers /\ \A v \in Workers : DOMAIN net'[v] = Workers
          BY <1>0, <2>2, <4>2
        <4>4. \A v, e \in Workers : net'[v][e] = IF v = w /\ e = d THEN Append(net[w][d], x)
                                                                ELSE net[v][e]
          BY <1>0, <2>2, <4>2
        <4>5. QED
          BY <1>0, <4>1, <4>3, <4>4
      <3>3. QED
        BY <3>1, <3>2
    <2>7. QED
      BY <2>1, <2>4, <2>5, <2>6 DEF Types
  <1>5. CASE SendEnds(w)
    <2> DEFINE x == [tag |-> Tag(w), block |-> EndOfRound]
    <2>1. /\ net' = [net EXCEPT ![w] = [d \in Workers |->
                       IF d = w THEN net[w][d] ELSE Append(net[w][d], x)]]
          /\ sender' = [sender EXCEPT ![w] = "ended"]
          /\ UNCHANGED <<pc, round, manager, recv, recvAlive, ballots, sent, overflowed, got>>
      BY <1>5 DEF SendEnds
    <2>2. x \in Packet
      BY <1>t, <1>e DEF Packet
    <2> HIDE DEF x
    <2>3. \A d \in Workers : d # w => Append(net[w][d], x) \in Seq(Packet)
      BY <1>0, <2>2, AppendSet
    <2>4. NetType(net')
      BY <1>0, <2>1, <2>3
    <2>5. sender' \in [Workers -> {"none", "run", "ended"}]
      BY <1>0, <2>1
    <2>6. QED
      BY <2>1, <2>4, <2>5 DEF Types, manager
  <1>6. CASE ReceiveStop(w)
    <2>1. NetType(net')
      BY <1>0, <1>6 DEF ReceiveStop
    <2>2. QED
      BY <1>6, <2>1 DEF ReceiveStop, Types, manager
  <1>7. ASSUME NEW v \in Workers, Receive(w, v) PROVE Types'
    <2> DEFINE x == Head(net[v][w])
               p == Parity(x.tag)
               q == recv[w][p]
    <2>1. /\ v # w /\ net[v][w] # << >>
          /\ recv' = [recv EXCEPT ![w][p] = Received(q, x.block)]
          /\ net' = [net EXCEPT ![v][w] = Tail(net[v][w])]
          /\ UNCHANGED <<pc, round, manager, sender, recvAlive, ballots, sent, overflowed, got>>
      BY <1>7 DEF Receive
    <2>2. x \in Packet /\ Tail(net[v][w]) \in Seq(Packet)
      <3>1. net[v][w] \in Seq(Packet)
        BY <1>0, <2>1
      <3>2. QED
        BY <2>1, <3>1, TailSet
    <2>3. p \in 0 .. 1 /\ x.block \in Block
      BY <2>2, Parities DEF Packet
    <2>4. q \in Q
      BY <1>0, <2>3
    <2> HIDE DEF x, p, q
    <2>5. Received(q, x.block) \in Q
      <3>1. q.blocks \in Seq(Block) /\ q.producers - 1 \in Int
        BY <2>4
      <3>2. Append(q.blocks, x.block) \in Seq(Block)
        BY <2>3, <3>1, StuffFacts
      <3>3. QED
        BY <2>4, <3>1, <3>2 DEF Received, QDec, QPut
    <2>6. recv' \in [Workers -> [0 .. 1 -> Q]]
      BY <1>0, <2>1, <2>3, <2>5
    <2>7. NetType(net')
      BY <1>0, <2>1, <2>2
    <2>8. QED
      BY <2>1, <2>6, <2>7 DEF Types, manager
  <1>8. QED
    BY <1>1, <1>2, <1>3, <1>4, <1>5, <1>6, <1>7

LEMMA TypesStep ==
  ASSUME Types, \A w \in Workers : SendSound(w), [Next]_vars
  PROVE  Types'
  <1>1. CASE Next
    <2>1. PICK w \in Workers :
              \/ StartARound(w) \/ Sends(w) \/ GetMessages(w)
              \/ FinishMsgFilling(w) \/ DrainOne(w) \/ FinishARound(w)
              \/ ToTerminate(w) \/ WaitSend(w) \/ StopRecvThread(w)
              \/ SendBlock(w) \/ SendEnds(w)
              \/ ReceiveStop(w) \/ \E v \in Workers : Receive(w, v)
      BY <1>1 DEF Next
    <2>2. QED
      BY <2>1, MainTypes, OtherTypes
  <1>2. CASE UNCHANGED vars
    BY <1>2 DEF vars, manager, Types
  <1>3. QED
    BY <1>1, <1>2

-----------------------------------------------------------------------------
(* What each action does, worker by worker *)

LEMMA StartFacts ==
  ASSUME Types, NEW w \in Workers, StartARound(w)
  PROVE  LET p == Parity(round[w])
         IN  /\ pc[w] = "start" /\ pc'[w] = "eval" /\ sender'[w] = "run"
             /\ sending'[w].open = TRUE /\ sending'[w].blocks = sending[w].blocks
             /\ got'[w] = {} /\ sent_size'[w] = 0
             /\ round[w] = 0 => recv' = recv /\ to_self' = to_self
             /\ round[w] # 0 => /\ sender[w] = "ended" /\ to_self'[w] = << >>
                                /\ recv'[w][p].blocks = recv[w][p].blocks \o to_self[w]
                                /\ recv'[w][p].producers = recv[w][p].producers - 1
                                /\ \A k \in 0 .. 1 : k # p => recv'[w][k] = recv[w][k]
             /\ \A u \in Workers : u # w =>
                  /\ pc'[u] = pc[u] /\ sender'[u] = sender[u] /\ sending'[u] = sending[u]
                  /\ got'[u] = got[u] /\ recv'[u] = recv[u] /\ to_self'[u] = to_self[u]
                  /\ sent_size'[u] = sent_size[u]
             /\ round' = round /\ channels' = channels /\ net' = net
             /\ ballots' = ballots /\ sent' = sent /\ overflowed' = overflowed
  <1> DEFINE p == Parity(round[w])
             Q == [blocks : Seq(Block), producers : Int]
  <1>1. p \in 0 .. 1 /\ recv \in [Workers -> [0 .. 1 -> Q]]
    BY Parities DEF Types
  <1>2. /\ pc[w] = "start" /\ pc'[w] = "eval" /\ sender'[w] = "run" /\ got'[w] = {}
        /\ sent_size'[w] = 0
        /\ round' = round /\ channels' = channels /\ net' = net
        /\ ballots' = ballots /\ sent' = sent /\ overflowed' = overflowed
        /\ \A u \in Workers : u # w =>
             /\ pc'[u] = pc[u] /\ sender'[u] = sender[u] /\ got'[u] = got[u]
             /\ sent_size'[u] = sent_size[u]
    BY DEF StartARound, Types
  <1>3. /\ sending'[w].open = TRUE /\ sending'[w].blocks = sending[w].blocks
        /\ \A u \in Workers : u # w => sending'[u] = sending[u]
    <2>1. sending' = [sending EXCEPT ![w].open = TRUE]
      BY DEF StartARound
    <2>2. sending \in [Workers -> [blocks : Seq(Workers \X Block), open : BOOLEAN]]
      BY DEF Types
    <2>3. QED
      BY <2>1, <2>2
  <1>4. CASE round[w] = 0
    BY <1>2, <1>3, <1>4 DEF StartARound
  <1>5. CASE round[w] # 0
    <2>1. /\ sender[w] = "ended"
          /\ recv' = [recv EXCEPT ![w][p] = SelfDelivered(recv[w][p], w)]
          /\ to_self' = [to_self EXCEPT ![w] = << >>]
      BY <1>5 DEF StartARound
    <2>2. recv[w][p] \in Q
      BY <1>1
    <2>3. /\ SelfDelivered(recv[w][p], w).blocks = recv[w][p].blocks \o to_self[w]
          /\ SelfDelivered(recv[w][p], w).producers = recv[w][p].producers - 1
      BY <2>2 DEF SelfDelivered, QDec
    <2> HIDE DEF p
    <2>4. /\ recv'[w][p] = SelfDelivered(recv[w][p], w)
          /\ \A k \in 0 .. 1 : k # p => recv'[w][k] = recv[w][k]
          /\ \A u \in Workers : u # w => recv'[u] = recv[u]
      BY <1>1, <2>1
    <2>5. to_self'[w] = << >> /\ \A u \in Workers : u # w => to_self'[u] = to_self[u]
      BY <2>1 DEF Types
    <2>6. QED
      BY <1>2, <1>3, <1>5, <2>1, <2>3, <2>4, <2>5 DEF p
  <1>6. QED
    BY <1>4, <1>5

(* SyncState and SendToFragment: the message goes into a channel, or with   *)
(* all of a full block into the sending queue.                              *)
Posted(w, c, d, m) ==
  LET b == Append(channels[w][c][d], m)
  IN  /\ pc[w] = "eval" /\ m.from = w /\ m.to = d /\ m.round = round[w]
      /\ sent' = sent \cup {m} /\ b \in Block /\ b # << >>
      /\ ToSet(b) = ToSet(channels[w][c][d]) \cup {m}
      /\ \/ /\ d # w /\ channels'[w][c][d] = << >>
            /\ sending'[w].blocks = Append(sending[w].blocks, <<d, b>>)
            /\ overflowed' = overflowed \cup ToSet(b)
         \/ /\ channels'[w][c][d] = b /\ sending'[w].blocks = sending[w].blocks
            /\ overflowed' = overflowed
      /\ sending'[w].open = sending[w].open
      /\ \A a \in Channels, e \in Workers : a # c \/ e # d =>
           channels'[w][a][e] = channels[w][a][e]
      /\ \A u \in Workers : u # w =>
           channels'[u] = channels[u] /\ sending'[u] = sending[u]
      /\ UNCHANGED <<pc, round, sent_size, force, to_self, sender, recv,
                     recvAlive, net, ballots, got>>

LEMMA PostFacts ==
  ASSUME Types, NEW w \in Workers, Sends(w)
  PROVE  \E c \in Channels, d \in Workers, m \in Mess : Posted(w, c, d, m)
  <1>0. /\ channels \in [Workers -> [Channels -> [Workers -> Block]]]
        /\ sending \in [Workers -> [blocks : Seq(Workers \X Block), open : BOOLEAN]]
    BY DEF Types
  <1>1. ASSUME NEW c \in Channels, NEW d \in Workers
        PROVE  /\ NewMessage(w, d) \in Mess
               /\ NewMessage(w, d).from = w /\ NewMessage(w, d).to = d
               /\ NewMessage(w, d).round = round[w]
               /\ Append(channels[w][c][d], NewMessage(w, d)) \in Block
               /\ Append(channels[w][c][d], NewMessage(w, d)) # << >>
               /\ ToSet(Append(channels[w][c][d], NewMessage(w, d)))
                    = ToSet(channels[w][c][d]) \cup {NewMessage(w, d)}
    <2>1. NewMessage(w, d) \in Mess
      BY NewMessageFacts
    <2>2. channels[w][c][d] \in Seq(Mess)
      BY <1>0 DEF Block
    <2>3. QED
      BY <2>1, <2>2, AppendSet, NewMessageFacts DEF Block
  <1>2. ASSUME NEW c \in Channels, NEW d \in Workers, NEW b \in Block,
               channels' = [channels EXCEPT ![w][c][d] = b]
        PROVE  /\ channels'[w][c][d] = b
               /\ \A a \in Channels, e \in Workers : a # c \/ e # d =>
                    channels'[w][a][e] = channels[w][a][e]
               /\ \A u \in Workers : u # w => channels'[u] = channels[u]
    BY <1>0, <1>2
  <1>3. ASSUME NEW c \in Channels, SendToFragment(w, c)
        PROVE  /\ pc[w] = "eval" /\ sent' = sent \cup {NewMessage(w, w)}
               /\ channels' = [channels EXCEPT ![w][c][w] = Append(channels[w][c][w], NewMessage(w, w))]
               /\ UNCHANGED <<pc, round, sent_size, force, sending, to_self, sender,
                              recv, recvAlive, net, ballots, overflowed, got>>
    BY <1>3 DEF SendToFragment
  <1>5. ASSUME NEW c \in Channels, NEW d \in Workers, SyncState(w, c, d)
        PROVE  /\ pc[w] = "eval" /\ d # w /\ sent' = sent \cup {NewMessage(w, d)}
               /\ \/ /\ sending' = [sending EXCEPT ![w].blocks =
                           Append(sending[w].blocks,
                                  <<d, Append(channels[w][c][d], NewMessage(w, d))>>)]
                     /\ channels' = [channels EXCEPT ![w][c][d] = << >>]
                     /\ overflowed' = overflowed
                          \cup ToSet(Append(channels[w][c][d], NewMessage(w, d)))
                  \/ /\ channels' = [channels EXCEPT ![w][c][d] =
                                        Append(channels[w][c][d], NewMessage(w, d))]
                     /\ UNCHANGED <<sending, overflowed>>
               /\ UNCHANGED <<pc, round, sent_size, force, to_self, sender, recv,
                              recvAlive, net, ballots, got>>
    BY <1>5 DEF SyncState
  <1>6. << >> \in Block
    BY DEF Block
  <1>7. CASE \E c \in Channels : SendToFragment(w, c)
    <2>1. PICK c \in Channels : SendToFragment(w, c)
      BY <1>7
    <2> DEFINE m == NewMessage(w, w)
               b == Append(channels[w][c][w], m)
    <2>2. /\ m \in Mess /\ m.from = w /\ m.to = w /\ m.round = round[w]
          /\ b \in Block /\ b # << >> /\ ToSet(b) = ToSet(channels[w][c][w]) \cup {m}
      BY <1>1
    <2>3. /\ pc[w] = "eval" /\ sent' = sent \cup {m}
          /\ channels' = [channels EXCEPT ![w][c][w] = b]
          /\ UNCHANGED <<pc, round, sent_size, force, sending, to_self, sender,
                         recv, recvAlive, net, ballots, overflowed, got>>
      BY <1>3, <2>1
    <2>4. /\ channels'[w][c][w] = b
          /\ \A a \in Channels, e \in Workers : a # c \/ e # w =>
               channels'[w][a][e] = channels[w][a][e]
          /\ \A u \in Workers : u # w => channels'[u] = channels[u]
      BY <1>2, <2>2, <2>3
    <2>5. b = Append(channels[w][c][w], m)
      OBVIOUS
    <2> HIDE DEF m, b
    <2>6. QED
      BY <2>2, <2>3, <2>4, <2>5 DEF Posted
  <1>8. CASE \E c \in Channels, d \in Workers : SyncState(w, c, d)
    <2>1. PICK c \in Channels, d \in Workers : SyncState(w, c, d)
      BY <1>8
    <2> DEFINE m == NewMessage(w, d)
               b == Append(channels[w][c][d], m)
    <2>2. /\ m \in Mess /\ m.from = w /\ m.to = d /\ m.round = round[w]
          /\ b \in Block /\ b # << >> /\ ToSet(b) = ToSet(channels[w][c][d]) \cup {m}
      BY <1>1
    <2>3. /\ pc[w] = "eval" /\ d # w /\ sent' = sent \cup {m}
          /\ \/ /\ sending' = [sending EXCEPT ![w].blocks = Append(sending[w].blocks, <<d, b>>)]
                /\ channels' = [channels EXCEPT ![w][c][d] = << >>]
                /\ overflowed' = overflowed \cup ToSet(b)
             \/ /\ channels' = [channels EXCEPT ![w][c][d] = b]
                /\ UNCHANGED <<sending, overflowed>>
          /\ UNCHANGED <<pc, round, sent_size, force, to_self, sender, recv,
                         recvAlive, net, ballots, got>>
      BY <1>5, <2>1
    <2>4. b = Append(channels[w][c][d], m)
      OBVIOUS
    <2> HIDE DEF m, b
    <2>5. /\ sending'[w].open = sending[w].open
          /\ \A u \in Workers : u # w => sending'[u] = sending[u]
          /\ \/ /\ channels' = [channels EXCEPT ![w][c][d] = << >>]
                /\ sending'[w].blocks = Append(sending[w].blocks, <<d, b>>)
                /\ overflowed' = overflowed \cup ToSet(b)
             \/ /\ channels' = [channels EXCEPT ![w][c][d] = b]
                /\ sending'[w].blocks = sending[w].blocks
                /\ overflowed' = overflowed
      <3>1. CASE /\ channels' = [channels EXCEPT ![w][c][d] = b]
                 /\ UNCHANGED <<sending, overflowed>>
        BY <3>1
      <3>2. CASE /\ sending' = [sending EXCEPT ![w].blocks = Append(sending[w].blocks, <<d, b>>)]
                 /\ channels' = [channels EXCEPT ![w][c][d] = << >>]
                 /\ overflowed' = overflowed \cup ToSet(b)
        <4>1. /\ sending'[w].open = sending[w].open
              /\ sending'[w].blocks = Append(sending[w].blocks, <<d, b>>)
              /\ \A u \in Workers : u # w => sending'[u] = sending[u]
          BY <1>0, <3>2
        <4>2. QED
          BY <3>2, <4>1
      <3>3. QED
        BY <2>3, <3>1, <3>2
    <2>6. /\ \A a \in Channels, e \in Workers : a # c \/ e # d =>
               channels'[w][a][e] = channels[w][a][e]
          /\ \A u \in Workers : u # w => channels'[u] = channels[u]
          /\ \/ channels' = [channels EXCEPT ![w][c][d] = << >>] /\ channels'[w][c][d] = << >>
             \/ channels' = [channels EXCEPT ![w][c][d] = b] /\ channels'[w][c][d] = b
      BY <1>2, <1>6, <2>2, <2>5
    <2>7. \/ /\ channels'[w][c][d] = << >>
             /\ sending'[w].blocks = Append(sending[w].blocks, <<d, b>>)
             /\ overflowed' = overflowed \cup ToSet(b)
          \/ /\ channels'[w][c][d] = b /\ sending'[w].blocks = sending[w].blocks
             /\ overflowed' = overflowed
      BY <1>2, <1>6, <2>2, <2>5
    <2>8. m \in Mess
      BY <2>2
    <2> WITNESS c \in Channels, d \in Workers, m \in Mess
    <2>9. QED
      BY <2>2, <2>3, <2>4, <2>5, <2>6, <2>7 DEF Posted
  <1>9. QED
    BY <1>7, <1>8 DEF Sends
(* GetMessages, and one turn of the loop of resetRecvQueue. *)
Takes(w) == GetMessages(w) \/ DrainOne(w)

LEMMA TakeFacts ==
  ASSUME Types, NEW w \in Workers, Takes(w)
  PROVE  LET p == Parity(round[w])
             q == recv[w][p].blocks
         IN  /\ pc[w] \in {"eval", "drain"} /\ round[w] # 0
             /\ q \in Seq(Block) /\ q # << >>
             /\ got'[w] = got[w] \cup ToSet(Head(q))
             /\ recv'[w][p].blocks = Tail(q)
             /\ recv'[w][p].producers = recv[w][p].producers
             /\ \A k \in 0 .. 1 : k # p => recv'[w][k] = recv[w][k]
             /\ \A u \in Workers : u # w => got'[u] = got[u] /\ recv'[u] = recv[u]
             /\ UNCHANGED <<pc, round, channels, sent_size, force, sending, to_self,
                            sender, recvAlive, net, ballots, sent, overflowed>>
  <1> DEFINE p == Parity(round[w])
             Q == [blocks : Seq(Block), producers : Int]
  <1>1. p \in 0 .. 1 /\ recv \in [Workers -> [0 .. 1 -> Q]]
    BY Parities DEF Types
  <1>2. recv[w][p] \in Q
    BY <1>1
  <1>3. /\ pc[w] \in {"eval", "drain"} /\ round[w] # 0 /\ recv[w][p].blocks # << >>
        /\ got' = [got EXCEPT ![w] = got[w] \cup ToSet(Head(recv[w][p].blocks))]
        /\ recv' = [recv EXCEPT ![w][p] = [recv[w][p] EXCEPT !.blocks = Tail(recv[w][p].blocks)]]
        /\ UNCHANGED <<pc, round, channels, sent_size, force, sending, to_self,
                       sender, recvAlive, net, ballots, sent, overflowed>>
    BY DEF Takes, GetMessages, DrainOne, QHas, CurrentQueue, manager
  <1> HIDE DEF p
  <1>4. /\ recv'[w][p] = [recv[w][p] EXCEPT !.blocks = Tail(recv[w][p].blocks)]
        /\ \A k \in 0 .. 1 : k # p => recv'[w][k] = recv[w][k]
        /\ \A u \in Workers : u # w => recv'[u] = recv[u]
    BY <1>1, <1>3
  <1>5. /\ recv'[w][p].blocks = Tail(recv[w][p].blocks)
        /\ recv'[w][p].producers = recv[w][p].producers
    BY <1>2, <1>4
  <1>6. /\ got'[w] = got[w] \cup ToSet(Head(recv[w][p].blocks))
        /\ \A u \in Workers : u # w => got'[u] = got[u]
    BY <1>3 DEF Types
  <1>7. recv[w][p].blocks \in Seq(Block)
    BY <1>2
  <1>8. QED
    BY <1>3, <1>4, <1>5, <1>6, <1>7 DEF p

LEMMA FillFacts ==
  ASSUME Types, NEW w \in Workers, FinishMsgFilling(w)
  PROVE  /\ pc[w] = "eval" /\ pc'[w] = "drain"
         /\ sending'[w].blocks = sending[w].blocks \o LeftBlocks(w)
         /\ sending'[w].open = FALSE /\ sent_size'[w] = FlushedSize(w)
         /\ \A c \in Channels, d \in Workers : channels'[w][c][d] = << >>
         /\ \A u \in Workers : u # w =>
              /\ pc'[u] = pc[u] /\ sending'[u] = sending[u] /\ channels'[u] = channels[u]
              /\ sent_size'[u] = sent_size[u]
         /\ UNCHANGED <<round, to_self, sender, recv, recvAlive, net, ballots,
                        sent, overflowed, got>>
  <1>1. /\ pc[w] = "eval" /\ pc' = [pc EXCEPT ![w] = "drain"]
        /\ sending' = [sending EXCEPT ![w] =
                         [blocks |-> sending[w].blocks \o LeftBlocks(w), open |-> FALSE]]
        /\ sent_size' = [sent_size EXCEPT ![w] = FlushedSize(w)]
        /\ channels' = [channels EXCEPT ![w] = NoMessages]
        /\ UNCHANGED <<round, to_self, sender, recv, recvAlive, net, ballots,
                       sent, overflowed, got>>
    BY DEF FinishMsgFilling
  <1>2. \A c \in Channels, d \in Workers : NoMessages[c][d] = << >>
    BY DEF NoMessages
  <1>3. pc \in [Workers -> {"start", "eval", "drain", "vote"} \cup Finals] /\ DOMAIN sending = Workers
        /\ DOMAIN sent_size = Workers /\ DOMAIN channels = Workers
    BY DEF Types
  <1>4. QED
    BY <1>1, <1>2, <1>3

LEMMA FinishFacts ==
  ASSUME Types, NEW w \in Workers, FinishARound(w)
  PROVE  LET p == Parity(round[w])
             b == [by |-> w, round |-> round[w],
                   goOn |-> sent_size[w] # 0 \/ force[w].continue,
                   stop |-> force[w].terminate]
         IN  /\ pc[w] = "drain" /\ pc'[w] = "vote" /\ round'[w] = round[w] + 1
             /\ round[w] # 0 => recv[w][p].blocks = << >> /\ recv[w][p].producers = 0
             /\ recv'[w][p].blocks = recv[w][p].blocks /\ recv'[w][p].producers = fnum
             /\ \A k \in 0 .. 1 : k # p => recv'[w][k] = recv[w][k]
             /\ \A u \in Workers : u # w => /\ pc'[u] = pc[u] /\ round'[u] = round[u]
                                            /\ recv'[u] = recv[u]
             /\ ballots' = ballots \cup {b}
             /\ UNCHANGED <<channels, sent_size, force, sending, to_self, sender,
                            recvAlive, net, sent, overflowed, got>>
  <1> DEFINE p == Parity(round[w])
             Q == [blocks : Seq(Block), producers : Int]
  <1>1. p \in 0 .. 1 /\ recv \in [Workers -> [0 .. 1 -> Q]]
    BY Parities DEF Types
  <1>2. recv[w][p] \in Q
    BY <1>1
  <1>3. /\ pc[w] = "drain" /\ pc' = [pc EXCEPT ![w] = "vote"]
        /\ round' = [round EXCEPT ![w] = round[w] + 1]
        /\ recv' = [recv EXCEPT ![w][p] = Reopened(recv[w][p])]
        /\ round[w] # 0 => recv[w][p].blocks = << >> /\ recv[w][p].producers = 0
        /\ UNCHANGED <<channels, sent_size, force, sending, to_self, sender,
                       recvAlive, net, sent, overflowed, got>>
    BY DEF FinishARound, Drained, QClosed, CurrentQueue, manager
  <1>b. ballots' = ballots \cup {[by |-> w, round |-> round[w],
                   goOn |-> sent_size[w] # 0 \/ force[w].continue,
                   stop |-> force[w].terminate]}
    BY DEF FinishARound
  <1>4. /\ Reopened(recv[w][p]).blocks = recv[w][p].blocks
        /\ Reopened(recv[w][p]).producers = fnum
    BY <1>2 DEF Reopened
  <1> HIDE DEF p
  <1>5. /\ recv'[w][p] = Reopened(recv[w][p])
        /\ \A k \in 0 .. 1 : k # p => recv'[w][k] = recv[w][k]
        /\ \A u \in Workers : u # w => recv'[u] = recv[u]
    BY <1>1, <1>3
  <1>6. /\ pc'[w] = "vote" /\ round'[w] = round[w] + 1
        /\ \A u \in Workers : u # w => pc'[u] = pc[u] /\ round'[u] = round[u]
    BY <1>3 DEF Types
  <1>7. QED
    BY <1>3, <1>b, <1>4, <1>5, <1>6 DEF p

(* SendBlock: the first block of the sending queue goes on its way. *)
Moved(w, d, b) ==
  /\ sender[w] = "run" /\ sending[w].blocks # << >>
  /\ Head(sending[w].blocks) = <<d, b>>
  /\ sending'[w].blocks = Tail(sending[w].blocks)
  /\ sending'[w].open = sending[w].open
  /\ \A u \in Workers : u # w => sending'[u] = sending[u]
  /\ \A u \in Workers : to_self'[u] = IF u = w /\ d = w THEN Append(to_self[u], b)
                                                        ELSE to_self[u]
  /\ \A v, e \in Workers : net'[v][e] =
       IF v = w /\ e = d /\ d # w THEN Append(net[v][e], [tag |-> Tag(w), block |-> b])
                                  ELSE net[v][e]
  /\ UNCHANGED <<pc, round, channels, sent_size, force, sender, recv,
                 recvAlive, ballots, sent, overflowed, got>>

LEMMA SendBlockFacts ==
  ASSUME Types, NEW w \in Workers, SendBlock(w)
  PROVE  \E d \in Workers, b \in Block : Moved(w, d, b)
  <1> DEFINE d == Head(sending[w].blocks)[1]
             b == Head(sending[w].blocks)[2]
             x == [tag |-> Tag(w), block |-> b]
  <1>0. /\ DOMAIN net = Workers /\ \A v \in Workers : DOMAIN net[v] = Workers
        /\ sending \in [Workers -> [blocks : Seq(Workers \X Block), open : BOOLEAN]]
        /\ to_self \in [Workers -> Seq(Block)]
    BY DEF Types
  <1>1. /\ sender[w] = "run" /\ sending[w].blocks # << >>
        /\ sending' = [sending EXCEPT ![w].blocks = Tail(sending[w].blocks)]
        /\ \/ /\ d = w /\ to_self' = [to_self EXCEPT ![w] = Append(to_self[w], b)] /\ net' = net
           \/ /\ d # w /\ to_self' = to_self
              /\ net' = [net EXCEPT ![w][d] = Append(net[w][d], x)]
        /\ UNCHANGED <<pc, round, channels, sent_size, force, sender, recv,
                       recvAlive, ballots, sent, overflowed, got>>
    BY DEF SendBlock
  <1>2. d \in Workers /\ b \in Block /\ Head(sending[w].blocks) = <<d, b>>
    <2>1. sending[w].blocks \in Seq(Workers \X Block)
      BY <1>0
    <2>2. Head(sending[w].blocks) \in Workers \X Block
      BY <1>1, <2>1, TailSet
    <2>3. QED
      BY <2>2
  <1>x. x = [tag |-> Tag(w), block |-> b]
    OBVIOUS
  <1> HIDE DEF d, b, x
  <1>3. /\ sending'[w].blocks = Tail(sending[w].blocks)
        /\ sending'[w].open = sending[w].open
        /\ \A u \in Workers : u # w => sending'[u] = sending[u]
    BY <1>0, <1>1
  <1>4. \A u \in Workers : to_self'[u] = IF u = w /\ d = w THEN Append(to_self[u], b)
                                                           ELSE to_self[u]
    BY <1>0, <1>1
  <1>5. \A v, e \in Workers : net'[v][e] =
                IF v = w /\ e = d /\ d # w THEN Append(net[v][e], x) ELSE net[v][e]
    <2>1. CASE d = w
      BY <1>1, <2>1
    <2>2. CASE d # w
      <3>1. net' = [net EXCEPT ![w][d] = Append(net[w][d], x)]
        BY <1>1, <2>2
      <3>2. QED
        BY <1>0, <1>2, <2>2, <3>1
    <2>3. QED
      BY <2>1, <2>2
  <1> USE <1>2
  <1> WITNESS d \in Workers, b \in Block
  <1>6. QED
    BY <1>1, <1>2, <1>3, <1>4, <1>5, <1>x DEF Moved

LEMMA SendEndsFacts ==
  ASSUME Types, NEW w \in Workers, SendEnds(w)
  PROVE  /\ sender[w] = "run" /\ sending[w].blocks = << >> /\ sending[w].open = FALSE
         /\ sender'[w] = "ended" /\ \A u \in Workers : u # w => sender'[u] = sender[u]
         /\ \A v, e \in Workers : net'[v][e] =
              IF v = w /\ e # w THEN Append(net[v][e], [tag |-> Tag(w), block |-> EndOfRound])
                                ELSE net[v][e]
         /\ UNCHANGED <<pc, round, channels, sent_size, force, sending, to_self, recv,
                        recvAlive, ballots, sent, overflowed, got>>
  <1> DEFINE x == [tag |-> Tag(w), block |-> EndOfRound]
  <1>1. /\ sender[w] = "run" /\ sending[w] = [blocks |-> << >>, open |-> FALSE]
        /\ sender' = [sender EXCEPT ![w] = "ended"]
        /\ net' = [net EXCEPT ![w] = [d \in Workers |->
                     IF d = w THEN net[w][d] ELSE Append(net[w][d], x)]]
        /\ UNCHANGED <<pc, round, channels, sent_size, force, sending, to_self, recv,
                       recvAlive, ballots, sent, overflowed, got>>
    BY DEF SendEnds, manager
  <1> HIDE DEF x
  <1>2. \A v, e \in Workers : net'[v][e] =
          IF v = w /\ e # w THEN Append(net[v][e], x) ELSE net[v][e]
    BY <1>1 DEF Types
  <1>3. sender'[w] = "ended" /\ \A u \in Workers : u # w => sender'[u] = sender[u]
    BY <1>1 DEF Types
  <1>4. sending[w].blocks = << >> /\ sending[w].open = FALSE
    BY <1>1
  <1>5. QED
    BY <1>1, <1>2, <1>3, <1>4 DEF x

LEMMA ReceiveFacts ==
  ASSUME Types, NEW w \in Workers, NEW v \in Workers, Receive(w, v)
  PROVE  LET x == Head(net[v][w])
             p == Parity(x.tag)
         IN  /\ v # w /\ net[v][w] \in Seq(Packet) /\ net[v][w] # << >>
             /\ x \in Packet /\ p \in 0 .. 1
             /\ x.block = EndOfRound => /\ recv'[w][p].blocks = recv[w][p].blocks
                                        /\ recv'[w][p].producers = recv[w][p].producers - 1
             /\ x.block # EndOfRound =>
                  /\ recv'[w][p].blocks = Append(recv[w][p].blocks, x.block)
                  /\ recv'[w][p].producers = recv[w][p].producers
             /\ \A k \in 0 .. 1 : k # p => recv'[w][k] = recv[w][k]
             /\ \A u \in Workers : u # w => recv'[u] = recv[u]
             /\ UNCHANGED <<pc, round, channels, sent_size, force, sending, to_self, sender,
                            recvAlive, ballots, sent, overflowed, got>>
  <1> DEFINE x == Head(net[v][w])
             p == Parity(x.tag)
             Q == [blocks : Seq(Block), producers : Int]
  <1>1. /\ v # w /\ net[v][w] # << >>
        /\ recv' = [recv EXCEPT ![w][p] = Received(recv[w][p], x.block)]
        /\ net' = [net EXCEPT ![v][w] = Tail(net[v][w])]
        /\ UNCHANGED <<pc, round, channels, sent_size, force, sending, to_self, sender,
                       recvAlive, ballots, sent, overflowed, got>>
    BY DEF Receive, manager
  <1>2. net[v][w] \in Seq(Packet)
    BY <1>1 DEF Types
  <1>3. x \in Packet
    BY <1>1, <1>2, TailSet
  <1>4. p \in 0 .. 1
    BY <1>3, Parities DEF Packet
  <1>5. recv \in [Workers -> [0 .. 1 -> Q]]
    BY DEF Types
  <1>6. recv[w][p] \in Q
    BY <1>4, <1>5
  <1> HIDE DEF x, p
  <1>7. /\ recv'[w][p] = Received(recv[w][p], x.block)
        /\ \A k \in 0 .. 1 : k # p => recv'[w][k] = recv[w][k]
        /\ \A u \in Workers : u # w => recv'[u] = recv[u]
    BY <1>1, <1>4, <1>5
  <1>8. /\ x.block = EndOfRound => /\ recv'[w][p].blocks = recv[w][p].blocks
                                   /\ recv'[w][p].producers = recv[w][p].producers - 1
        /\ x.block # EndOfRound =>
                  /\ recv'[w][p].blocks = Append(recv[w][p].blocks, x.block)
                  /\ recv'[w][p].producers = recv[w][p].producers
    BY <1>6, <1>7 DEF Received, QDec, QPut
  <1>9. QED
    BY <1>1, <1>2, <1>3, <1>4, <1>7, <1>8 DEF x, p

LEMMA ReceiveNet ==
  ASSUME Types, NEW w \in Workers, NEW v \in Workers, Receive(w, v)
  PROVE  /\ v # w /\ net[v][w] # << >>
         /\ \A u, e \in Workers : net'[u][e] = IF u = v /\ e = w THEN Tail(net[u][e])
                                                                ELSE net[u][e]
  <1>1. /\ v # w /\ net[v][w] # << >> /\ net' = [net EXCEPT ![v][w] = Tail(net[v][w])]
    BY DEF Receive
  <1>2. QED
    BY <1>1 DEF Types

(* The steps that end a query, and the vote, leave messages where they are. *)
Idles(w) == ToTerminate(w) \/ WaitSend(w) \/ StopRecvThread(w) \/ ReceiveStop(w)

LEMMA IdleFacts ==
  ASSUME Types, NEW w \in Workers, Idles(w)
  PROVE  /\ \/ pc' = pc
            \/ /\ pc[w] = "vote" /\ pc'[w] \in {"start", "finalize"}
               /\ Contributed(round[w] - 1) = Workers
               /\ pc'[w] = "finalize" => Ends(round[w] - 1)
            \/ pc[w] \in Finals /\ pc'[w] \in Finals
         /\ \A u \in Workers : u # w => pc'[u] = pc[u]
         /\ \A v, d \in Workers : v # d => net'[v][d] = net[v][d]
         /\ UNCHANGED <<round, channels, sent_size, force, sending, to_self, sender, recv,
                        ballots, sent, overflowed, got>>
  <1>1. CASE ToTerminate(w)
    <2>1. /\ pc[w] = "vote" /\ Contributed(round[w] - 1) = Workers
          /\ pc' = [pc EXCEPT ![w] = IF Ends(round[w] - 1) THEN "finalize" ELSE "start"]
          /\ UNCHANGED <<round, channels, sent_size, force, sending, to_self, sender, recv,
                         net, ballots, sent, overflowed, got>>
      BY <1>1 DEF ToTerminate, manager
    <2>2. DOMAIN pc = Workers
      BY DEF Types
    <2>3. QED
      BY <2>1, <2>2
  <1>2. CASE WaitSend(w)
    BY <1>2 DEF WaitSend, manager, Types, Finals
  <1>3. CASE StopRecvThread(w)
    BY <1>3 DEF StopRecvThread, manager, Types, Finals
  <1>4. CASE ReceiveStop(w)
    BY <1>4 DEF ReceiveStop, manager, Types
  <1>5. QED
    BY <1>1, <1>2, <1>3, <1>4 DEF Idles

(* The kinds of steps of the whole system. *)
LEMMA Steps ==
  ASSUME Next
  PROVE  \E w \in Workers :
           \/ StartARound(w) \/ Sends(w) \/ Takes(w) \/ FinishMsgFilling(w)
           \/ FinishARound(w) \/ Idles(w) \/ SendBlock(w) \/ SendEnds(w)
           \/ \E v \in Workers : Receive(w, v)
  BY DEF Next, Takes, Idles

-----------------------------------------------------------------------------
(* The phases of the workers *)

PhaseInv == Close /\ VotesSound /\ \A w \in Workers : MainSound(w)

LEMMA PhaseElsewhere ==
  ASSUME Types, PhaseInv, pc' = pc, round' = round, ballots' = ballots, sender' = sender,
         \A u \in Workers : /\ sending'[u].open = sending[u].open
                            /\ sender[u] # "run" => sending'[u].blocks = sending[u].blocks
  PROVE  PhaseInv'
  BY DEF PhaseInv, Close, VotesSound, MainSound

LEMMA PhaseStep ==
  ASSUME Types, PhaseInv, [Next]_vars
  PROVE  PhaseInv'
  <1>0. /\ round \in [Workers -> Nat] /\ Types
        /\ \A b \in ballots : b.by \in Workers /\ b.round \in Nat /\ b.round < round[b.by]
        /\ \A w \in Workers : pc[w] \in {"start", "eval", "drain", "vote"} \cup Finals
    BY DEF Types, PhaseInv, VotesSound
  <1>1. ASSUME NEW w \in Workers, StartARound(w) PROVE PhaseInv'
    <2>1. /\ pc[w] = "start" /\ pc'[w] = "eval" /\ sender'[w] = "run"
          /\ sending'[w].open = TRUE
          /\ \A u \in Workers : u # w =>
                  pc'[u] = pc[u] /\ sender'[u] = sender[u] /\ sending'[u] = sending[u]
          /\ round' = round /\ ballots' = ballots
      BY <1>1, StartFacts
    <2>2. Close' /\ VotesSound'
      BY <1>0, <2>1 DEF PhaseInv, Close, VotesSound
    <2>3. ASSUME NEW u \in Workers PROVE MainSound(u)'
      <3>1. CASE u = w
        BY <2>1, <3>1 DEF PhaseInv, MainSound
      <3>2. CASE u # w
        BY <2>1, <3>2 DEF PhaseInv, MainSound
      <3>3. QED
        BY <3>1, <3>2
    <2>4. QED
      BY <2>2, <2>3 DEF PhaseInv
  <1>2. ASSUME NEW w \in Workers, Sends(w) PROVE PhaseInv'
    <2>1. PICK c \in Channels, d \in Workers, m \in Mess :
             /\ pc[w] = "eval" /\ sending'[w].open = sending[w].open
             /\ \A u \in Workers : u # w => sending'[u] = sending[u]
             /\ pc' = pc /\ round' = round /\ sender' = sender /\ ballots' = ballots
      BY <1>2, PostFacts DEF Posted
    <2>2. sender[w] = "run"
      BY <2>1 DEF PhaseInv, MainSound
    <2>3. QED
      BY <2>1, <2>2, PhaseElsewhere
  <1>3. ASSUME NEW w \in Workers, Takes(w) PROVE PhaseInv'
    <2>1. UNCHANGED <<pc, round, sending, sender, ballots>>
      BY <1>3, TakeFacts
    <2>2. QED
      BY <2>1, PhaseElsewhere
  <1>4. ASSUME NEW w \in Workers, FinishMsgFilling(w) PROVE PhaseInv'
    <2>1. /\ pc[w] = "eval" /\ pc'[w] = "drain" /\ sending'[w].open = FALSE
          /\ \A u \in Workers : u # w => pc'[u] = pc[u] /\ sending'[u] = sending[u]
          /\ UNCHANGED <<round, sender, ballots>>
      BY <1>4, FillFacts
    <2>2. Close' /\ VotesSound'
      BY <1>0, <2>1 DEF PhaseInv, Close, VotesSound
    <2>3. ASSUME NEW u \in Workers PROVE MainSound(u)'
      <3>1. CASE u = w
        BY <2>1, <3>1 DEF PhaseInv, MainSound
      <3>2. CASE u # w
        BY <2>1, <3>2 DEF PhaseInv, MainSound
      <3>3. QED
        BY <3>1, <3>2
    <2>4. QED
      BY <2>2, <2>3 DEF PhaseInv
  <1>5. ASSUME NEW w \in Workers, FinishARound(w) PROVE PhaseInv'
    <2> DEFINE b == [by |-> w, round |-> round[w],
                     goOn |-> sent_size[w] # 0 \/ force[w].continue,
                     stop |-> force[w].terminate]
    <2>1. /\ pc[w] = "drain" /\ pc'[w] = "vote" /\ round'[w] = round[w] + 1
          /\ \A u \in Workers : u # w => pc'[u] = pc[u] /\ round'[u] = round[u]
          /\ UNCHANGED <<sending, sender>>
      BY <1>5, FinishFacts
    <2>2. ballots' = ballots \cup {b} /\ b.by = w /\ b.round = round[w]
      BY <1>5, FinishFacts
    <2> HIDE DEF b
    <2>3. Close'
      BY <1>0, <2>1 DEF PhaseInv, Close
    <2>4. VotesSound'
      <3>1. ASSUME NEW a \in ballots' PROVE a.round < round'[a.by]
        <4>1. CASE a \in ballots
          <5>1. a.by \in Workers /\ a.round \in Nat /\ a.round < round[a.by]
            BY <1>0, <4>1
          <5>2. round'[a.by] = round[a.by] \/ round'[a.by] = round[a.by] + 1
            BY <2>1, <5>1
          <5>3. round[a.by] \in Nat
            BY <1>0, <5>1
          <5>4. QED
            BY <5>1, <5>2, <5>3
        <4>2. CASE a = b
          BY <1>0, <2>1, <2>2, <4>2
        <4>3. QED
          BY <2>2, <4>1, <4>2
      <3>2. QED
        BY <3>1 DEF VotesSound
    <2>5. ASSUME NEW u \in Workers PROVE MainSound(u)'
      <3>1. CASE u = w
        BY <1>0, <2>1, <3>1 DEF PhaseInv, MainSound
      <3>2. CASE u # w
        BY <2>1, <3>2 DEF PhaseInv, MainSound
      <3>3. QED
        BY <3>1, <3>2
    <2>6. QED
      BY <2>3, <2>4, <2>5 DEF PhaseInv
  <1>6. ASSUME NEW w \in Workers, Idles(w) PROVE PhaseInv'
    <2>1. /\ \/ pc' = pc
             \/ /\ pc[w] = "vote" /\ pc'[w] \in {"start", "finalize"}
                /\ Contributed(round[w] - 1) = Workers
             \/ pc[w] \in Finals /\ pc'[w] \in Finals
          /\ \A u \in Workers : u # w => pc'[u] = pc[u]
          /\ UNCHANGED <<round, sending, sender, ballots>>
      BY <1>6, IdleFacts
    <2>2. CASE pc' = pc
      BY <2>1, <2>2, PhaseElsewhere
    <2>3. ASSUME pc' # pc
          PROVE  /\ pc[w] \in {"vote"} \cup Finals
                 /\ pc'[w] \in {"start"} \cup Finals /\ pc'[w] = "start" => pc[w] = "vote"
      BY <2>1, <2>3 DEF Finals
    <2>4. ASSUME pc' # pc, NEW v \in Workers
          PROVE  round[v] >= round[w]
      <3>1. CASE pc[w] = "vote"
        <4>1. Contributed(round[w] - 1) = Workers
          BY <2>1, <2>4, <3>1 DEF Finals
        <4>2. PICK b \in ballots : b.by = v /\ b.round = round[w] - 1
          BY <4>1 DEF Contributed
        <4>3. round[w] - 1 < round[v] /\ round[v] \in Nat /\ round[w] \in Nat
          BY <1>0, <4>2
        <4>4. QED
          BY <4>3
      <3>2. CASE pc[w] \in Finals
        BY <3>2 DEF PhaseInv, Close, Finals
      <3>3. QED
        BY <2>3, <2>4, <3>1, <3>2
    <2>5. ASSUME pc' # pc PROVE Close' /\ VotesSound'
      BY <1>0, <2>1, <2>3, <2>4, <2>5 DEF PhaseInv, Close, VotesSound, Finals
    <2>6. ASSUME pc' # pc, NEW u \in Workers PROVE MainSound(u)'
      <3>1. CASE u = w
        BY <1>0, <2>1, <2>3, <2>6, <3>1 DEF PhaseInv, MainSound, Finals
      <3>2. CASE u # w
        BY <2>1, <3>2 DEF PhaseInv, MainSound
      <3>3. QED
        BY <3>1, <3>2
    <2>7. QED
      BY <2>2, <2>5, <2>6 DEF PhaseInv
  <1>7. ASSUME NEW w \in Workers, SendBlock(w) PROVE PhaseInv'
    <2>1. PICK d \in Workers, b \in Block :
             /\ sender[w] = "run" /\ sending'[w].open = sending[w].open
             /\ \A u \in Workers : u # w => sending'[u] = sending[u]
             /\ UNCHANGED <<pc, round, sender, ballots>>
      BY <1>7, SendBlockFacts DEF Moved
    <2>2. QED
      BY <2>1, PhaseElsewhere
  <1>8. ASSUME NEW w \in Workers, SendEnds(w) PROVE PhaseInv'
    <2>1. /\ sender[w] = "run" /\ sending[w].blocks = << >> /\ sending[w].open = FALSE
          /\ sender'[w] = "ended" /\ \A u \in Workers : u # w => sender'[u] = sender[u]
          /\ UNCHANGED <<pc, round, sending, ballots>>
      BY <1>8, SendEndsFacts
    <2>2. Close' /\ VotesSound'
      BY <2>1 DEF PhaseInv, Close, VotesSound
    <2>3. ASSUME NEW u \in Workers PROVE MainSound(u)'
      <3>1. CASE u = w
        BY <2>1, <3>1 DEF PhaseInv, MainSound
      <3>2. CASE u # w
        BY <2>1, <3>2 DEF PhaseInv, MainSound
      <3>3. QED
        BY <3>1, <3>2
    <2>4. QED
      BY <2>2, <2>3 DEF PhaseInv
  <1>9. ASSUME NEW w \in Workers, NEW v \in Workers, Receive(w, v) PROVE PhaseInv'
    <2>1. UNCHANGED <<pc, round, sending, sender, ballots>>
      BY <1>9, ReceiveFacts
    <2>2. QED
      BY <2>1, PhaseElsewhere
  <1>10. CASE UNCHANGED vars
    <2>1. UNCHANGED <<pc, round, sending, sender, ballots>>
      BY <1>10 DEF vars, manager
    <2>2. QED
      BY <2>1, PhaseElsewhere
  <1>11. QED
    BY <1>1, <1>2, <1>3, <1>4, <1>5, <1>6, <1>7, <1>8, <1>9, <1>10, Steps

(* No worker is more than a round ahead; a tag is that of a round to come.  *)
LEMMA Tags ==
  ASSUME Types, PhaseInv, NEW v \in Workers, NEW d \in Workers
  PROVE  /\ Tag(v) \in Nat /\ Tag(d) \in Nat /\ round[d] \in Nat
         /\ round[d] <= Tag(d) /\ Tag(v) <= round[d] + 1
         /\ pc[v] = "eval" => Tag(v) = round[v] + 1
         /\ sender[v] = "run" => Tag(v) > 0
  <1>1. /\ round[v] \in Nat /\ round[d] \in Nat
        /\ round[d] >= IF pc[v] = "vote" THEN round[v] - 1 ELSE round[v]
        /\ MainSound(v)
    BY DEF Types, PhaseInv, Close
  <1>2. QED
    BY <1>1 DEF Tag, MainSound

(* What a step does to the phase of a worker. *)
LEMMA Moves ==
  ASSUME Types, PhaseInv, [Next]_vars, NEW v \in Workers
  PROVE  \/ StartARound(v) \/ FinishARound(v) \/ SendEnds(v)
         \/ /\ round'[v] = round[v] /\ sender'[v] = sender[v]
            /\ \/ pc'[v] = pc[v]
               \/ pc[v] = "eval" /\ pc'[v] = "drain"
               \/ pc[v] \in {"vote"} \cup Finals /\ pc'[v] \in {"start"} \cup Finals
  <1>1. ASSUME NEW w \in Workers, StartARound(w) \/ FinishARound(w) \/ SendEnds(w), w # v
        PROVE  round'[v] = round[v] /\ sender'[v] = sender[v] /\ pc'[v] = pc[v]
    BY <1>1, StartFacts, FinishFacts, SendEndsFacts
  <1>2. ASSUME NEW w \in Workers, Sends(w) PROVE UNCHANGED <<pc, round, sender>>
    BY <1>2, PostFacts DEF Posted
  <1>3. ASSUME NEW w \in Workers, Takes(w) PROVE UNCHANGED <<pc, round, sender>>
    BY <1>3, TakeFacts
  <1>4. ASSUME NEW w \in Workers, FinishMsgFilling(w)
        PROVE  /\ round' = round /\ sender' = sender
               /\ pc'[v] = pc[v] \/ (pc[v] = "eval" /\ pc'[v] = "drain")
    BY <1>4, FillFacts
  <1>5. ASSUME NEW w \in Workers, Idles(w)
        PROVE  /\ round' = round /\ sender' = sender
               /\ \/ pc'[v] = pc[v]
                  \/ pc[v] \in {"vote"} \cup Finals /\ pc'[v] \in {"start"} \cup Finals
    BY <1>5, IdleFacts DEF Finals
  <1>6. ASSUME NEW w \in Workers, SendBlock(w) PROVE UNCHANGED <<pc, round, sender>>
    BY <1>6, SendBlockFacts DEF Moved
  <1>7. ASSUME NEW w \in Workers, NEW u \in Workers, Receive(w, u) PROVE UNCHANGED <<pc, round, sender>>
    BY <1>7, ReceiveFacts
  <1>8. CASE UNCHANGED vars
    BY <1>8 DEF vars
  <1>9. CASE Next
    <2>1. PICK w \in Workers :
           \/ StartARound(w) \/ Sends(w) \/ Takes(w) \/ FinishMsgFilling(w)
           \/ FinishARound(w) \/ Idles(w) \/ SendBlock(w) \/ SendEnds(w)
           \/ \E u \in Workers : Receive(w, u)
      BY <1>9, Steps
    <2>2. QED
      BY <2>1, <1>1, <1>2, <1>3, <1>4, <1>5, <1>6, <1>7
  <1>10. QED
    BY <1>8, <1>9

(* A tag grows only at the start of a round, which is when the rounds       *)
(* before it have ended: so only SendEnds ends a round.                     *)
LEMMA TagStep ==
  ASSUME Types, PhaseInv, [Next]_vars, NEW v \in Workers
  PROVE  /\ StartARound(v) => Tag(v)' = Tag(v) + 1
         /\ ~StartARound(v) => Tag(v)' = Tag(v)
         /\ \A k \in Nat : Ended(v, k)' <=> Ended(v, k) \/ (SendEnds(v) /\ k = Tag(v))
  <1>0. MainSound(v) /\ round[v] \in Nat /\ Tag(v) \in Nat
    BY Tags DEF PhaseInv, Types
  <1>1. ASSUME StartARound(v)
        PROVE  Tag(v)' = Tag(v) + 1 /\ \A k \in Nat : Ended(v, k)' <=> Ended(v, k)
    <2>1. /\ pc[v] = "start" /\ pc'[v] = "eval" /\ round'[v] = round[v] /\ sender'[v] = "run"
          /\ round[v] # 0 => sender[v] = "ended"
      BY <1>1, StartFacts
    <2>2. Tag(v)' = round[v] + 1 /\ Tag(v) = round[v]
      BY <2>1 DEF Tag
    <2>3. QED
      BY <1>0, <2>1, <2>2 DEF Ended
  <1>2. ASSUME FinishARound(v)
        PROVE  Tag(v)' = Tag(v) /\ \A k \in Nat : Ended(v, k)' <=> Ended(v, k)
    <2>1. /\ pc[v] = "drain" /\ pc'[v] = "vote" /\ round'[v] = round[v] + 1 /\ sender'[v] = sender[v]
      BY <1>2, FinishFacts
    <2>2. Tag(v)' = Tag(v)
      BY <2>1 DEF Tag
    <2>3. QED
      BY <2>1, <2>2 DEF Ended
  <1>3. ASSUME SendEnds(v)
        PROVE  Tag(v)' = Tag(v) /\ \A k \in Nat : Ended(v, k)' <=> Ended(v, k) \/ k = Tag(v)
    <2>1. /\ pc'[v] = pc[v] /\ round'[v] = round[v] /\ sender[v] = "run" /\ sender'[v] = "ended"
      BY <1>3, SendEndsFacts
    <2>2. Tag(v)' = Tag(v) /\ Tag(v) > 0
      BY <2>1, Tags DEF Tag
    <2>3. QED
      BY <1>0, <2>1, <2>2 DEF Ended
  <1>4. ASSUME /\ round'[v] = round[v] /\ sender'[v] = sender[v]
               /\ \/ pc'[v] = pc[v]
                  \/ pc[v] = "eval" /\ pc'[v] = "drain"
                  \/ pc[v] \in {"vote"} \cup Finals /\ pc'[v] \in {"start"} \cup Finals
        PROVE  Tag(v)' = Tag(v) /\ \A k \in Nat : Ended(v, k)' <=> Ended(v, k)
    <2>1. Tag(v)' = Tag(v)
      BY <1>4 DEF Tag, Finals
    <2>2. QED
      BY <1>4, <2>1 DEF Ended
  <1>5. StartARound(v) => ~FinishARound(v) /\ ~SendEnds(v)
    BY StartFacts, FinishFacts, SendEndsFacts
  <1>6. FinishARound(v) => ~SendEnds(v)
    BY FinishFacts, SendEndsFacts
  <1>7. CASE SendEnds(v)
    BY <1>3, <1>5, <1>7
  <1>8. CASE StartARound(v)
    BY <1>1, <1>5, <1>8
  <1>9. CASE ~SendEnds(v) /\ ~StartARound(v)
    <2>1. Tag(v)' = Tag(v) /\ \A k \in Nat : Ended(v, k)' <=> Ended(v, k)
      BY <1>2, <1>4, <1>9, Moves
    <2>2. QED
      BY <1>9, <2>1
  <1>10. QED
    BY <1>7, <1>8, <1>9

-----------------------------------------------------------------------------
(* What a worker is about to send *)

LEMMA SentGrows ==
  ASSUME Types, [Next]_vars
  PROVE  sent \subseteq sent'
  <1>1. ASSUME NEW w \in Workers, Sends(w) PROVE sent \subseteq sent'
    BY <1>1, PostFacts DEF Posted
  <1>2. ASSUME NEW w \in Workers, ~Sends(w),
               \/ StartARound(w) \/ Takes(w) \/ FinishMsgFilling(w)
               \/ FinishARound(w) \/ Idles(w) \/ SendBlock(w) \/ SendEnds(w)
               \/ \E v \in Workers : Receive(w, v)
        PROVE  sent' = sent
    BY <1>2, StartFacts, TakeFacts, FillFacts, FinishFacts, IdleFacts, SendBlockFacts,
       SendEndsFacts, ReceiveFacts DEF Moved
  <1>3. CASE UNCHANGED vars
    BY <1>3 DEF vars
  <1>4. QED
    BY <1>1, <1>2, <1>3, Steps

LEMMA SendElsewhere ==
  ASSUME NEW w \in Workers, SendSound(w), sent \subseteq sent', Tag(w)' = Tag(w),
         channels'[w] = channels[w], sending'[w].blocks = sending[w].blocks,
         to_self'[w] = to_self[w], pc'[w] # "eval" => pc[w] # "eval"
  PROVE  SendSound(w)'
  <1>1. \A d \in Workers, k \in {Tag(w)} : Ours(w, d, k) \subseteq Ours(w, d, k)'
    BY DEF Ours
  <1>2. QED
    BY <1>1 DEF SendSound, Stuff, Ours

LEMMA SendStart ==
  ASSUME Types, PhaseInv, NEW w \in Workers, SendSound(w), StartARound(w), Tag(w)' = Tag(w) + 1
  PROVE  SendSound(w)'
  <1>1. /\ pc[w] = "start" /\ pc'[w] = "eval" /\ sending'[w].blocks = sending[w].blocks
        /\ round[w] = 0 => to_self' = to_self
        /\ round[w] # 0 => sender[w] = "ended" /\ to_self'[w] = << >>
        /\ channels' = channels /\ MainSound(w)
    BY StartFacts DEF PhaseInv
  <1>2. sending[w].blocks = << >>
    BY <1>1 DEF MainSound
  <1>3. \A c \in Channels, d \in Workers : channels'[w][c][d] = << >>
    BY <1>1 DEF SendSound
  <1>4. Stuff(to_self'[w]) = {}
    <2>1. CASE round[w] = 0
      <3>1. Tag(w) = 0
        BY <1>1, <2>1 DEF Tag
      <3>2. Ours(w, w, 0) = {}
        <4>1. \A m \in sent : m.round \in Nat
          BY DEF Types, Mess
        <4>2. QED
          BY <4>1 DEF Ours
      <3>3. QED
        BY <1>1, <2>1, <3>1, <3>2 DEF SendSound
    <2>2. CASE round[w] # 0
      BY <1>1, <2>2, EmptySet DEF Stuff
    <2>3. QED
      BY <2>1, <2>2
  <1>5. QED
    BY <1>1, <1>2, <1>3, <1>4, EmptySet DEF SendSound, Stuff

LEMMA SendPost ==
  ASSUME Types, PhaseInv, NEW w \in Workers, SendSound(w), Sends(w), Tag(w)' = Tag(w)
  PROVE  SendSound(w)'
  <1>p. PICK c \in Channels, d \in Workers, m \in Mess : Posted(w, c, d, m)
    BY PostFacts
  <1>1. LET b == Append(channels[w][c][d], m)
        IN  /\ pc[w] = "eval" /\ m.from = w /\ m.to = d /\ m.round = round[w]
            /\ sent' = sent \cup {m} /\ b \in Block /\ b # << >>
            /\ ToSet(b) = ToSet(channels[w][c][d]) \cup {m}
            /\ \/ /\ channels'[w][c][d] = << >>
                  /\ sending'[w].blocks = Append(sending[w].blocks, <<d, b>>)
               \/ channels'[w][c][d] = b /\ sending'[w].blocks = sending[w].blocks
            /\ \A a \in Channels, e \in Workers : a # c \/ e # d =>
                 channels'[w][a][e] = channels[w][a][e]
            /\ UNCHANGED <<pc, to_self>>
    BY <1>p DEF Posted
  <1> DEFINE b == Append(channels[w][c][d], m)
             k == Tag(w)
  <1>2. k = m.round + 1 /\ k \in Nat
    BY <1>1, Tags
  <1>3. \A e \in Workers : Ours(w, e, k) \subseteq Ours(w, e, k)'
    BY <1>1 DEF Ours
  <1>4. m \in Ours(w, d, k)'
    BY <1>1, <1>2 DEF Ours
  <1>5. ToSet(b) \subseteq Ours(w, d, k)'
    BY <1>1, <1>3, <1>4 DEF SendSound
  <1>6. /\ b \in Block /\ b # << >>
        /\ \/ /\ channels'[w][c][d] = << >>
              /\ sending'[w].blocks = Append(sending[w].blocks, <<d, b>>)
           \/ /\ channels'[w][c][d] = b /\ sending'[w].blocks = sending[w].blocks
    BY <1>1
  <1> HIDE DEF b, k
  <1>7. \A a \in Channels, e \in Workers : ToSet(channels'[w][a][e]) \subseteq Ours(w, e, k)'
    <2>1. SUFFICES ASSUME NEW a \in Channels, NEW e \in Workers
                   PROVE  ToSet(channels'[w][a][e]) \subseteq Ours(w, e, k)'
      OBVIOUS
    <2>2. CASE a = c /\ e = d
      BY <1>5, <1>6, <2>2, EmptySet
    <2>3. CASE a # c \/ e # d
      <3>1. channels'[w][a][e] = channels[w][a][e]
        BY <1>1, <2>3
      <3>2. ToSet(channels[w][a][e]) \subseteq Ours(w, e, k)
        BY DEF SendSound, k
      <3>3. QED
        BY <1>3, <3>1, <3>2
    <2>4. QED
      BY <2>2, <2>3
  <1>8. \A x \in ToSet(sending'[w].blocks) : x[2] # << >> /\ ToSet(x[2]) \subseteq Ours(w, x[1], k)'
    <2>1. sending[w].blocks \in Seq(Workers \X Block)
      BY DEF Types
    <2>2. <<d, b>> \in Workers \X Block
      BY <1>6
    <2>3. ToSet(Append(sending[w].blocks, <<d, b>>)) = ToSet(sending[w].blocks) \cup {<<d, b>>}
      BY <2>1, <2>2, AppendSet
    <2>4. ASSUME NEW x \in ToSet(sending[w].blocks)
          PROVE  x[2] # << >> /\ ToSet(x[2]) \subseteq Ours(w, x[1], k)'
      <3>1. x[2] # << >> /\ ToSet(x[2]) \subseteq Ours(w, x[1], k)
        BY DEF SendSound, k
      <3>2. x[1] \in Workers
        BY <2>1, InSet
      <3>3. QED
        BY <1>3, <3>1, <3>2
    <2>5. <<d, b>>[1] = d /\ <<d, b>>[2] = b
      OBVIOUS
    <2>6. ASSUME NEW x \in ToSet(sending'[w].blocks)
          PROVE  x \in ToSet(sending[w].blocks) \/ x = <<d, b>>
      BY <1>6, <2>3
    <2>7. QED
      BY <1>5, <1>6, <2>4, <2>5, <2>6
  <1>9. Stuff(to_self'[w]) \subseteq Ours(w, w, k)'
    BY <1>1, <1>3 DEF SendSound, k
  <1>10. k' = k /\ pc'[w] = "eval" /\ k' = Tag(w)'
    BY <1>1 DEF k
  <1>11. QED
    BY <1>7, <1>8, <1>9, <1>10 DEF SendSound, Ours

LEMMA SendFill ==
  ASSUME Types, PhaseInv, NEW w \in Workers, SendSound(w), FinishMsgFilling(w), Tag(w)' = Tag(w)
  PROVE  SendSound(w)'
  <1>1. /\ sending'[w].blocks = sending[w].blocks \o LeftBlocks(w)
        /\ \A c \in Channels, d \in Workers : channels'[w][c][d] = << >>
        /\ to_self' = to_self /\ sent' = sent
    BY FillFacts
  <1>2. /\ LeftBlocks(w) \in Seq(Workers \X Block) /\ sending[w].blocks \in Seq(Workers \X Block)
        /\ ToSet(LeftBlocks(w)) = {<<cd[2], channels[w][cd[1]][cd[2]]>> : cd \in Filled(w)}
    BY LeftBlocksFacts DEF Types
  <1>3. ToSet(sending'[w].blocks) = ToSet(sending[w].blocks) \cup ToSet(LeftBlocks(w))
    BY <1>1, <1>2, ConcatSet
  <1>4. ASSUME NEW x \in ToSet(LeftBlocks(w))
        PROVE  x[2] # << >> /\ ToSet(x[2]) \subseteq Ours(w, x[1], Tag(w))
    <2>1. PICK cd \in Filled(w) : x = <<cd[2], channels[w][cd[1]][cd[2]]>>
      BY <1>2
    <2>2. cd[1] \in Channels /\ cd[2] \in Workers /\ channels[w][cd[1]][cd[2]] # << >>
      BY DEF Filled
    <2>3. ToSet(channels[w][cd[1]][cd[2]]) \subseteq Ours(w, cd[2], Tag(w))
      BY <2>2 DEF SendSound
    <2>4. QED
      BY <2>1, <2>2, <2>3
  <1>5. \A x \in ToSet(sending'[w].blocks) : x[2] # << >> /\ ToSet(x[2]) \subseteq Ours(w, x[1], Tag(w))
    BY <1>3, <1>4 DEF SendSound
  <1>6. \A d, k : Ours(w, d, k)' = Ours(w, d, k)
    BY <1>1 DEF Ours
  <1>7. QED
    BY <1>1, <1>5, <1>6, EmptySet DEF SendSound, Ours

LEMMA SendOut ==
  ASSUME Types, PhaseInv, NEW w \in Workers, SendSound(w), SendBlock(w), Tag(w)' = Tag(w)
  PROVE  SendSound(w)'
  <1>p. PICK d \in Workers, b \in Block : Moved(w, d, b)
    BY SendBlockFacts
  <1>1. /\ sender[w] = "run" /\ sending[w].blocks # << >>
        /\ Head(sending[w].blocks) = <<d, b>>
        /\ sending'[w].blocks = Tail(sending[w].blocks)
        /\ to_self'[w] = IF d = w THEN Append(to_self[w], b) ELSE to_self[w]
        /\ UNCHANGED <<pc, channels, sent>>
    BY <1>p DEF Moved
  <1>2. sending[w].blocks \in Seq(Workers \X Block) /\ to_self[w] \in Seq(Block)
    BY DEF Types
  <1>3. ToSet(sending[w].blocks) = ToSet(sending'[w].blocks) \cup {<<d, b>>}
    BY <1>1, <1>2, TailSet
  <1>4. ToSet(b) \subseteq Ours(w, d, Tag(w))
    <2>1. <<d, b>> \in ToSet(sending[w].blocks) /\ <<d, b>>[1] = d /\ <<d, b>>[2] = b
      BY <1>3
    <2>2. QED
      BY <2>1 DEF SendSound
  <1>5. Stuff(to_self'[w]) \subseteq Ours(w, w, Tag(w))
    <2>1. Stuff(Append(to_self[w], b)) = Stuff(to_self[w]) \cup ToSet(b)
      BY <1>2, StuffFacts
    <2>2. QED
      BY <1>1, <1>4, <2>1 DEF SendSound
  <1>6. \A x \in ToSet(sending'[w].blocks) : x[2] # << >> /\ ToSet(x[2]) \subseteq Ours(w, x[1], Tag(w))
    BY <1>3 DEF SendSound
  <1>7. \A e, k : Ours(w, e, k)' = Ours(w, e, k)
    BY <1>1 DEF Ours
  <1>8. QED
    BY <1>1, <1>5, <1>6, <1>7 DEF SendSound, Ours

LEMMA SendStep ==
  ASSUME Types, PhaseInv, \A w \in Workers : SendSound(w), [Next]_vars
  PROVE  \A w \in Workers : SendSound(w)'
  <1> SUFFICES ASSUME NEW u \in Workers PROVE SendSound(u)'
    OBVIOUS
  <1>0. sent \subseteq sent'
    BY SentGrows
  <1>1. StartARound(u) => SendSound(u)'
    BY SendStart, TagStep
  <1>2. CASE StartARound(u)
    BY <1>1, <1>2
  <1>3. CASE ~StartARound(u)
    <2>1. Tag(u)' = Tag(u)
      BY <1>3, TagStep
    <2>2. CASE Sends(u) \/ FinishMsgFilling(u) \/ SendBlock(u)
      BY <2>1, <2>2, SendPost, SendFill, SendOut
    <2>3. ASSUME NEW w \in Workers, w # u, StartARound(w)
          PROVE  SendSound(u)'
      <3>1. /\ channels' = channels /\ sending'[u] = sending[u] /\ to_self'[u] = to_self[u]
            /\ pc'[u] = pc[u]
        BY <2>3, StartFacts
      <3>2. QED
        BY <1>0, <2>1, <3>1, SendElsewhere
    <2>4. ASSUME NEW w \in Workers, w # u, Sends(w) PROVE SendSound(u)'
      <3>1. /\ channels'[u] = channels[u] /\ sending'[u] = sending[u] /\ to_self' = to_self
            /\ pc' = pc
        BY <2>4, PostFacts DEF Posted
      <3>2. QED
        BY <1>0, <2>1, <3>1, SendElsewhere
    <2>5. ASSUME NEW w \in Workers, Takes(w) PROVE SendSound(u)'
      <3>1. UNCHANGED <<channels, sending, to_self, pc>>
        BY <2>5, TakeFacts
      <3>2. QED
        BY <1>0, <2>1, <3>1, SendElsewhere
    <2>6. ASSUME NEW w \in Workers, w # u, FinishMsgFilling(w) PROVE SendSound(u)'
      <3>1. /\ channels'[u] = channels[u] /\ sending'[u] = sending[u] /\ to_self' = to_self
            /\ pc'[u] = pc[u]
        BY <2>6, FillFacts
      <3>2. QED
        BY <1>0, <2>1, <3>1, SendElsewhere
    <2>7. ASSUME NEW w \in Workers, FinishARound(w) PROVE SendSound(u)'
      <3>1. /\ UNCHANGED <<channels, sending, to_self>>
            /\ pc'[u] = pc[u] \/ pc[u] = "drain"
        BY <2>7, FinishFacts
      <3>2. QED
        BY <1>0, <2>1, <3>1, SendElsewhere
    <2>8. ASSUME NEW w \in Workers, Idles(w) PROVE SendSound(u)'
      <3>1. /\ UNCHANGED <<channels, sending, to_self>>
            /\ pc'[u] = pc[u] \/ pc[u] \in {"vote"} \cup Finals
        BY <2>8, IdleFacts
      <3>2. QED
        BY <1>0, <2>1, <3>1, SendElsewhere DEF Finals
    <2>9. ASSUME NEW w \in Workers, w # u, SendBlock(w) PROVE SendSound(u)'
      <3>1. /\ UNCHANGED <<channels, pc>> /\ sending'[u] = sending[u] /\ to_self'[u] = to_self[u]
        BY <2>9, SendBlockFacts DEF Moved
      <3>2. QED
        BY <1>0, <2>1, <3>1, SendElsewhere
    <2>10. ASSUME NEW w \in Workers, SendEnds(w) PROVE SendSound(u)'
      <3>1. UNCHANGED <<channels, sending, to_self, pc>>
        BY <2>10, SendEndsFacts
      <3>2. QED
        BY <1>0, <2>1, <3>1, SendElsewhere
    <2>11. ASSUME NEW w \in Workers, NEW v \in Workers, Receive(w, v) PROVE SendSound(u)'
      <3>1. UNCHANGED <<channels, sending, to_self, pc>>
        BY <2>11, ReceiveFacts
      <3>2. QED
        BY <1>0, <2>1, <3>1, SendElsewhere
    <2>12. CASE UNCHANGED vars
      <3>1. UNCHANGED <<channels, sending, to_self, pc>>
        BY <2>12 DEF vars, manager
      <3>2. QED
        BY <1>0, <2>1, <3>1, SendElsewhere
    <2>13. QED
      BY <1>3, <2>2, <2>3, <2>4, <2>5, <2>6, <2>7, <2>8, <2>9, <2>10, <2>11, <2>12, Steps
  <1>4. QED
    BY <1>2, <1>3

-----------------------------------------------------------------------------
(* What is between two workers *)

(* When a worker finishes a round, all have sent it all there is for it. *)
LEMMA AllDelivered ==
  ASSUME Types, NEW d \in Workers, FinishARound(d), QueueSound(d, round[d]), round[d] # 0
  PROVE  \A v \in Workers : Delivered(v, d, round[d])
  <1>1. recv[d][Parity(round[d])].producers = 0
    BY FinishFacts
  <1>2. Cardinality(Pending(d, round[d])) = 0
    BY <1>1 DEF QueueSound
  <1>3. Pending(d, round[d]) \in SUBSET Workers
    BY DEF Pending
  <1>4. IsFiniteSet(Pending(d, round[d]))
    BY <1>3, MessageAssumption, FS_Subset
  <1>5. Pending(d, round[d]) = {}
    BY <1>2, <1>4, FS_EmptySet
  <1>6. QED
    BY <1>5 DEF Pending

LEMMA LinkElsewhere ==
  ASSUME Types, NEW v \in Workers, NEW d \in Workers, v # d, LinkSound(v, d),
         net'[v][d] = net[v][d], round'[d] = round[d], sent \subseteq sent',
         Tag(v) \in Nat, Tag(v)' \in Nat, Tag(v) <= Tag(v)',
         \A k \in Nat : Ended(v, k)' <=> Ended(v, k)
  PROVE  LinkSound(v, d)'
  <1>1. net[v][d] \in Seq(Packet) /\ round[d] \in Nat
    BY DEF Types
  <1>2. \A x \in ToSet(net[v][d]) : x.tag \in Nat
    BY <1>1, PacketFacts
  <1>3. \A k : Ours(v, d, k) \subseteq Ours(v, d, k)'
    BY DEF Ours
  <1>4. Fifo(net'[v][d])
    BY DEF LinkSound
  <1>5. ASSUME NEW x \in ToSet(net'[v][d])
        PROVE  /\ x.tag > 0 /\ x.tag >= round'[d] /\ x.tag <= Tag(v)'
               /\ ToSet(x.block) \subseteq Ours(v, d, x.tag)'
               /\ x.block = EndOfRound => Ended(v, x.tag)'
               /\ Ended(v, x.tag)' => [tag |-> x.tag, block |-> EndOfRound] \in ToSet(net'[v][d])
    <2>1. /\ x.tag \in Nat /\ x.tag > 0 /\ x.tag >= round[d] /\ x.tag <= Tag(v)
          /\ ToSet(x.block) \subseteq Ours(v, d, x.tag)
          /\ x.block = EndOfRound => Ended(v, x.tag)
          /\ Ended(v, x.tag) => [tag |-> x.tag, block |-> EndOfRound] \in ToSet(net[v][d])
      BY <1>2 DEF LinkSound
    <2>2. Ended(v, x.tag)' <=> Ended(v, x.tag)
      BY <2>1
    <2>3. ToSet(x.block) \subseteq Ours(v, d, x.tag)'
      BY <1>3, <2>1
    <2>4. x.tag <= Tag(v)'
      BY <2>1
    <2>5. QED
      BY <2>1, <2>2, <2>3, <2>4
  <1>6. QED
    BY <1>4, <1>5 DEF LinkSound

(* A packet that joins a link: the last one of its round, or one before it. *)
LEMMA LinkJoins ==
  ASSUME Types, PhaseInv, OverSound, NEW v \in Workers, NEW d \in Workers, v # d,
         LinkSound(v, d), NEW b \in Block,
         net'[v][d] = Append(net[v][d], [tag |-> Tag(v), block |-> b]),
         round'[d] = round[d], sent' = sent, Tag(v)' = Tag(v), sender[v] = "run",
         ToSet(b) \subseteq Ours(v, d, Tag(v)),
         \A k \in Nat : Ended(v, k)' <=> Ended(v, k) \/ (b = EndOfRound /\ k = Tag(v))
  PROVE  LinkSound(v, d)'
  <1>t. PICK t : t = Tag(v)
    OBVIOUS
  <1> DEFINE s == net[v][d]
             y == [tag |-> t, block |-> b]
             End(k) == [tag |-> k, block |-> EndOfRound]
  <1>1. s \in Seq(Packet) /\ round[d] \in Nat /\ t \in Nat /\ t > 0
    BY <1>t, Tags DEF Types
  <1>2. y \in Packet /\ y.tag = t /\ y.block = b
    BY <1>1 DEF Packet
  <1>3. ~Ended(v, t)
    BY <1>1, <1>t DEF Ended
  <1>4. ASSUME NEW x \in ToSet(s)
        PROVE  /\ x \in Packet /\ x.tag \in Nat /\ x.tag > 0 /\ x.tag >= round[d] /\ x.tag <= t
               /\ ToSet(x.block) \subseteq Ours(v, d, x.tag)
               /\ x.block = EndOfRound => Ended(v, x.tag)
               /\ Ended(v, x.tag) => End(x.tag) \in ToSet(s)
               /\ x.block = EndOfRound => x.tag < t
    <2>1. /\ x.tag > 0 /\ x.tag >= round[d] /\ x.tag <= t
          /\ ToSet(x.block) \subseteq Ours(v, d, x.tag)
          /\ x.block = EndOfRound => Ended(v, x.tag)
          /\ Ended(v, x.tag) => End(x.tag) \in ToSet(s)
      BY <1>t DEF LinkSound
    <2>2. x \in Packet /\ x.tag \in Nat
      BY <1>1, PacketFacts
    <2>3. x.tag # t \/ ~Ended(v, x.tag)
      BY <1>3
    <2>4. x.block = EndOfRound => x.tag < t
      BY <1>1, <2>1, <2>2, <2>3
    <2>5. QED
      BY <2>1, <2>2, <2>4
  <1>5. t >= round[d]
    <2>1. CASE round[d] > 1
      <3>1. Ended(v, round[d] - 1)
        BY <2>1 DEF OverSound
      <3>2. round[d] - 1 # t
        BY <1>3, <3>1
      <3>3. t >= round[d] - 1
        BY <1>1, <1>t, <3>1 DEF Ended
      <3>4. \A r \in Nat : t >= r - 1 /\ r - 1 # t => t >= r
        BY <1>1
      <3>5. QED
        BY <1>1, <3>2, <3>3, <3>4
    <2>2. CASE round[d] <= 1
      BY <1>1, <2>2
    <2>3. QED
      BY <1>1, <2>1, <2>2
  <1> HIDE DEF s, y, End
  <1>6. net'[v][d] = Append(s, y) /\ ToSet(net'[v][d]) = ToSet(s) \cup {y}
    <2>1. net'[v][d] = Append(s, y)
      BY <1>t DEF s, y
    <2>2. s \in Seq(Packet) /\ y \in Packet
      BY <1>1, <1>2
    <2>3. ToSet(Append(s, y)) = ToSet(s) \cup {y}
      BY <2>2, AppendSet
    <2>4. QED
      BY <2>1, <2>3
  <1>7. Fifo(net'[v][d])
    <2>1. Fifo(s)
      BY DEF LinkSound, s
    <2>2. \A x \in ToSet(s) : x.tag <= y.tag /\ (x.block = EndOfRound => x.tag < y.tag)
      BY <1>2, <1>4
    <2>3. QED
      BY <1>1, <1>2, <1>6, <2>1, <2>2, FifoAppend
  <1>8. ASSUME NEW k \in Nat PROVE Ended(v, k)' <=> Ended(v, k) \/ (b = EndOfRound /\ k = t)
    BY <1>t
  <1>9. b = EndOfRound => End(t) = y
    BY DEF End, y
  <1>10. ASSUME NEW x \in ToSet(net'[v][d])
         PROVE  /\ x.tag > 0 /\ x.tag >= round[d] /\ x.tag <= t
                /\ ToSet(x.block) \subseteq Ours(v, d, x.tag)
                /\ x.block = EndOfRound => Ended(v, x.tag)'
                /\ Ended(v, x.tag)' => End(x.tag) \in ToSet(net'[v][d])
    <2>1. CASE x \in ToSet(s)
      <3>1. Ended(v, x.tag)' <=> Ended(v, x.tag) \/ (b = EndOfRound /\ x.tag = t)
        BY <1>4, <1>8, <2>1
      <3>2. Ended(v, x.tag)' => End(x.tag) \in ToSet(net'[v][d])
        BY <1>4, <1>6, <1>9, <2>1, <3>1
      <3>3. QED
        BY <1>4, <2>1, <3>1, <3>2
    <2>2. CASE x = y
      <3>1. x.tag = t /\ x.block = b
        BY <1>2, <2>2
      <3>2. Ended(v, t)' <=> b = EndOfRound
        BY <1>1, <1>3, <1>8
      <3>3. ToSet(b) \subseteq Ours(v, d, t)
        BY <1>t
      <3>4. QED
        BY <1>1, <1>5, <1>6, <1>9, <2>2, <3>1, <3>2, <3>3
    <2>3. QED
      BY <1>6, <2>1, <2>2
  <1>11. /\ \A k : Ours(v, d, k)' = Ours(v, d, k)
         /\ Tag(v)' = t /\ round'[d] = round[d]
    BY <1>t DEF Ours
  <1>12. \A k : End(k) = [tag |-> k, block |-> EndOfRound]
    BY DEF End
  <1>13. QED
    BY <1>7, <1>10, <1>11, <1>12 DEF LinkSound

LEMMA LinkLeaves ==
  ASSUME Types, NEW v \in Workers, NEW d \in Workers, v # d, LinkSound(v, d),
         net[v][d] # << >>, net'[v][d] = Tail(net[v][d]),
         round'[d] = round[d], sent' = sent, Tag(v)' = Tag(v),
         \A k \in Nat : Ended(v, k)' <=> Ended(v, k)
  PROVE  LinkSound(v, d)'
  <1> DEFINE s == net[v][d]
             End(k) == [tag |-> k, block |-> EndOfRound]
  <1>1. s \in Seq(Packet) /\ s # << >> /\ Fifo(s) /\ net'[v][d] = Tail(s)
    BY DEF Types, LinkSound
  <1> HIDE DEF s, End
  <1>2. ToSet(s) = ToSet(Tail(s)) \cup {Head(s)}
    BY <1>1, TailSet
  <1>3. /\ Fifo(Tail(s))
        /\ \A y \in ToSet(Tail(s)) : /\ Head(s).tag <= y.tag
                                     /\ Head(s).block = EndOfRound => Head(s).tag < y.tag
    BY <1>1, FifoTail
  <1>4. ASSUME NEW x \in ToSet(Tail(s))
        PROVE  /\ x.tag > 0 /\ x.tag >= round[d] /\ x.tag <= Tag(v)
               /\ ToSet(x.block) \subseteq Ours(v, d, x.tag)
               /\ x.block = EndOfRound => Ended(v, x.tag)'
               /\ Ended(v, x.tag)' => End(x.tag) \in ToSet(Tail(s))
    <2>1. /\ x.tag > 0 /\ x.tag >= round[d] /\ x.tag <= Tag(v)
          /\ ToSet(x.block) \subseteq Ours(v, d, x.tag)
          /\ x.block = EndOfRound => Ended(v, x.tag)
          /\ Ended(v, x.tag) => End(x.tag) \in ToSet(s)
      BY <1>2 DEF LinkSound, s, End
    <2>2. x.tag \in Nat
      BY <1>1, <1>2, PacketFacts
    <2>3. End(x.tag) # Head(s)
      <3>1. End(x.tag).block = EndOfRound /\ End(x.tag).tag = x.tag
        BY DEF End
      <3>2. Head(s).block = EndOfRound => Head(s).tag < x.tag
        BY <1>3
      <3>3. ~(x.tag < x.tag)
        BY <2>2
      <3>4. QED
        BY <3>1, <3>2, <3>3
    <2>4. QED
      BY <1>2, <2>1, <2>2, <2>3
  <1>5. \A k : Ours(v, d, k)' = Ours(v, d, k)
    BY DEF Ours
  <1>6. QED
    BY <1>1, <1>3, <1>4, <1>5 DEF LinkSound, End

LEMMA LinkRound ==
  ASSUME Types, NEW v \in Workers, NEW d \in Workers, v # d, LinkSound(v, d),
         QueueSound(d, round[d]), FinishARound(d), Tag(v)' = Tag(v),
         \A k \in Nat : Ended(v, k)' <=> Ended(v, k)
  PROVE  LinkSound(v, d)'
  <1>1. round'[d] = round[d] + 1 /\ net' = net /\ sent' = sent
    BY FinishFacts
  <1>2. net[v][d] \in Seq(Packet) /\ round[d] \in Nat
    BY DEF Types
  <1>3. ASSUME NEW x \in ToSet(net[v][d])
        PROVE  x.tag \in Nat /\ x.tag >= round[d] + 1
    <2>1. x.tag \in Nat /\ x.tag > 0 /\ x.tag >= round[d]
      BY <1>2, PacketFacts DEF LinkSound
    <2>2. x.tag # round[d]
      <3>1. SUFFICES ASSUME x.tag = round[d] PROVE FALSE
        OBVIOUS
      <3>2. Delivered(v, d, round[d])
        BY <2>1, <3>1, AllDelivered
      <3>3. Ended(v, x.tag) /\ [tag |-> x.tag, block |-> EndOfRound] \notin ToSet(net[v][d])
        BY <3>1, <3>2 DEF Delivered
      <3>4. QED
        BY <3>3 DEF LinkSound
    <2>3. QED
      BY <1>2, <2>1, <2>2
  <1>4. \A k : Ours(v, d, k)' = Ours(v, d, k)
    BY <1>1 DEF Ours
  <1>5. QED
    BY <1>1, <1>3, <1>4 DEF LinkSound

LEMMA LinkStep ==
  ASSUME Types, PhaseInv, OverSound, \A w \in Workers : SendSound(w) /\ QueueSound(w, round[w]),
         \A v, d \in Workers : v # d => LinkSound(v, d), [Next]_vars
  PROVE  \A v, d \in Workers : v # d => LinkSound(v, d)'
  <1> SUFFICES ASSUME NEW v \in Workers, NEW d \in Workers, v # d PROVE LinkSound(v, d)'
    OBVIOUS
  <1>0. sent \subseteq sent' /\ LinkSound(v, d)
    BY SentGrows
  <1>t. /\ Tag(v) \in Nat /\ Tag(v)' \in Nat /\ Tag(v) <= Tag(v)'
        /\ \A k \in Nat : Ended(v, k)' <=> Ended(v, k) \/ (SendEnds(v) /\ k = Tag(v))
    BY Tags, TagStep
  <1>1. CASE SendEnds(v)
    <2>a. /\ sender[v] = "run"
          /\ \A u, e \in Workers : net'[u][e] =
              IF u = v /\ e # v THEN Append(net[u][e], [tag |-> Tag(v), block |-> EndOfRound])
                                ELSE net[u][e]
          /\ pc' = pc /\ round' = round /\ sent' = sent
      BY <1>1, SendEndsFacts
    <2>1. /\ net'[v][d] = Append(net[v][d], [tag |-> Tag(v), block |-> EndOfRound])
          /\ round' = round /\ sent' = sent /\ sender[v] = "run" /\ pc' = pc
      BY <2>a
    <2>2. Tag(v)' = Tag(v) /\ EndOfRound \in Block /\ ToSet(EndOfRound) = {}
      BY <2>1, EmptySet DEF Tag, EndOfRound, Block
    <2>3. QED
      BY <1>0, <1>1, <1>t, <2>1, <2>2, LinkJoins
  <1>2. CASE ~SendEnds(v)
    <2>0. \A k \in Nat : Ended(v, k)' <=> Ended(v, k)
      BY <1>t, <1>2
    <2>1. ASSUME NEW w \in Workers, SendBlock(w) PROVE LinkSound(v, d)'
      <3>1. PICK e \in Workers, b \in Block : Moved(w, e, b)
        BY <2>1, SendBlockFacts
      <3>2. round' = round /\ sent' = sent /\ sender[w] = "run" /\ Tag(v)' = Tag(v)
        BY <3>1 DEF Moved, Tag
      <3>3. CASE w = v /\ e = d
        <4>1. net'[v][d] = Append(net[v][d], [tag |-> Tag(v), block |-> b])
          BY <3>1, <3>3 DEF Moved
        <4>2. <<d, b>> \in ToSet(sending[v].blocks) /\ <<d, b>>[1] = d /\ <<d, b>>[2] = b
          <5>1. sending[v].blocks \in Seq(Workers \X Block)
            BY DEF Types
          <5>2. sending[v].blocks # << >> /\ Head(sending[v].blocks) = <<d, b>>
            BY <3>1, <3>3 DEF Moved
          <5>3. QED
            BY <5>1, <5>2, TailSet
        <4>3. b # EndOfRound /\ ToSet(b) \subseteq Ours(v, d, Tag(v))
          BY <4>2 DEF SendSound, EndOfRound
        <4>4. QED
          BY <1>0, <2>0, <3>2, <3>3, <4>1, <4>3, LinkJoins
      <3>4. CASE ~(w = v /\ e = d)
        <4>1. net'[v][d] = net[v][d]
          BY <3>1, <3>4 DEF Moved
        <4>2. QED
          BY <1>0, <1>t, <2>0, <3>2, <4>1, LinkElsewhere
      <3>5. QED
        BY <3>3, <3>4
    <2>2. ASSUME NEW w \in Workers, NEW u \in Workers, Receive(w, u) PROVE LinkSound(v, d)'
      <3>a. /\ net[u][w] # << >> /\ round' = round /\ sent' = sent /\ pc' = pc
            /\ \A a, e \in Workers : net'[a][e] = IF a = u /\ e = w THEN Tail(net[a][e])
                                                                   ELSE net[a][e]
        <4>1. /\ net[u][w] # << >>
              /\ \A a, e \in Workers : net'[a][e] = IF a = u /\ e = w THEN Tail(net[a][e])
                                                                     ELSE net[a][e]
          BY <2>2, ReceiveNet
        <4>2. round' = round /\ sent' = sent /\ pc' = pc
          BY <2>2, ReceiveFacts
        <4>3. QED
          BY <4>1, <4>2
      <3>1. /\ net[u][w] # << >> /\ round' = round /\ sent' = sent /\ pc' = pc
            /\ net'[v][d] = IF v = u /\ d = w THEN Tail(net[v][d]) ELSE net[v][d]
        BY <3>a
      <3>2. Tag(v)' = Tag(v)
        BY <3>1 DEF Tag
      <3>3. CASE v = u /\ d = w
        BY <1>0, <2>0, <3>1, <3>2, <3>3, LinkLeaves
      <3>4. CASE ~(v = u /\ d = w)
        BY <1>0, <1>t, <2>0, <3>1, <3>4, LinkElsewhere
      <3>5. QED
        BY <3>3, <3>4
    <2>3. CASE FinishARound(d)
      <3>1. Tag(v)' = Tag(v)
        <4>1. pc'[v] = pc[v] /\ round'[v] = round[v]
          BY <2>3, FinishFacts
        <4>2. QED
          BY <4>1 DEF Tag
      <3>2. QED
        BY <1>0, <2>0, <2>3, <3>1, LinkRound
    <2>4. ASSUME net'[v][d] = net[v][d], round'[d] = round[d] PROVE LinkSound(v, d)'
      BY <1>0, <1>t, <2>0, <2>4, LinkElsewhere
    <2>5. ASSUME NEW w \in Workers, StartARound(w) \/ Takes(w) \/ FinishMsgFilling(w)
          PROVE  net' = net /\ round' = round
      BY <2>5, StartFacts, TakeFacts, FillFacts
    <2>6. ASSUME NEW w \in Workers, Sends(w) PROVE net' = net /\ round' = round
      BY <2>6, PostFacts DEF Posted
    <2>7. ASSUME NEW w \in Workers, FinishARound(w), w # d
          PROVE  net' = net /\ round'[d] = round[d]
      BY <2>7, FinishFacts
    <2>8. ASSUME NEW w \in Workers, Idles(w) PROVE net'[v][d] = net[v][d] /\ round' = round
      BY <2>8, IdleFacts
    <2>9. ASSUME NEW w \in Workers, SendEnds(w), w # v
          PROVE  net'[v][d] = net[v][d] /\ round' = round
      <3>1. /\ \A u, e \in Workers : net'[u][e] =
                IF u = w /\ e # w THEN Append(net[u][e], [tag |-> Tag(w), block |-> EndOfRound])
                                  ELSE net[u][e]
            /\ round' = round
        BY <2>9, SendEndsFacts
      <3>2. QED
        BY <2>9, <3>1
    <2>10. CASE UNCHANGED vars
      BY <2>4, <2>10 DEF vars
    <2>11. QED
      BY <1>2, <2>1, <2>2, <2>3, <2>4, <2>5, <2>6, <2>7, <2>8, <2>9, <2>10, Steps
  <1>3. QED
    BY <1>1, <1>2

-----------------------------------------------------------------------------
(* The receive queues *)

LEMMA OverStep ==
  ASSUME Types, PhaseInv, OverSound, \A w \in Workers : QueueSound(w, round[w]), [Next]_vars
  PROVE  OverSound'
  <1> SUFFICES ASSUME NEW v \in Workers, NEW d \in Workers, round'[d] > 1
               PROVE  Ended(v, round[d] - 1)'
    BY DEF OverSound
  <1>0. round[d] \in Nat /\ \A k \in Nat : Ended(v, k) => Ended(v, k)'
    BY TagStep DEF Types
  <1>1. CASE FinishARound(d)
    <2>1. round'[d] = round[d] + 1
      BY <1>1, FinishFacts
    <2>2. round[d] # 0
      BY <1>0, <2>1
    <2>3. Delivered(v, d, round[d])
      BY <1>1, <2>2, AllDelivered
    <2>4. Ended(v, round[d])
      BY <2>3 DEF Delivered, Ended
    <2>5. PICK k \in Nat : k = round[d]
      BY <1>0
    <2>6. Ended(v, k)'
      BY <1>0, <2>4, <2>5
    <2>7. round'[d] - 1 = k
      BY <2>1, <2>5
    <2>8. QED
      BY <2>6, <2>7
  <1>2. CASE ~FinishARound(d)
    <2>1. round'[d] = round[d]
      BY <1>2, Moves, StartFacts, SendEndsFacts
    <2>2. PICK k \in Nat : k = round[d] - 1
      BY <1>0, <2>1
    <2>3. Ended(v, k)
      BY <1>0, <2>1, <2>2 DEF OverSound
    <2>4. round'[d] - 1 = k
      BY <2>1, <2>2
    <2>5. QED
      BY <1>0, <2>3, <2>4
  <1>3. QED
    BY <1>1, <1>2

(* A queue counts a worker as done when it gets the end of its round, and   *)
(* the worker itself when it starts the next one.                           *)
LEMMA DeliveredStep ==
  ASSUME Types, PhaseInv, \A w \in Workers : SendSound(w), [Next]_vars,
         NEW v \in Workers, NEW d \in Workers, NEW k \in Nat,
         ~Receive(d, v), v = d => ~StartARound(d)
  PROVE  Delivered(v, d, k)' <=> Delivered(v, d, k)
  <1>1. CASE v = d
    BY <1>1, TagStep DEF Delivered
  <1>2. CASE v # d
    <2> DEFINE E == [tag |-> k, block |-> EndOfRound]
    <2>0. /\ net[v][d] \in Seq(Packet) /\ Tag(v) \in Nat
          /\ Ended(v, k)' <=> Ended(v, k) \/ (SendEnds(v) /\ k = Tag(v))
      BY <1>2, Tags, TagStep DEF Types
    <2>1. CASE SendEnds(v)
      <3> DEFINE y == [tag |-> Tag(v), block |-> EndOfRound]
      <3>1. /\ sender[v] = "run"
            /\ \A u, e \in Workers : net'[u][e] =
                 IF u = v /\ e # v THEN Append(net[u][e], y) ELSE net[u][e]
        BY <2>1, SendEndsFacts
      <3>2. net'[v][d] = Append(net[v][d], y)
        BY <1>2, <3>1
      <3>3. y \in Packet
        BY <2>0 DEF Packet, EndOfRound, Block
      <3>4. ToSet(net'[v][d]) = ToSet(net[v][d]) \cup {y}
        BY <2>0, <3>2, <3>3, AppendSet
      <3>5. CASE k = Tag(v)
        <4>1. ~Ended(v, k)
          BY <2>0, <3>1, <3>5 DEF Ended
        <4>2. E \in ToSet(net'[v][d])
          BY <3>4, <3>5
        <4>3. QED
          BY <1>2, <4>1, <4>2 DEF Delivered
      <3>6. CASE k # Tag(v)
        <4>1. E # y
          BY <3>6
        <4>2. E \in ToSet(net'[v][d]) <=> E \in ToSet(net[v][d])
          BY <3>4, <4>1
        <4>3. QED
          BY <1>2, <2>0, <3>6, <4>2 DEF Delivered
      <3>7. QED
        BY <3>5, <3>6
    <2>2. ASSUME ~SendEnds(v), E \in ToSet(net'[v][d]) <=> E \in ToSet(net[v][d])
          PROVE  Delivered(v, d, k)' <=> Delivered(v, d, k)
      BY <1>2, <2>0, <2>2 DEF Delivered
    <2>3. ASSUME NEW w \in Workers, SendBlock(w)
          PROVE  E \in ToSet(net'[v][d]) <=> E \in ToSet(net[v][d])
      <3>1. PICK e \in Workers, b \in Block : Moved(w, e, b)
        BY <2>3, SendBlockFacts
      <3>2. CASE w = v /\ e = d
        <4> DEFINE y == [tag |-> Tag(v), block |-> b]
        <4>1. net'[v][d] = Append(net[v][d], y)
          BY <1>2, <3>1, <3>2 DEF Moved
        <4>2. <<d, b>> \in ToSet(sending[v].blocks) /\ <<d, b>>[2] = b
          <5>1. sending[v].blocks \in Seq(Workers \X Block)
            BY DEF Types
          <5>2. sending[v].blocks # << >> /\ Head(sending[v].blocks) = <<d, b>>
            BY <3>1, <3>2 DEF Moved
          <5>3. QED
            BY <5>1, <5>2, TailSet
        <4>3. b # EndOfRound
          BY <4>2 DEF SendSound, EndOfRound
        <4>4. y \in Packet
          BY <2>0 DEF Packet
        <4>5. ToSet(net'[v][d]) = ToSet(net[v][d]) \cup {y}
          BY <2>0, <4>1, <4>4, AppendSet
        <4>6. QED
          BY <4>3, <4>5
      <3>3. CASE ~(w = v /\ e = d)
        BY <3>1, <3>3 DEF Moved
      <3>4. QED
        BY <3>2, <3>3
    <2>4. ASSUME NEW w \in Workers, NEW u \in Workers, Receive(w, u)
          PROVE  net'[v][d] = net[v][d]
      <3>1. ~(u = v /\ w = d)
        BY <2>4
      <3>2. \A a, e \in Workers : net'[a][e] = IF a = u /\ e = w THEN Tail(net[a][e])
                                                               ELSE net[a][e]
        BY <2>4, ReceiveNet
      <3>3. QED
        BY <3>1, <3>2
    <2>5. ASSUME NEW w \in Workers, StartARound(w) \/ Takes(w) \/ FinishMsgFilling(w) \/ FinishARound(w)
          PROVE  net' = net
      BY <2>5, StartFacts, TakeFacts, FillFacts, FinishFacts
    <2>6. ASSUME NEW w \in Workers, Sends(w) PROVE net' = net
      BY <2>6, PostFacts DEF Posted
    <2>7. ASSUME NEW w \in Workers, Idles(w) PROVE net'[v][d] = net[v][d]
      BY <1>2, <2>7, IdleFacts
    <2>8. ASSUME NEW w \in Workers, SendEnds(w), w # v PROVE net'[v][d] = net[v][d]
      <3>1. \A u, e \in Workers : net'[u][e] =
              IF u = w /\ e # w THEN Append(net[u][e], [tag |-> Tag(w), block |-> EndOfRound])
                                ELSE net[u][e]
        BY <2>8, SendEndsFacts
      <3>2. QED
        BY <2>8, <3>1
    <2>9. CASE UNCHANGED vars
      <3>1. net' = net /\ ~SendEnds(v)
        BY <2>9, SendEndsFacts DEF vars
      <3>2. QED
        BY <2>2, <3>1
    <2>10. CASE ~SendEnds(v) /\ Next
      <3> HIDE DEF E
      <3>1. E \in ToSet(net'[v][d]) <=> E \in ToSet(net[v][d])
        BY <2>3, <2>4, <2>5, <2>6, <2>7, <2>8, <2>10, Steps
      <3>2. QED
        BY <2>2, <2>10, <3>1
    <2>11. QED
      BY <2>1, <2>9, <2>10
  <1>3. QED
    BY <1>1, <1>2

LEMMA DeliveredReceive ==
  ASSUME Types, PhaseInv, NEW v \in Workers, NEW d \in Workers, NEW k \in Nat,
         Receive(d, v), LinkSound(v, d), [Next]_vars
  PROVE  /\ Head(net[v][d]).block = EndOfRound /\ k = Head(net[v][d]).tag =>
              ~Delivered(v, d, k) /\ Delivered(v, d, k)'
         /\ ~(Head(net[v][d]).block = EndOfRound /\ k = Head(net[v][d]).tag) =>
              (Delivered(v, d, k)' <=> Delivered(v, d, k))
  <1>t. PICK x : x = Head(net[v][d])
    OBVIOUS
  <1> DEFINE E == [tag |-> k, block |-> EndOfRound]
  <1>1. /\ v # d /\ net[v][d] # << >> /\ net[v][d] \in Seq(Packet)
        /\ net'[v][d] = Tail(net[v][d]) /\ UNCHANGED <<pc, round, sender>>
    <2>1. v # d /\ net[v][d] # << >> /\ net[v][d] \in Seq(Packet) /\ UNCHANGED <<pc, round, sender>>
      BY ReceiveFacts
    <2>2. \A u, e \in Workers : net'[u][e] = IF u = v /\ e = d THEN Tail(net[u][e]) ELSE net[u][e]
      BY ReceiveNet
    <2>3. QED
      BY <2>1, <2>2
  <1>2. ToSet(net[v][d]) = ToSet(net'[v][d]) \cup {x} /\ x \in Packet
    BY <1>1, <1>t, TailSet
  <1>3. \A y \in ToSet(net'[v][d]) : x.block = EndOfRound => x.tag < y.tag
    BY <1>1, <1>t, FifoTail DEF LinkSound
  <1>4. Ended(v, k)' <=> Ended(v, k)
    BY <1>1 DEF Ended, Tag
  <1>5. CASE x.block = EndOfRound /\ k = x.tag
    <2>1. E = x
      BY <1>2, <1>5 DEF Packet
    <2>2. E \notin ToSet(net'[v][d])
      <3>1. E.tag = k /\ ~(k < k)
        OBVIOUS
      <3>2. QED
        BY <1>3, <1>5, <3>1
    <2>3. Ended(v, k)
      BY <1>2, <1>5 DEF LinkSound
    <2> HIDE DEF E
    <2>4. E \in ToSet(net[v][d])
      BY <1>2, <2>1
    <2>5. QED
      BY <1>1, <1>4, <1>5, <1>t, <2>2, <2>3, <2>4 DEF Delivered, E
  <1>6. CASE ~(x.block = EndOfRound /\ k = x.tag)
    <2>1. E # x
      BY <1>6
    <2>2. E \in ToSet(net'[v][d]) <=> E \in ToSet(net[v][d])
      BY <1>2, <2>1
    <2>3. QED
      BY <1>1, <1>4, <1>6, <1>t, <2>2 DEF Delivered
  <1>7. QED
    BY <1>5, <1>6, <1>t

-----------------------------------------------------------------------------

(* A queue whose producers stay as they are, and one that counts one more   *)
(* worker as done.                                                          *)
LEMMA QueueSame ==
  ASSUME NEW d \in Workers, NEW k \in Nat, QueueSound(d, k), sent \subseteq sent',
         Stuff(recv'[d][Parity(k)].blocks) \subseteq Theirs(d, k),
         recv'[d][Parity(k)].producers = recv[d][Parity(k)].producers,
         \A v \in Workers : Delivered(v, d, k)' <=> Delivered(v, d, k)
  PROVE  QueueSound(d, k)'
  <1>1. Theirs(d, k) \subseteq Theirs(d, k)'
    BY DEF Theirs
  <1>2. Pending(d, k)' = Pending(d, k)
    BY DEF Pending
  <1>3. Parity(k)' = Parity(k)
    BY DEF Parity
  <1>4. QED
    BY <1>1, <1>2, <1>3 DEF QueueSound

LEMMA QueueLess ==
  ASSUME NEW d \in Workers, NEW k \in Nat, QueueSound(d, k), sent \subseteq sent',
         Stuff(recv'[d][Parity(k)].blocks) \subseteq Theirs(d, k),
         recv'[d][Parity(k)].producers = recv[d][Parity(k)].producers - 1,
         NEW u \in Workers, ~Delivered(u, d, k), Delivered(u, d, k)',
         \A v \in Workers : v # u => (Delivered(v, d, k)' <=> Delivered(v, d, k))
  PROVE  QueueSound(d, k)'
  <1>1. Theirs(d, k) \subseteq Theirs(d, k)'
    BY DEF Theirs
  <1>2. Pending(d, k)' = Pending(d, k) \ {u} /\ u \in Pending(d, k)
    BY DEF Pending
  <1>3. Pending(d, k) \in SUBSET Workers
    BY DEF Pending
  <1>4. IsFiniteSet(Pending(d, k))
    BY <1>3, MessageAssumption, FS_Subset
  <1>5. Cardinality(Pending(d, k) \ {u}) = Cardinality(Pending(d, k)) - 1
    BY <1>2, <1>4, FS_RemoveElement
  <1>6. Parity(k)' = Parity(k)
    BY DEF Parity
  <1>7. QED
    BY <1>1, <1>2, <1>5, <1>6 DEF QueueSound

(* A receive thread takes one packet at a time. *)
LEMMA ReceiveOne ==
  ASSUME Types, NEW d \in Workers, NEW v \in Workers, NEW u \in Workers,
         Receive(d, v), u # v
  PROVE  ~Receive(d, u) /\ ~StartARound(d) /\ ~FinishARound(d)
  <1>1. \A a, e \in Workers : net'[a][e] = IF a = v /\ e = d THEN Tail(net[a][e]) ELSE net[a][e]
    BY ReceiveNet
  <1>2. net'[u][d] = net[u][d] /\ pc' = pc /\ got' = got
    BY <1>1, ReceiveFacts
  <1>3. ASSUME Receive(d, u) PROVE FALSE
    <2>1. \A a, e \in Workers : net'[a][e] = IF a = u /\ e = d THEN Tail(net[a][e]) ELSE net[a][e]
      BY <1>3, ReceiveNet
    <2>2. net[u][d] = Tail(net[u][d]) /\ net[u][d] \in Seq(Packet) /\ net[u][d] # << >>
      BY <1>2, <1>3, <2>1, ReceiveFacts
    <2>3. PICK s : s = net[u][d]
      OBVIOUS
    <2>4. s \in Seq(Packet) /\ s # << >> /\ Tail(s) = s
      BY <2>2, <2>3
    <2>5. Len(Tail(s)) = Len(s) - 1 /\ Len(s) \in Nat
      BY <2>4, TailSet
    <2>6. QED
      BY <2>4, <2>5
  <1>4. ASSUME StartARound(d) PROVE FALSE
    BY <1>2, <1>4, StartFacts
  <1>5. ASSUME FinishARound(d) PROVE FALSE
    BY <1>2, <1>5, FinishFacts
  <1>6. QED
    BY <1>3, <1>4, <1>5

(* The steps that leave the queue of d's round and of the next as they are, *)
(* or add to or take from them.                                             *)
LEMMA QueueKept ==
  ASSUME Types, PhaseInv, \A w \in Workers : SendSound(w),
         \A v, d \in Workers : v # d => LinkSound(v, d), [Next]_vars,
         NEW d \in Workers, NEW k \in Nat, k = round[d] \/ k = round[d] + 1,
         QueueSound(d, k), ~FinishARound(d)
  PROVE  QueueSound(d, k)'
  <1>r. PICK R \in Nat : R = round[d]
    BY DEF Types
  <1>p. PICK p \in 0 .. 1 : p = Parity(k)
    BY Parities
  <1>0. /\ sent \subseteq sent' /\ recv[d][p].blocks \in Seq(Block)
        /\ Stuff(recv[d][p].blocks) \subseteq Theirs(d, k)
    <2>1. recv[d][p] \in [blocks : Seq(Block), producers : Int]
      BY DEF Types
    <2>2. QED
      BY <1>p, <2>1, SentGrows DEF QueueSound
  <1>k. k = R \/ k = R + 1
    BY <1>r
  <1>1. CASE StartARound(d)
    <2>0. ASSUME NEW v \in Workers, v # d PROVE Delivered(v, d, k)' <=> Delivered(v, d, k)
      <3>1. ~Receive(d, v)
        BY <1>1, <2>0, ReceiveOne
      <3>2. QED
        BY <2>0, <3>1, DeliveredStep
    <2>1. Tag(d) = R /\ Tag(d)' = R + 1
      <3>1. pc[d] = "start"
        BY <1>1, StartFacts
      <3>2. QED
        BY <1>1, <1>r, <3>1, TagStep DEF Tag
    <2>2. /\ Delivered(d, d, k) <=> k > 0 /\ R > k
          /\ Delivered(d, d, k)' <=> k > 0 /\ R + 1 > k
      BY <2>1 DEF Delivered
    <2>3. CASE R = 0
      <3>1. recv' = recv
        BY <1>1, <1>r, <2>3, StartFacts
      <3>2. \A v \in Workers : Delivered(v, d, k)' <=> Delivered(v, d, k)
        BY <1>r, <2>0, <2>2, <2>3
      <3>3. QED
        BY <1>0, <1>p, <3>1, <3>2, QueueSame
    <2>4. CASE R # 0
      <3>1. /\ recv'[d][Parity(R)].blocks = recv[d][Parity(R)].blocks \o to_self[d]
            /\ recv'[d][Parity(R)].producers = recv[d][Parity(R)].producers - 1
            /\ \A j \in 0 .. 1 : j # Parity(R) => recv'[d][j] = recv[d][j]
        BY <1>1, <1>r, <2>4, StartFacts
      <3>2. CASE k = R
        <4>1. ~Delivered(d, d, k) /\ Delivered(d, d, k)'
          BY <2>2, <2>4, <3>2
        <4>2. Stuff(to_self[d]) \subseteq Theirs(d, k) /\ to_self[d] \in Seq(Block)
          BY <2>1, <3>2 DEF SendSound, Ours, Theirs, Types
        <4>3. Stuff(recv[d][p].blocks \o to_self[d]) \subseteq Theirs(d, k)
          BY <1>0, <4>2, StuffFacts
        <4>4. /\ Stuff(recv'[d][Parity(k)].blocks) \subseteq Theirs(d, k)
              /\ recv'[d][Parity(k)].producers = recv[d][Parity(k)].producers - 1
          BY <1>p, <3>1, <3>2, <4>3
        <4>5. QED
          BY <1>0, <2>0, <4>1, <4>4, QueueLess
      <3>3. CASE k = R + 1
        <4>1. recv'[d][p] = recv[d][p]
          BY <1>p, <3>1, <3>3, Parities
        <4>2. \A v \in Workers : Delivered(v, d, k)' <=> Delivered(v, d, k)
          BY <2>0, <2>2, <3>3
        <4>3. QED
          BY <1>0, <1>p, <4>1, <4>2, QueueSame
      <3>4. QED
        BY <1>r, <3>2, <3>3
    <2>5. QED
      BY <2>3, <2>4
  <1>2. ASSUME NEW u \in Workers, Receive(d, u) PROVE QueueSound(d, k)'
    <2>x. PICK x : x = Head(net[u][d])
      OBVIOUS
    <2>1. /\ u # d /\ net[u][d] \in Seq(Packet) /\ net[u][d] # << >> /\ x \in Packet
          /\ x.block = EndOfRound => /\ recv'[d][Parity(x.tag)].blocks = recv[d][Parity(x.tag)].blocks
                                     /\ recv'[d][Parity(x.tag)].producers
                                          = recv[d][Parity(x.tag)].producers - 1
          /\ x.block # EndOfRound =>
               /\ recv'[d][Parity(x.tag)].blocks = Append(recv[d][Parity(x.tag)].blocks, x.block)
               /\ recv'[d][Parity(x.tag)].producers = recv[d][Parity(x.tag)].producers
          /\ \A j \in 0 .. 1 : j # Parity(x.tag) => recv'[d][j] = recv[d][j]
      BY <1>2, <2>x, ReceiveFacts
    <2>2. ASSUME NEW v \in Workers, v # u PROVE Delivered(v, d, k)' <=> Delivered(v, d, k)
      <3>1. ~Receive(d, v) /\ ~StartARound(d)
        BY <1>2, <2>2, ReceiveOne
      <3>2. QED
        BY <3>1, DeliveredStep
    <2>3. /\ x.tag \in Nat /\ x.tag >= R /\ x.tag <= R + 1
          /\ ToSet(x.block) \subseteq Ours(u, d, x.tag)
      <3>1. x \in ToSet(net[u][d])
        BY <2>x, <2>1, TailSet
      <3>2. /\ x.tag >= round[d] /\ x.tag <= Tag(u)
            /\ ToSet(x.block) \subseteq Ours(u, d, x.tag)
        BY <2>1, <3>1 DEF LinkSound
      <3>3. Tag(u) \in Nat /\ Tag(u) <= R + 1 /\ x.tag \in Nat
        BY <1>r, <2>1, Tags DEF Packet
      <3>4. QED
        BY <1>r, <3>2, <3>3
    <2>4. /\ x.block = EndOfRound /\ k = x.tag => ~Delivered(u, d, k) /\ Delivered(u, d, k)'
          /\ ~(x.block = EndOfRound /\ k = x.tag) => (Delivered(u, d, k)' <=> Delivered(u, d, k))
      BY <1>2, <2>1, <2>x, DeliveredReceive
    <2>5. CASE k # x.tag
      <3>1. (k = R /\ x.tag = R + 1) \/ (k = R + 1 /\ x.tag = R)
        BY <1>k, <2>3, <2>5
      <3>2. p # Parity(x.tag)
        BY <1>p, <3>1, Parities
      <3>3. recv'[d][p] = recv[d][p]
        BY <2>1, <3>2
      <3>4. \A v \in Workers : Delivered(v, d, k)' <=> Delivered(v, d, k)
        BY <2>2, <2>4, <2>5
      <3>5. QED
        BY <1>0, <1>p, <3>3, <3>4, QueueSame
    <2>6. CASE k = x.tag /\ x.block = EndOfRound
      <3>1. /\ Stuff(recv'[d][Parity(k)].blocks) \subseteq Theirs(d, k)
            /\ recv'[d][Parity(k)].producers = recv[d][Parity(k)].producers - 1
        BY <1>0, <1>p, <2>1, <2>6
      <3>2. ~Delivered(u, d, k) /\ Delivered(u, d, k)'
        BY <2>4, <2>6
      <3>3. QED
        BY <1>0, <2>2, <3>1, <3>2, QueueLess
    <2>7. CASE k = x.tag /\ x.block # EndOfRound
      <3>1. x.block \in Block
        BY <2>1 DEF Packet
      <3>2. Stuff(Append(recv[d][p].blocks, x.block)) = Stuff(recv[d][p].blocks) \cup ToSet(x.block)
        BY <1>0, <3>1, StuffFacts
      <3>3. ToSet(x.block) \subseteq Theirs(d, k)
        BY <2>3, <2>7 DEF Ours, Theirs
      <3>4. /\ Stuff(recv'[d][Parity(k)].blocks) \subseteq Theirs(d, k)
            /\ recv'[d][Parity(k)].producers = recv[d][Parity(k)].producers
        BY <1>0, <1>p, <2>1, <2>7, <3>2, <3>3
      <3>5. \A v \in Workers : Delivered(v, d, k)' <=> Delivered(v, d, k)
        BY <2>2, <2>4, <2>7
      <3>6. QED
        BY <1>0, <3>4, <3>5, QueueSame
    <2>8. QED
      BY <2>5, <2>6, <2>7
  <1>3. CASE ~StartARound(d) /\ \A u \in Workers : ~Receive(d, u)
    <2>1. \A v \in Workers : Delivered(v, d, k)' <=> Delivered(v, d, k)
      BY <1>3, DeliveredStep
    <2>2. CASE Takes(d)
      <3> DEFINE q == recv[d][Parity(R)].blocks
      <3>1. /\ q # << >> /\ recv'[d][Parity(R)].blocks = Tail(q)
            /\ recv'[d][Parity(R)].producers = recv[d][Parity(R)].producers
            /\ \A j \in 0 .. 1 : j # Parity(R) => recv'[d][j] = recv[d][j]
        BY <1>r, <2>2, TakeFacts
      <3>2. CASE k = R
        <4>1. Stuff(Tail(q)) \subseteq Stuff(q)
          BY <1>0, <1>p, <3>1, <3>2, StuffFacts
        <4>2. /\ Stuff(recv'[d][Parity(k)].blocks) \subseteq Theirs(d, k)
              /\ recv'[d][Parity(k)].producers = recv[d][Parity(k)].producers
          BY <1>0, <1>p, <3>1, <3>2, <4>1
        <4>3. QED
          BY <1>0, <2>1, <4>2, QueueSame
      <3>3. CASE k = R + 1
        <4>1. recv'[d][p] = recv[d][p]
          BY <1>p, <3>1, <3>3, Parities
        <4>2. QED
          BY <1>0, <1>p, <2>1, <4>1, QueueSame
      <3>4. QED
        BY <1>r, <3>2, <3>3
    <2>3. ASSUME recv'[d] = recv[d] PROVE QueueSound(d, k)'
      BY <1>0, <1>p, <2>1, <2>3, QueueSame
    <2>4. ASSUME NEW w \in Workers, w # d,
                 \/ StartARound(w) \/ Takes(w) \/ FinishARound(w)
                 \/ \E v \in Workers : Receive(w, v)
          PROVE  recv'[d] = recv[d]
      <3>1. CASE StartARound(w)
        <4>1. \A u \in Workers : u # w =>
                /\ pc'[u] = pc[u] /\ sender'[u] = sender[u] /\ sending'[u] = sending[u]
                /\ got'[u] = got[u] /\ recv'[u] = recv[u] /\ to_self'[u] = to_self[u]
                /\ sent_size'[u] = sent_size[u]
          BY <3>1, StartFacts
        <4>2. QED
          BY <2>4, <4>1
      <3>2. CASE Takes(w)
        BY <2>4, <3>2, TakeFacts
      <3>3. CASE FinishARound(w)
        BY <2>4, <3>3, FinishFacts
      <3>4. ASSUME NEW v \in Workers, Receive(w, v) PROVE recv'[d] = recv[d]
        BY <2>4, <3>4, ReceiveFacts
      <3>5. QED
        BY <2>4, <3>1, <3>2, <3>3, <3>4
    <2>5. ASSUME NEW w \in Workers, FinishMsgFilling(w) \/ Idles(w) \/ SendEnds(w)
          PROVE  recv' = recv
      BY <2>5, FillFacts, IdleFacts, SendEndsFacts
    <2>6. ASSUME NEW w \in Workers, Sends(w) \/ SendBlock(w)
          PROVE  recv' = recv
      BY <2>6, PostFacts, SendBlockFacts DEF Posted, Moved
    <2>7. CASE UNCHANGED vars
      BY <2>3, <2>7 DEF vars
    <2>8. QED
      BY <1>3, <2>2, <2>3, <2>4, <2>5, <2>6, <2>7, Steps
  <1>4. QED
    BY <1>1, <1>2, <1>3

(* The end of a round: its queue is reopened for the round after the next. *)
LEMMA QueueNext ==
  ASSUME Types, PhaseInv, \A w \in Workers : SendSound(w), [Next]_vars,
         NEW d \in Workers, QueueSound(d, round[d]), QueueSound(d, round[d] + 1),
         FinishARound(d)
  PROVE  QueueSound(d, round[d])' /\ QueueSound(d, round[d] + 1)'
  <1>r. PICK R \in Nat : R = round[d]
    BY DEF Types
  <1>1. /\ round'[d] = R + 1 /\ sent' = sent /\ pc' # pc
        /\ R # 0 => recv[d][Parity(R)].blocks = << >>
        /\ recv'[d][Parity(R)].blocks = recv[d][Parity(R)].blocks
        /\ recv'[d][Parity(R)].producers = fnum
        /\ \A j \in 0 .. 1 : j # Parity(R) => recv'[d][j] = recv[d][j]
    BY <1>r, FinishFacts
  <1>2. ASSUME NEW v \in Workers, NEW k \in Nat PROVE Delivered(v, d, k)' <=> Delivered(v, d, k)
    <2>1. ~StartARound(d) /\ ~Receive(d, v)
      <3>1. ~StartARound(d)
        BY FinishFacts, StartFacts
      <3>2. ASSUME Receive(d, v) PROVE FALSE
        BY <1>1, <3>2, ReceiveFacts
      <3>3. QED
        BY <3>1, <3>2
    <2>2. QED
      BY <2>1, DeliveredStep
  <1>3. ASSUME NEW k \in Nat, k = R + 1 PROVE QueueSound(d, k)'
    <2>1. QueueSound(d, k) /\ Parity(k) \in 0 .. 1 /\ Parity(k) # Parity(R)
      BY <1>r, <1>3, Parities
    <2>2. recv'[d][Parity(k)] = recv[d][Parity(k)]
      BY <1>1, <2>1
    <2>3. Stuff(recv'[d][Parity(k)].blocks) \subseteq Theirs(d, k)
      BY <2>1, <2>2 DEF QueueSound
    <2>4. QED
      BY <1>1, <1>2, <2>1, <2>2, <2>3, QueueSame
  <1>4. ASSUME NEW k \in Nat, k = R + 2 PROVE QueueSound(d, k)'
    <2>1. Parity(k) = Parity(R)
      BY <1>4, Parities
    <2>2. Stuff(recv[d][Parity(R)].blocks) = {}
      <3>1. CASE R = 0
        <4>1. Stuff(recv[d][Parity(R)].blocks) \subseteq Theirs(d, R)
          BY <1>r DEF QueueSound
        <4>2. \A m \in sent : m.round \in Nat
          BY DEF Types, Mess
        <4>3. \A m \in sent : m.round + 1 # R
          BY <3>1, <4>2
        <4>4. Theirs(d, R) = {}
          BY <4>3 DEF Theirs
        <4>5. QED
          BY <4>1, <4>4
      <3>2. CASE R # 0
        BY <1>1, <3>2, EmptySet DEF Stuff
      <3>3. QED
        BY <3>1, <3>2
    <2>3. ASSUME NEW v \in Workers PROVE ~Delivered(v, d, k)
      <3>1. Tag(v) \in Nat /\ Tag(v) <= R + 1
        BY <1>r, Tags
      <3>2. QED
        BY <1>4, <3>1 DEF Delivered, Ended
    <2>4. Pending(d, k)' = Workers
      BY <1>2, <2>3 DEF Pending
    <2>5. Parity(k)' = Parity(k)
      BY DEF Parity
    <2>6. QED
      BY <1>1, <2>1, <2>2, <2>4, <2>5 DEF QueueSound, fnum
  <1>5. PICK k \in Nat, l \in Nat : k = R + 1 /\ l = R + 2
    OBVIOUS
  <1>6. QueueSound(d, k)' /\ QueueSound(d, l)'
    BY <1>3, <1>4, <1>5
  <1>7. round'[d] = k /\ round'[d] + 1 = l
    BY <1>1, <1>5
  <1>8. QED
    BY <1>6, <1>7

LEMMA QueueStep ==
  ASSUME Types, PhaseInv, \A w \in Workers : SendSound(w),
         \A v, d \in Workers : v # d => LinkSound(v, d), [Next]_vars,
         \A w \in Workers : QueueSound(w, round[w]) /\ QueueSound(w, round[w] + 1)
  PROVE  \A w \in Workers : QueueSound(w, round[w])' /\ QueueSound(w, round[w] + 1)'
  <1> SUFFICES ASSUME NEW d \in Workers
               PROVE  QueueSound(d, round[d])' /\ QueueSound(d, round[d] + 1)'
    OBVIOUS
  <1>1. CASE FinishARound(d)
    BY <1>1, QueueNext
  <1>2. CASE ~FinishARound(d)
    <2>1. PICK k \in Nat, l \in Nat : k = round[d] /\ l = round[d] + 1
      BY DEF Types
    <2>2. round'[d] = round[d]
      BY <1>2, Moves, StartFacts, SendEndsFacts
    <2>3. QueueSound(d, k)
      BY <2>1
    <2>4. QueueSound(d, k)'
      BY <1>2, <2>1, <2>3, QueueKept
    <2>5. QueueSound(d, l)
      BY <2>1
    <2>6. QueueSound(d, l)'
      BY <1>2, <2>1, <2>5, QueueKept
    <2>7. round'[d] = k /\ round'[d] + 1 = l
      BY <2>1, <2>2
    <2>8. QED
      BY <2>4, <2>6, <2>7
  <1>3. QED
    BY <1>1, <1>2

-----------------------------------------------------------------------------
(* Where the messages are *)

(* What a message is, for the places below. *)
LEMMA Places ==
  ASSUME Types, NEW m \in Mess
  PROVE  /\ m.from \in Workers /\ m.to \in Workers /\ m.round \in Nat
         /\ m.round + 1 \in Nat /\ Parity(m.round + 1) \in 0 .. 1
         /\ recv[m.to][Parity(m.round + 1)].blocks \in Seq(Block)
         /\ Parity(m.round + 1)' = Parity(m.round + 1)
  <1>1. m.from \in Workers /\ m.to \in Workers /\ m.round \in Nat
    BY DEF Mess
  <1>2. m.round + 1 \in Nat /\ Parity(m.round + 1) \in 0 .. 1
    BY <1>1, Parities
  <1>3. recv[m.to][Parity(m.round + 1)] \in [blocks : Seq(Block), producers : Int]
    BY <1>1, <1>2 DEF Types
  <1>4. Parity(m.round + 1)' = Parity(m.round + 1)
    BY DEF Parity
  <1>5. QED
    BY <1>1, <1>2, <1>3, <1>4

LEMMA LostStart ==
  ASSUME Types, NEW w \in Workers, SendSound(w), StartARound(w), NEW m \in Mess, Somewhere(m)
  PROVE  Somewhere(m)'
  <1> DEFINE p == Parity(round[w])
  <1>1. /\ pc[w] = "start" /\ channels' = channels /\ net' = net /\ round' = round
        /\ \A u \in Workers : /\ sending'[u].blocks = sending[u].blocks
                              /\ u # w => /\ pc'[u] = pc[u] /\ got'[u] = got[u]
                                          /\ recv'[u] = recv[u] /\ to_self'[u] = to_self[u]
        /\ round[w] = 0 => recv' = recv /\ to_self' = to_self
        /\ round[w] # 0 => /\ recv'[w][p].blocks = recv[w][p].blocks \o to_self[w]
                           /\ \A k \in 0 .. 1 : k # p => recv'[w][k] = recv[w][k]
    <2>1. /\ pc[w] = "start" /\ channels' = channels /\ net' = net /\ round' = round
          /\ sending'[w].blocks = sending[w].blocks
      BY StartFacts
    <2>2. \A u \in Workers : u # w => /\ pc'[u] = pc[u] /\ got'[u] = got[u]
                                      /\ sending'[u] = sending[u]
                                      /\ recv'[u] = recv[u] /\ to_self'[u] = to_self[u]
      BY StartFacts
    <2>3. /\ round[w] = 0 => recv' = recv /\ to_self' = to_self
          /\ round[w] # 0 => /\ recv'[w][p].blocks = recv[w][p].blocks \o to_self[w]
                             /\ \A k \in 0 .. 1 : k # p => recv'[w][k] = recv[w][k]
      BY StartFacts
    <2>4. QED
      BY <2>1, <2>2, <2>3
  <1>2. InChannel(m) => InChannel(m)'
    BY <1>1 DEF InChannel
  <1>3. InSending(m) => InSending(m)'
    BY <1>1, Places DEF InSending
  <1>4. OnTheWay(m) => OnTheWay(m)'
    BY <1>1 DEF OnTheWay
  <1>5. CASE m.to # w \/ round[w] = 0
    <2>1. recv'[m.to] = recv[m.to] /\ to_self'[m.to] = to_self[m.to]
      BY <1>1, <1>5, Places
    <2>2. InQueue(m) => InQueue(m)'
      BY <2>1, Places DEF InQueue
    <2>3. InToSelf(m) => InToSelf(m)'
      BY <2>1 DEF InToSelf
    <2>4. Taken(m) => Taken(m)'
      BY <1>1, Places DEF Taken
    <2>5. QED
      BY <1>2, <1>3, <1>4, <2>2, <2>3, <2>4 DEF Somewhere
  <1>6. CASE m.to = w /\ round[w] # 0
    <2> DEFINE k == Parity(m.round + 1)
    <2>1. p \in 0 .. 1 /\ recv[w][p].blocks \in Seq(Block) /\ to_self[w] \in Seq(Block)
      <3>1. p \in 0 .. 1
        BY Parities DEF Types
      <3>2. recv[w][p] \in [blocks : Seq(Block), producers : Int]
        BY <3>1 DEF Types
      <3>3. QED
        BY <3>1, <3>2 DEF Types
    <2>2. Stuff(recv'[w][p].blocks) = Stuff(recv[w][p].blocks) \cup Stuff(to_self[w])
      <3>1. recv'[w][p].blocks = recv[w][p].blocks \o to_self[w]
        BY <1>1, <1>6
      <3>2. Stuff(recv[w][p].blocks \o to_self[w])
              = Stuff(recv[w][p].blocks) \cup Stuff(to_self[w])
        BY <2>1, StuffFacts
      <3>3. QED
        BY <3>1, <3>2
    <2>3. InQueue(m) => InQueue(m)'
      <3>1. Stuff(recv[w][k].blocks) \subseteq Stuff(recv'[w][k].blocks)
        BY <1>1, <1>6, <2>2, Places
      <3>2. QED
        BY <1>6, <3>1, Places DEF InQueue
    <2>4. InToSelf(m) => InQueue(m)'
      <3>1. ASSUME InToSelf(m) PROVE m.round + 1 = round[w]
        BY <1>1, <1>6, <3>1 DEF InToSelf, SendSound, Ours, Tag
      <3>2. ASSUME InToSelf(m) PROVE m \in Stuff(recv'[w][p].blocks)
        BY <1>6, <2>2, <3>2 DEF InToSelf
      <3>3. QED
        BY <1>6, <3>1, <3>2, Places DEF InQueue
    <2>5. ~Taken(m)
      BY <1>1, <1>6 DEF Taken
    <2>6. QED
      BY <1>2, <1>3, <1>4, <2>3, <2>4, <2>5 DEF Somewhere
  <1>7. QED
    BY <1>5, <1>6

LEMMA LostPost ==
  ASSUME Types, NEW w \in Workers, Sends(w), NEW m \in Mess, m \in sent => Somewhere(m), m \in sent'
  PROVE  Somewhere(m)'
  <1>1. PICK c \in Channels, d \in Workers, y \in Mess : Posted(w, c, d, y)
    BY PostFacts
  <1> DEFINE b == Append(channels[w][c][d], y)
             qs == sending[w].blocks
  <1>2. /\ y.from = w /\ y.to = d /\ sent' = sent \cup {y} /\ b \in Block
        /\ ToSet(b) = ToSet(channels[w][c][d]) \cup {y}
        /\ \/ sending'[w].blocks = Append(qs, <<d, b>>)
           \/ channels'[w][c][d] = b /\ sending'[w].blocks = qs
        /\ \A a \in Channels, e \in Workers : a # c \/ e # d =>
             channels'[w][a][e] = channels[w][a][e]
        /\ \A u \in Workers : u # w =>
             channels'[u] = channels[u] /\ sending'[u] = sending[u]
        /\ UNCHANGED <<pc, round, to_self, recv, net, got>>
    BY <1>1 DEF Posted
  <1>3. qs \in Seq(Workers \X Block)
    BY DEF Types
  <1> HIDE DEF b, qs
  <1>o. ASSUME NEW e \in Workers
        PROVE  Outgoing(Append(qs, <<d, b>>), e)
                 = Outgoing(qs, e) \cup (IF d = e THEN ToSet(b) ELSE {})
    <2>1. b \in Block
      BY <1>2
    <2>2. QED
      BY <1>3, <2>1, OutgoingFacts
  <1>4. ASSUME NEW e \in Workers
        PROVE  Outgoing(qs, e) \subseteq Outgoing(sending'[w].blocks, e)
    BY <1>2, <1>o
  <1>5. CASE m.from = w /\ m.to = d /\ m \in ToSet(b)
    <2>1. CASE sending'[w].blocks = Append(qs, <<d, b>>)
      <3>1. ToSet(b) \subseteq Outgoing(Append(qs, <<d, b>>), d)
        BY <1>o
      <3>2. InSending(m)'
        BY <1>5, <2>1, <3>1 DEF InSending
      <3>3. QED
        BY <3>2 DEF Somewhere
    <2>2. CASE channels'[w][c][d] = b
      BY <1>5, <2>2 DEF InChannel, Somewhere
    <2>3. QED
      BY <1>2, <2>1, <2>2
  <1>6. CASE ~(m.from = w /\ m.to = d /\ m \in ToSet(b))
    <2>1. Somewhere(m)
      BY <1>2, <1>6
    <2>2. InChannel(m) => InChannel(m)'
      <3>1. SUFFICES ASSUME NEW a \in Channels, m \in ToSet(channels[m.from][a][m.to])
                     PROVE  m \in ToSet(channels'[m.from][a][m.to])
        BY DEF InChannel
      <3>2. channels'[m.from][a][m.to] = channels[m.from][a][m.to]
        BY <1>2, <1>6, <3>1, Places
      <3>3. QED
        BY <3>1, <3>2
    <2>3. InSending(m) => InSending(m)'
      BY <1>2, <1>4, Places DEF InSending, qs
    <2>4. /\ OnTheWay(m) => OnTheWay(m)'
          /\ InToSelf(m) => InToSelf(m)'
          /\ Taken(m) => Taken(m)'
      BY <1>2 DEF OnTheWay, InToSelf, Taken
    <2>5. InQueue(m) => InQueue(m)'
      BY <1>2, Places DEF InQueue
    <2>6. QED
      BY <2>1, <2>2, <2>3, <2>4, <2>5 DEF Somewhere
  <1>7. QED
    BY <1>5, <1>6

LEMMA LostTake ==
  ASSUME Types, NEW w \in Workers, QueueSound(w, round[w]), Takes(w), NEW m \in Mess, Somewhere(m)
  PROVE  Somewhere(m)'
  <1> DEFINE p == Parity(round[w])
             q == recv[w][p].blocks
             k == Parity(m.round + 1)
  <1>1. /\ pc[w] \in {"eval", "drain"} /\ q \in Seq(Block) /\ q # << >>
        /\ got'[w] = got[w] \cup ToSet(Head(q)) /\ recv'[w][p].blocks = Tail(q)
        /\ \A j \in 0 .. 1 : j # p => recv'[w][j] = recv[w][j]
        /\ \A u \in Workers : u # w => got'[u] = got[u] /\ recv'[u] = recv[u]
        /\ UNCHANGED <<pc, round, channels, sending, to_self, net, sent>>
    BY TakeFacts
  <1>2. Stuff(q) = Stuff(Tail(q)) \cup ToSet(Head(q)) /\ Stuff(q) \subseteq Theirs(w, round[w])
    BY <1>1, StuffFacts DEF QueueSound
  <1> HIDE DEF p, q
  <1>3. /\ InChannel(m) => InChannel(m)'
        /\ InSending(m) => InSending(m)'
        /\ OnTheWay(m) => OnTheWay(m)'
        /\ InToSelf(m) => InToSelf(m)'
    BY <1>1 DEF InChannel, InSending, OnTheWay, InToSelf
  <1>4. Taken(m) => Taken(m)'
    BY <1>1, Places DEF Taken
  <1>5. CASE m.to = w /\ k = p
    <2>1. InQueue(m) => m \in Stuff(q)
      BY <1>5 DEF InQueue, q
    <2>2. m \in Stuff(Tail(q)) => InQueue(m)'
      BY <1>1, <1>5, Places DEF InQueue
    <2>3. m \in ToSet(Head(q)) => Taken(m)'
      <3>1. ASSUME m \in ToSet(Head(q)) PROVE m.round + 1 = round[w]
        BY <1>2, <3>1 DEF Theirs
      <3>2. QED
        BY <1>1, <1>5, <3>1 DEF Taken
    <2>4. QED
      BY <1>2, <1>3, <1>4, <2>1, <2>2, <2>3 DEF Somewhere
  <1>6. CASE m.to # w \/ k # p
    <2>1. recv'[m.to][k] = recv[m.to][k]
      BY <1>1, <1>6, Places
    <2>2. InQueue(m) => InQueue(m)'
      BY <2>1, Places DEF InQueue
    <2>3. QED
      BY <1>3, <1>4, <2>2 DEF Somewhere
  <1>7. QED
    BY <1>5, <1>6

LEMMA LostFill ==
  ASSUME Types, NEW w \in Workers, FinishMsgFilling(w), NEW m \in Mess, Somewhere(m)
  PROVE  Somewhere(m)'
  <1> DEFINE qs == sending[w].blocks
  <1>1. /\ pc[w] = "eval" /\ pc'[w] = "drain"
        /\ sending'[w].blocks = qs \o LeftBlocks(w)
        /\ \A u \in Workers : u # w =>
             pc'[u] = pc[u] /\ sending'[u] = sending[u] /\ channels'[u] = channels[u]
        /\ UNCHANGED <<round, to_self, recv, net, got>>
    BY FillFacts
  <1>2. qs \in Seq(Workers \X Block) /\ LeftBlocks(w) \in Seq(Workers \X Block)
    BY LeftBlocksFacts DEF Types
  <1> HIDE DEF qs
  <1>3. ASSUME NEW e \in Workers
        PROVE  Outgoing(sending'[w].blocks, e) = Outgoing(qs, e) \cup Outgoing(LeftBlocks(w), e)
    <2>1. ToSet(qs \o LeftBlocks(w)) = ToSet(qs) \cup ToSet(LeftBlocks(w))
      BY <1>2, ConcatSet
    <2>2. Outgoing(qs \o LeftBlocks(w), e) = Outgoing(qs, e) \cup Outgoing(LeftBlocks(w), e)
      BY <2>1 DEF Outgoing
    <2>3. QED
      BY <1>1, <2>2
  <1>4. InChannel(m) => InChannel(m)' \/ InSending(m)'
    <2>1. SUFFICES ASSUME NEW c \in Channels, m \in ToSet(channels[m.from][c][m.to])
                   PROVE  InChannel(m)' \/ InSending(m)'
      BY DEF InChannel
    <2>2. CASE m.from # w
      <3>1. channels'[m.from] = channels[m.from]
        BY <1>1, <2>2, Places
      <3>2. QED
        BY <2>1, <3>1 DEF InChannel
    <2>3. CASE m.from = w
      <3> DEFINE x == <<m.to, channels[w][c][m.to]>>
      <3>1. <<c, m.to>> \in Filled(w)
        BY <2>1, <2>3, Places, EmptySet DEF Filled
      <3>2. x \in ToSet(LeftBlocks(w))
        <4>1. ToSet(LeftBlocks(w)) = {<<cd[2], channels[w][cd[1]][cd[2]]>> : cd \in Filled(w)}
          BY LeftBlocksFacts
        <4>2. <<c, m.to>>[1] = c /\ <<c, m.to>>[2] = m.to
          OBVIOUS
        <4>3. QED
          BY <3>1, <4>1, <4>2
      <3>3. x[1] = m.to /\ m \in ToSet(x[2])
        BY <2>1, <2>3
      <3> HIDE DEF x
      <3>4. m \in Outgoing(LeftBlocks(w), m.to)
        BY <3>2, <3>3 DEF Outgoing
      <3>5. QED
        BY <1>3, <2>3, <3>4, Places DEF InSending
    <2>4. QED
      BY <2>2, <2>3
  <1>5. InSending(m) => InSending(m)'
    <2>1. CASE m.from = w
      BY <1>3, <2>1, Places DEF InSending, qs
    <2>2. CASE m.from # w
      BY <1>1, <2>2, Places DEF InSending
    <2>3. QED
      BY <2>1, <2>2
  <1>6. /\ OnTheWay(m) => OnTheWay(m)'
        /\ InToSelf(m) => InToSelf(m)'
    BY <1>1 DEF OnTheWay, InToSelf
  <1>7. InQueue(m) => InQueue(m)'
    BY <1>1, Places DEF InQueue
  <1>8. Taken(m) => Taken(m)'
    BY <1>1, Places DEF Taken
  <1>9. QED
    BY <1>4, <1>5, <1>6, <1>7, <1>8 DEF Somewhere

LEMMA LostFinish ==
  ASSUME Types, NEW w \in Workers, FinishARound(w), NEW m \in Mess, Somewhere(m),
         round'[m.to] <= m.round + 1
  PROVE  Somewhere(m)'
  <1> DEFINE p == Parity(round[w])
  <1>1. /\ round'[w] = round[w] + 1 /\ recv'[w][p].blocks = recv[w][p].blocks
        /\ \A j \in 0 .. 1 : j # p => recv'[w][j] = recv[w][j]
        /\ \A u \in Workers : u # w => /\ pc'[u] = pc[u] /\ round'[u] = round[u]
                                       /\ recv'[u] = recv[u]
        /\ UNCHANGED <<channels, sending, to_self, net, got>>
    BY FinishFacts
  <1>2. /\ InChannel(m) => InChannel(m)'
        /\ InSending(m) => InSending(m)'
        /\ OnTheWay(m) => OnTheWay(m)'
        /\ InToSelf(m) => InToSelf(m)'
    BY <1>1 DEF InChannel, InSending, OnTheWay, InToSelf
  <1>3. InQueue(m) => InQueue(m)'
    <2>1. recv'[m.to][Parity(m.round + 1)].blocks = recv[m.to][Parity(m.round + 1)].blocks
      BY <1>1, Places
    <2>2. QED
      BY <2>1, Places DEF InQueue
  <1>4. Taken(m) => Taken(m)'
    <2>1. CASE m.to = w
      <3>1. round[w] \in Nat /\ round[w] + 1 <= m.round + 1
        BY <1>1, <2>1 DEF Types
      <3>2. ~Taken(m)
        BY <2>1, <3>1, Places DEF Taken
      <3>3. QED
        BY <3>2
    <2>2. CASE m.to # w
      BY <1>1, <2>2, Places DEF Taken
    <2>3. QED
      BY <2>1, <2>2
  <1>5. QED
    BY <1>2, <1>3, <1>4 DEF Somewhere

LEMMA LostIdle ==
  ASSUME Types, NEW w \in Workers, Idles(w), NEW m \in Mess, Somewhere(m)
  PROVE  Somewhere(m)'
  <1>1. /\ \A u \in Workers : pc[u] \in {"eval", "drain"} => pc'[u] = pc[u]
        /\ \A v, d \in Workers : v # d => net'[v][d] = net[v][d]
        /\ UNCHANGED <<round, channels, sending, to_self, recv, got>>
    <2>1. /\ \A u \in Workers : u # w => pc'[u] = pc[u]
          /\ pc' = pc \/ pc[w] = "vote" \/ pc[w] \in Finals
      BY IdleFacts
    <2>2. \A u \in Workers : pc[u] \in {"eval", "drain"} => pc'[u] = pc[u]
      BY <2>1 DEF Finals
    <2>3. QED
      BY <2>2, IdleFacts
  <1>2. OnTheWay(m) => OnTheWay(m)'
    BY <1>1, Places DEF OnTheWay
  <1>3. /\ InChannel(m) => InChannel(m)'
        /\ InSending(m) => InSending(m)'
        /\ InToSelf(m) => InToSelf(m)'
    BY <1>1 DEF InChannel, InSending, InToSelf
  <1>4. InQueue(m) => InQueue(m)'
    BY <1>1, Places DEF InQueue
  <1>5. Taken(m) => Taken(m)'
    BY <1>1, Places DEF Taken
  <1>6. QED
    BY <1>2, <1>3, <1>4, <1>5 DEF Somewhere

LEMMA LostSendBlock ==
  ASSUME Types, NEW w \in Workers, SendSound(w), Tag(w) \in Nat, SendBlock(w),
         NEW m \in Mess, Somewhere(m)
  PROVE  Somewhere(m)'
  <1>1. PICK e \in Workers, b \in Block : Moved(w, e, b)
    BY SendBlockFacts
  <1>t. PICK t \in Nat : t = Tag(w)
    OBVIOUS
  <1> DEFINE qs == sending[w].blocks
             y == [tag |-> t, block |-> b]
  <1>2. /\ qs \in Seq(Workers \X Block) /\ qs # << >> /\ Head(qs) = <<e, b>>
        /\ sending'[w].blocks = Tail(qs)
        /\ \A u \in Workers : u # w => sending'[u] = sending[u]
        /\ \A u \in Workers : to_self'[u] = IF u = w /\ e = w THEN Append(to_self[u], b)
                                                              ELSE to_self[u]
        /\ \A v, d \in Workers : net'[v][d] =
             IF v = w /\ d = e /\ e # w THEN Append(net[v][d], y) ELSE net[v][d]
        /\ UNCHANGED <<pc, round, channels, recv, got>>
    BY <1>1, <1>t DEF Moved, Types
  <1>3. y \in Packet /\ y.tag = t /\ y.block = b
    BY <1>t DEF Packet
  <1> HIDE DEF qs, y
  <1>4. ToSet(b) \subseteq Ours(w, e, t)
    <2>1. <<e, b>> \in ToSet(qs) /\ <<e, b>>[1] = e /\ <<e, b>>[2] = b
      BY <1>2, TailSet
    <2>2. QED
      BY <1>t, <2>1 DEF SendSound, qs
  <1>5. ASSUME NEW d \in Workers
        PROVE  Outgoing(qs, d) = Outgoing(Tail(qs), d) \cup (IF e = d THEN ToSet(b) ELSE {})
    <2>1. Outgoing(qs, d) = Outgoing(Tail(qs), d)
                              \cup (IF Head(qs)[1] = d THEN ToSet(Head(qs)[2]) ELSE {})
      BY <1>2, OutgoingFacts
    <2>2. Head(qs)[1] = e /\ Head(qs)[2] = b
      BY <1>2
    <2>3. QED
      BY <2>1, <2>2
  <1>6. ASSUME m.from = w, m.to = e, m \in ToSet(b) PROVE OnTheWay(m)' \/ InToSelf(m)'
    <2>1. m.round + 1 = t
      BY <1>4, <1>6 DEF Ours
    <2>2. CASE e = w
      <3>1. to_self'[w] = Append(to_self[w], b) /\ to_self[w] \in Seq(Block)
        BY <1>2, <2>2 DEF Types
      <3>2. Stuff(Append(to_self[w], b)) = Stuff(to_self[w]) \cup ToSet(b)
        BY <3>1, StuffFacts
      <3>3. QED
        BY <1>6, <2>2, <3>1, <3>2 DEF InToSelf
    <2>3. CASE e # w
      <3>1. net'[w][e] = Append(net[w][e], y) /\ net[w][e] \in Seq(Packet)
        BY <1>2, <2>3 DEF Types
      <3>2. y \in ToSet(net'[w][e])
        BY <1>3, <3>1, AppendSet
      <3>3. m \in InNet(net'[w][e], t)
        BY <1>3, <1>6, <3>2 DEF InNet
      <3>4. QED
        BY <1>6, <2>1, <2>3, <3>3 DEF OnTheWay
    <2>4. QED
      BY <2>2, <2>3
  <1>7. InSending(m) => InSending(m)' \/ OnTheWay(m)' \/ InToSelf(m)'
    <2>1. CASE m.from # w
      BY <1>2, <2>1, Places DEF InSending
    <2>2. CASE m.from = w
      <3>1. Outgoing(qs, m.to)
              = Outgoing(Tail(qs), m.to) \cup (IF e = m.to THEN ToSet(b) ELSE {})
        BY <1>5, Places
      <3>2. InSending(m) => m \in Outgoing(Tail(qs), m.to) \/ (e = m.to /\ m \in ToSet(b))
        BY <2>2, <3>1 DEF InSending, qs
      <3>3. m \in Outgoing(Tail(qs), m.to) => InSending(m)'
        BY <1>2, <2>2 DEF InSending
      <3>4. QED
        BY <1>6, <2>2, <3>2, <3>3
    <2>3. QED
      BY <2>1, <2>2
  <1>8. OnTheWay(m) => OnTheWay(m)'
    <2>1. SUFFICES ASSUME OnTheWay(m)
                   PROVE  m \in InNet(net'[m.from][m.to], m.round + 1)
      BY DEF OnTheWay
    <2>2. net[m.from][m.to] \in Seq(Packet) /\ m.from \in Workers /\ m.to \in Workers
      BY <2>1, Places DEF OnTheWay, Types
    <2>3. ToSet(net[m.from][m.to]) \subseteq ToSet(net'[m.from][m.to])
      <3>1. ToSet(Append(net[m.from][m.to], y)) = ToSet(net[m.from][m.to]) \cup {y}
        BY <1>3, <2>2, AppendSet
      <3>2. \/ net'[m.from][m.to] = net[m.from][m.to]
            \/ net'[m.from][m.to] = Append(net[m.from][m.to], y)
        BY <1>2, <2>2
      <3>3. QED
        BY <3>1, <3>2
    <2>4. QED
      BY <2>1, <2>3 DEF OnTheWay, InNet
  <1>9. InToSelf(m) => InToSelf(m)'
    <2>1. to_self[m.to] \in Seq(Block)
      BY Places DEF Types
    <2>2. Stuff(Append(to_self[m.to], b)) = Stuff(to_self[m.to]) \cup ToSet(b)
      BY <2>1, StuffFacts
    <2>3. \/ to_self'[m.to] = to_self[m.to]
          \/ to_self'[m.to] = Append(to_self[m.to], b)
      BY <1>2, Places
    <2>4. QED
      BY <2>2, <2>3 DEF InToSelf
  <1>10. /\ InChannel(m) => InChannel(m)'
         /\ Taken(m) => Taken(m)'
    BY <1>2 DEF InChannel, Taken
  <1>11. InQueue(m) => InQueue(m)'
    BY <1>2, Places DEF InQueue
  <1>12. QED
    BY <1>7, <1>8, <1>9, <1>10, <1>11 DEF Somewhere

LEMMA LostSendEnds ==
  ASSUME Types, NEW w \in Workers, Tag(w) \in Nat, SendEnds(w), NEW m \in Mess, Somewhere(m)
  PROVE  Somewhere(m)'
  <1>t. PICK y : y = [tag |-> Tag(w), block |-> EndOfRound]
    OBVIOUS
  <1>1. y \in Packet /\ UNCHANGED <<pc, round, channels, sending, to_self, recv, got>>
    <2>1. EndOfRound \in Block
      BY DEF EndOfRound, Block
    <2>2. y \in Packet
      BY <1>t, <2>1 DEF Packet
    <2>3. QED
      BY <2>2, SendEndsFacts
  <1>2. \A v, e \in Workers : net'[v][e] = IF v = w /\ e # w THEN Append(net[v][e], y)
                                                              ELSE net[v][e]
    <2>1. \A v, e \in Workers : net'[v][e] =
            IF v = w /\ e # w THEN Append(net[v][e], [tag |-> Tag(w), block |-> EndOfRound])
                              ELSE net[v][e]
      BY SendEndsFacts
    <2>2. QED
      BY <1>t, <2>1
  <1>3. OnTheWay(m) => OnTheWay(m)'
    <2>1. SUFFICES ASSUME OnTheWay(m)
                   PROVE  m \in InNet(net'[m.from][m.to], m.round + 1)
      BY DEF OnTheWay
    <2>2. net[m.from][m.to] \in Seq(Packet) /\ m.from \in Workers /\ m.to \in Workers
      BY <2>1, Places DEF OnTheWay, Types
    <2>3. ToSet(Append(net[m.from][m.to], y)) = ToSet(net[m.from][m.to]) \cup {y}
      BY <1>1, <2>2, AppendSet
    <2>4. \/ net'[m.from][m.to] = net[m.from][m.to]
          \/ net'[m.from][m.to] = Append(net[m.from][m.to], y)
      BY <1>2, <2>2
    <2>5. QED
      BY <2>1, <2>3, <2>4 DEF OnTheWay, InNet
  <1>4. /\ InChannel(m) => InChannel(m)'
        /\ InSending(m) => InSending(m)'
        /\ InToSelf(m) => InToSelf(m)'
        /\ Taken(m) => Taken(m)'
    BY <1>1 DEF InChannel, InSending, InToSelf, Taken
  <1>5. InQueue(m) => InQueue(m)'
    BY <1>1, Places DEF InQueue
  <1>6. QED
    BY <1>3, <1>4, <1>5 DEF Somewhere

LEMMA LostReceive ==
  ASSUME Types, NEW w \in Workers, NEW u \in Workers, Receive(w, u), NEW m \in Mess, Somewhere(m)
  PROVE  Somewhere(m)'
  <1>x. PICK x : x = Head(net[u][w])
    OBVIOUS
  <1> DEFINE p == Parity(x.tag)
             k == Parity(m.round + 1)
  <1>1. /\ u # w /\ net[u][w] \in Seq(Packet) /\ net[u][w] # << >>
        /\ x \in Packet /\ p \in 0 .. 1
        /\ x.block = EndOfRound => recv'[w][p].blocks = recv[w][p].blocks
        /\ x.block # EndOfRound => recv'[w][p].blocks = Append(recv[w][p].blocks, x.block)
        /\ \A j \in 0 .. 1 : j # p => recv'[w][j] = recv[w][j]
        /\ \A a \in Workers : a # w => recv'[a] = recv[a]
        /\ UNCHANGED <<pc, round, channels, sending, to_self, sent, got>>
    BY <1>x, ReceiveFacts
  <1>2. \A a, e \in Workers : net'[a][e] = IF a = u /\ e = w THEN Tail(net[a][e]) ELSE net[a][e]
    BY ReceiveNet
  <1> HIDE DEF p
  <1>3. recv[w][p].blocks \in Seq(Block) /\ x.block \in Block
    <2>1. p \in 0 .. 1 /\ x \in Packet
      BY <1>1
    <2>2. recv[w][p] \in [blocks : Seq(Block), producers : Int]
      BY <2>1 DEF Types
    <2>3. QED
      BY <2>1, <2>2 DEF Packet
  <1>4. Stuff(recv'[w][p].blocks) = Stuff(recv[w][p].blocks) \cup ToSet(x.block)
    <2>1. Stuff(Append(recv[w][p].blocks, x.block)) = Stuff(recv[w][p].blocks) \cup ToSet(x.block)
      BY <1>3, StuffFacts
    <2>2. CASE x.block = EndOfRound
      BY <1>1, <2>2, EmptySet DEF EndOfRound
    <2>3. CASE x.block # EndOfRound
      BY <1>1, <2>1, <2>3
    <2>4. QED
      BY <2>2, <2>3
  <1>5. InQueue(m) => InQueue(m)'
    <2>1. CASE m.to = w /\ k = p
      BY <1>4, <2>1, Places DEF InQueue
    <2>2. CASE m.to # w \/ k # p
      <3>1. recv'[m.to][k] = recv[m.to][k]
        BY <1>1, <2>2, Places
      <3>2. QED
        BY <3>1, Places DEF InQueue
    <2>3. QED
      BY <2>1, <2>2
  <1>6. OnTheWay(m) => OnTheWay(m)' \/ InQueue(m)'
    <2>1. CASE m.from = u /\ m.to = w
      <3>1. InNet(net[u][w], m.round + 1) = InNet(Tail(net[u][w]), m.round + 1)
              \cup (IF x.tag = m.round + 1 THEN ToSet(x.block) ELSE {})
        BY <1>1, <1>x, Places, InNetFacts
      <3>2. net'[u][w] = Tail(net[u][w])
        BY <1>2
      <3>3. m \in ToSet(x.block) /\ x.tag = m.round + 1 => InQueue(m)'
        BY <1>4, <2>1, Places DEF InQueue, p
      <3>4. QED
        BY <2>1, <3>1, <3>2, <3>3 DEF OnTheWay
    <2>2. CASE ~(m.from = u /\ m.to = w)
      <3>1. net'[m.from][m.to] = net[m.from][m.to]
        BY <1>2, <2>2, Places
      <3>2. QED
        BY <3>1 DEF OnTheWay
    <2>3. QED
      BY <2>1, <2>2
  <1>7. /\ InChannel(m) => InChannel(m)'
        /\ InSending(m) => InSending(m)'
        /\ InToSelf(m) => InToSelf(m)'
        /\ Taken(m) => Taken(m)'
    BY <1>1 DEF InChannel, InSending, InToSelf, Taken
  <1>8. QED
    BY <1>5, <1>6, <1>7 DEF Somewhere

LEMMA LostStep ==
  ASSUME Types, PhaseInv, NoneLost, [Next]_vars,
         \A w \in Workers : SendSound(w) /\ QueueSound(w, round[w])
  PROVE  NoneLost'
  <1> SUFFICES ASSUME NEW m \in sent'
               PROVE  /\ m.round + 1 <= Tag(m.from)'
                      /\ round'[m.to] <= m.round + 1 => Somewhere(m)'
    BY DEF NoneLost
  <1>0. Types' /\ \A w \in Workers : Tag(w) \in Nat /\ Tag(w)' \in Nat /\ Tag(w) <= Tag(w)'
    BY TypesStep, Tags, TagStep
  <1>1. m \in Mess
    BY <1>0 DEF Types
  <1>2. /\ m.from \in Workers /\ m.to \in Workers /\ m.round \in Nat
        /\ round[m.to] \in Nat /\ round'[m.to] \in Nat /\ round[m.to] <= round'[m.to]
    <2>1. m.from \in Workers /\ m.to \in Workers /\ m.round \in Nat
      BY <1>1, Places
    <2>2. round[m.to] \in Nat
      BY <2>1 DEF Types
    <2>3. round'[m.to] = round[m.to] \/ round'[m.to] = round[m.to] + 1
      BY <2>1, Moves, StartFacts, SendEndsFacts, FinishFacts
    <2>4. QED
      BY <2>1, <2>2, <2>3
  <1>3. ASSUME NEW w \in Workers, Sends(w)
        PROVE  /\ m.round + 1 <= Tag(m.from)'
               /\ round'[m.to] <= m.round + 1 => Somewhere(m)'
    <2>1. PICK c \in Channels, d \in Workers, y \in Mess : Posted(w, c, d, y)
      BY <1>3, PostFacts
    <2>2. /\ pc[w] = "eval" /\ y.from = w /\ y.round = round[w]
          /\ sent' = sent \cup {y} /\ round' = round /\ pc' = pc
      BY <2>1 DEF Posted
    <2>3. CASE m \in sent
      <3>1. m.round + 1 <= Tag(m.from) /\ (round[m.to] <= m.round + 1 => Somewhere(m))
        BY <2>3 DEF NoneLost
      <3>2. round'[m.to] <= m.round + 1 => Somewhere(m)'
        BY <1>1, <1>3, <2>2, <3>1, LostPost
      <3>3. QED
        BY <1>0, <1>2, <3>1, <3>2
    <2>4. CASE m \notin sent
      <3>1. m = y
        BY <2>2, <2>4
      <3>2. Tag(w)' = round[w] + 1
        BY <2>2 DEF Tag
      <3>3. m.round + 1 <= Tag(m.from)'
        BY <1>0, <2>2, <3>1, <3>2
      <3>4. Somewhere(m)'
        BY <1>1, <1>3, <2>4, LostPost
      <3>5. QED
        BY <3>3, <3>4
    <2>5. QED
      BY <2>3, <2>4
  <1>4. ASSUME m \in sent, round'[m.to] <= m.round + 1 /\ Somewhere(m) => Somewhere(m)'
        PROVE  /\ m.round + 1 <= Tag(m.from)'
               /\ round'[m.to] <= m.round + 1 => Somewhere(m)'
    <2>1. m.round + 1 <= Tag(m.from) /\ (round[m.to] <= m.round + 1 => Somewhere(m))
      BY <1>4 DEF NoneLost
    <2>2. QED
      BY <1>0, <1>2, <1>4, <2>1
  <1>5. ASSUME NEW w \in Workers,
               \/ StartARound(w) \/ Takes(w) \/ FinishMsgFilling(w)
               \/ FinishARound(w) \/ Idles(w)
        PROVE  sent' = sent
    <2>1. StartARound(w) => sent' = sent
      BY StartFacts
    <2>2. Takes(w) => sent' = sent
      BY TakeFacts
    <2>3. FinishARound(w) => sent' = sent
      BY FinishFacts
    <2>4. QED
      BY <1>5, <2>1, <2>2, <2>3, FillFacts, IdleFacts
  <1>6. ASSUME NEW w \in Workers, SendBlock(w) PROVE sent' = sent
    BY <1>6, SendBlockFacts DEF Moved
  <1>7. ASSUME NEW w \in Workers, NEW u \in Workers, SendEnds(w) \/ Receive(w, u) PROVE sent' = sent
    <2>1. SendEnds(w) => sent' = sent
      BY SendEndsFacts
    <2>2. Receive(w, u) => sent' = sent
      BY ReceiveFacts
    <2>3. QED
      BY <1>7, <2>1, <2>2
  <1>8. ASSUME NEW w \in Workers, Somewhere(m), round'[m.to] <= m.round + 1,
               \/ StartARound(w) \/ Takes(w) \/ FinishMsgFilling(w)
               \/ FinishARound(w) \/ Idles(w) \/ SendBlock(w) \/ SendEnds(w)
        PROVE  Somewhere(m)'
    BY <1>0, <1>1, <1>8, LostStart, LostTake, LostFill, LostFinish, LostIdle,
       LostSendBlock, LostSendEnds
  <1>9. ASSUME NEW w \in Workers, NEW u \in Workers, Somewhere(m), Receive(w, u)
        PROVE  Somewhere(m)'
    BY <1>1, <1>9, LostReceive
  <1>10. CASE UNCHANGED vars
    <2>1. sent' = sent
      BY <1>10 DEF vars
    <2>2. Somewhere(m)' <=> Somewhere(m)
      BY <1>10 DEF vars, manager, Somewhere, InChannel, InSending, OnTheWay, InToSelf,
                   InQueue, Taken, Outgoing, InNet, Stuff, Parity
    <2>3. QED
      BY <1>4, <2>1, <2>2
  <1>11. QED
    BY <1>3, <1>4, <1>5, <1>6, <1>7, <1>8, <1>9, <1>10, Steps

-----------------------------------------------------------------------------
(* What a round sees *)

(* When a worker finishes a round, it has taken all that was sent to it for *)
(* that round: no other place can still hold any of it.                     *)
LEMMA AllTaken ==
  ASSUME Types, PhaseInv, \A w \in Workers : SendSound(w), NEW d \in Workers,
         \A v \in Workers : v # d => LinkSound(v, d), QueueSound(d, round[d]),
         FinishARound(d), round[d] # 0, NEW m \in Theirs(d, round[d]), Somewhere(m)
  PROVE  m \in got[d]
  <1>k. PICK k \in Nat : k = round[d]
    BY DEF Types
  <1>v. PICK v : v = m.from
    OBVIOUS
  <1>1. /\ m \in Mess /\ m.to = d /\ m.round + 1 = k /\ v \in Workers
        /\ pc[d] = "drain" /\ recv[d][Parity(k)].blocks = << >>
    <2>1. m \in Mess /\ m.to = d /\ m.round + 1 = k
      BY <1>k DEF Theirs, Types
    <2>2. pc[d] = "drain" /\ recv[d][Parity(k)].blocks = << >>
      BY <1>k, FinishFacts
    <2>3. v \in Workers
      BY <1>v, <2>1, Places
    <2>4. QED
      BY <2>1, <2>2, <2>3
  <1>2. Delivered(v, d, k)
    BY <1>1, <1>k, AllDelivered
  <1>3. Tag(d) = k + 1 /\ k + 1 # k
    BY <1>1, <1>k DEF Tag
  <1>4. ASSUME Tag(v) = k PROVE v # d /\ sender[v] = "ended" /\ pc[v] # "eval" /\ sending[v].blocks = << >>
    <2>1. v # d
      BY <1>3, <1>4
    <2>2. sender[v] = "ended"
      BY <1>2, <1>4, <2>1 DEF Delivered, Ended
    <2>3. QED
      BY <1>1, <2>1, <2>2 DEF PhaseInv, MainSound
  <1>5. ~InChannel(m)
    <2>1. SUFFICES ASSUME NEW c \in Channels, m \in ToSet(channels[v][c][d]) PROVE FALSE
      BY <1>1, <1>v DEF InChannel
    <2>2. m \in Ours(v, d, Tag(v))
      BY <1>1, <2>1 DEF SendSound
    <2>3. Tag(v) = k
      BY <1>1, <2>2 DEF Ours
    <2>4. channels[v][c][d] = << >>
      BY <1>1, <1>4, <2>3 DEF SendSound
    <2>5. QED
      BY <2>1, <2>4, EmptySet
  <1>6. ~InSending(m)
    <2>1. SUFFICES ASSUME m \in Outgoing(sending[v].blocks, d) PROVE FALSE
      BY <1>1, <1>v DEF InSending
    <2>2. PICK x \in ToSet(sending[v].blocks) : x[1] = d /\ m \in ToSet(x[2])
      BY <2>1 DEF Outgoing
    <2>3. m \in Ours(v, d, Tag(v))
      BY <1>1, <2>2 DEF SendSound
    <2>4. Tag(v) = k
      BY <1>1, <2>3 DEF Ours
    <2>5. sending[v].blocks = << >>
      BY <1>4, <2>4
    <2>6. QED
      BY <2>2, <2>5, EmptySet
  <1>7. ~OnTheWay(m)
    <2>1. SUFFICES ASSUME v # d, m \in InNet(net[v][d], k) PROVE FALSE
      BY <1>1, <1>v DEF OnTheWay
    <2>2. PICK x \in ToSet(net[v][d]) : x.tag = k
      BY <2>1 DEF InNet
    <2>3. Ended(v, k) /\ [tag |-> k, block |-> EndOfRound] \notin ToSet(net[v][d])
      BY <1>2, <2>1 DEF Delivered
    <2>4. QED
      BY <1>1, <2>1, <2>2, <2>3 DEF LinkSound
  <1>8. ~InToSelf(m)
    <2>1. ASSUME m \in Stuff(to_self[d]) PROVE FALSE
      <3>1. m \in Ours(d, d, Tag(d))
        BY <2>1 DEF SendSound
      <3>2. QED
        BY <1>1, <1>3, <3>1 DEF Ours
    <2>2. QED
      BY <1>1, <2>1 DEF InToSelf
  <1>9. ~InQueue(m)
    BY <1>1, EmptySet DEF InQueue, Stuff
  <1>10. QED
    BY <1>1, <1>5, <1>6, <1>7, <1>8, <1>9 DEF Somewhere, Taken

LEMMA GotFinish ==
  ASSUME Types, PhaseInv, NoneLost, \A w \in Workers : SendSound(w), NEW d \in Workers,
         \A v \in Workers : v # d => LinkSound(v, d), QueueSound(d, round[d]),
         GotSound(d), FinishARound(d)
  PROVE  GotSound(d)'
  <1>k. PICK k \in Nat : k = round[d]
    BY DEF Types
  <1>1. /\ pc[d] = "drain" /\ pc'[d] = "vote" /\ round'[d] = k + 1
        /\ sent' = sent /\ got' = got
    BY <1>k, FinishFacts
  <1>2. got[d] \subseteq Theirs(d, k)
    BY <1>1, <1>k DEF GotSound
  <1>3. ASSUME NEW m \in Theirs(d, k) PROVE m \in got[d]
    <2>1. m \in sent /\ m.to = d /\ m.round + 1 = k /\ m.round \in Nat
      BY DEF Theirs, Types, Mess
    <2>2. k # 0
      BY <2>1
    <2>3. Somewhere(m)
      BY <1>k, <2>1 DEF NoneLost
    <2>4. QED
      BY <1>3, <1>k, <2>2, <2>3, AllTaken
  <1>4. got'[d] = Theirs(d, k)'
    BY <1>1, <1>2, <1>3 DEF Theirs
  <1>5. round'[d] - 1 = k
    BY <1>1
  <1>6. QED
    BY <1>1, <1>4, <1>5 DEF GotSound, Theirs

(* What was sent for a round that is over is settled. *)
LEMMA TheirsSettled ==
  ASSUME Types, PhaseInv, NEW w \in Workers, NEW c \in Channels, NEW e \in Workers,
         NEW y \in Mess, Posted(w, c, e, y), NEW d \in Workers,
         pc[d] \in {"vote"} \cup Finals
  PROVE  Theirs(d, round[d] - 1)' = Theirs(d, round[d] - 1)
  <1>1. y.round = round[w] /\ sent' = sent \cup {y} /\ round' = round
    BY DEF Posted
  <1>2. round[w] \in Nat /\ round[d] \in Nat /\ round[w] >= round[d] - 1
    <2>1. round[w] \in Nat /\ round[d] \in Nat
      BY DEF Types
    <2>2. round[w] >= IF pc[d] = "vote" THEN round[d] - 1 ELSE round[d]
      BY DEF PhaseInv, Close
    <2>3. QED
      BY <2>1, <2>2
  <1>3. round[w] + 1 # round[d] - 1
    BY <1>2
  <1>4. QED
    BY <1>1, <1>3 DEF Theirs

LEMMA GotStep ==
  ASSUME Types, PhaseInv, NoneLost, [Next]_vars,
         \A w \in Workers : SendSound(w) /\ QueueSound(w, round[w]) /\ GotSound(w),
         \A v, d \in Workers : v # d => LinkSound(v, d)
  PROVE  \A w \in Workers : GotSound(w)'
  <1> SUFFICES ASSUME NEW d \in Workers PROVE GotSound(d)'
    OBVIOUS
  <1>0. sent \subseteq sent' /\ round[d] \in Nat
    BY SentGrows DEF Types
  <1>1. CASE StartARound(d)
    <2>1. got'[d] = {} /\ pc'[d] = "eval"
      BY <1>1, StartFacts
    <2>2. QED
      BY <2>1 DEF GotSound, Finals
  <1>2. CASE Takes(d)
    <2>k. PICK k \in Nat : k = round[d]
      BY <1>0
    <2> DEFINE q == recv[d][Parity(k)].blocks
    <2>1. /\ pc[d] \in {"eval", "drain"} /\ q \in Seq(Block) /\ q # << >>
          /\ got'[d] = got[d] \cup ToSet(Head(q)) /\ UNCHANGED <<pc, round, sent>>
      BY <1>2, <2>k, TakeFacts
    <2>2. ToSet(Head(q)) \subseteq Stuff(q)
      BY <2>1, StuffFacts
    <2>3. Stuff(q) \subseteq Theirs(d, k)
      BY <2>k DEF QueueSound
    <2> HIDE DEF q
    <2>4. got[d] \subseteq Theirs(d, k)
      BY <2>1, <2>k DEF GotSound
    <2>5. got'[d] \subseteq Theirs(d, k)'
      BY <2>1, <2>2, <2>3, <2>4 DEF Theirs
    <2>6. round'[d] = k /\ pc'[d] \notin {"vote"} \cup Finals
      BY <2>1, <2>k DEF Finals
    <2>7. QED
      BY <2>5, <2>6 DEF GotSound, Theirs
  <1>3. CASE FinishARound(d)
    BY <1>3, GotFinish
  <1>4. ASSUME NEW w \in Workers, Sends(w) PROVE GotSound(d)'
    <2>1. PICK c \in Channels, e \in Workers, y \in Mess : Posted(w, c, e, y)
      BY <1>4, PostFacts
    <2>2. UNCHANGED <<pc, round, got>>
      BY <2>1 DEF Posted
    <2>3. pc[d] \in {"vote"} \cup Finals => Theirs(d, round[d] - 1)' = Theirs(d, round[d] - 1)
      BY <2>1, TheirsSettled
    <2>4. Theirs(d, round[d]) \subseteq Theirs(d, round[d])'
      BY <1>0, <2>2 DEF Theirs
    <2>5. QED
      BY <1>0, <2>2, <2>3, <2>4 DEF GotSound
  <1>5. ASSUME got'[d] = got[d], round'[d] = round[d], sent' = sent,
               \/ pc'[d] = pc[d]
               \/ pc[d] = "eval" /\ pc'[d] = "drain"
               \/ pc[d] \in {"vote"} \cup Finals /\ pc'[d] \in {"start"} \cup Finals
        PROVE  GotSound(d)'
    <2>1. \A k : Theirs(d, k)' = Theirs(d, k)
      BY <1>5 DEF Theirs
    <2>2. QED
      BY <1>5, <2>1 DEF GotSound, Finals
  <1>6. CASE ~StartARound(d) /\ ~FinishARound(d) /\ got'[d] = got[d] /\ sent' = sent
    <2>1. \/ SendEnds(d)
          \/ /\ round'[d] = round[d]
             /\ \/ pc'[d] = pc[d]
                \/ pc[d] = "eval" /\ pc'[d] = "drain"
                \/ pc[d] \in {"vote"} \cup Finals /\ pc'[d] \in {"start"} \cup Finals
      BY <1>6, Moves
    <2>2. SendEnds(d) => pc'[d] = pc[d] /\ round'[d] = round[d]
      BY SendEndsFacts
    <2>3. QED
      BY <1>5, <1>6, <2>1, <2>2
  <1>7. CASE ~StartARound(d) /\ ~FinishARound(d) /\ ~Takes(d) /\ \A w \in Workers : ~Sends(w)
    <2>1. ASSUME NEW w \in Workers, w # d, StartARound(w) \/ Takes(w) \/ FinishARound(w)
          PROVE  got'[d] = got[d] /\ sent' = sent
      <3>1. StartARound(w) => got'[d] = got[d] /\ sent' = sent
        BY <2>1, StartFacts
      <3>2. Takes(w) => got'[d] = got[d] /\ sent' = sent
        BY <2>1, TakeFacts
      <3>3. FinishARound(w) => got'[d] = got[d] /\ sent' = sent
        BY FinishFacts
      <3>4. QED
        BY <2>1, <3>1, <3>2, <3>3
    <2>2. ASSUME NEW w \in Workers, FinishMsgFilling(w) \/ Idles(w) \/ SendEnds(w)
          PROVE  got'[d] = got[d] /\ sent' = sent
      BY <2>2, FillFacts, IdleFacts, SendEndsFacts
    <2>3. ASSUME NEW w \in Workers, SendBlock(w) PROVE got'[d] = got[d] /\ sent' = sent
      BY <2>3, SendBlockFacts DEF Moved
    <2>4. ASSUME NEW w \in Workers, NEW u \in Workers, Receive(w, u)
          PROVE  got'[d] = got[d] /\ sent' = sent
      BY <2>4, ReceiveFacts
    <2>5. ASSUME UNCHANGED vars PROVE got'[d] = got[d] /\ sent' = sent
      BY <2>5 DEF vars
    <2>6. got'[d] = got[d] /\ sent' = sent
      BY <1>7, <2>1, <2>2, <2>3, <2>4, <2>5, Steps
    <2>7. QED
      BY <1>6, <1>7, <2>6
  <1>8. QED
    BY <1>1, <1>2, <1>3, <1>4, <1>7

-----------------------------------------------------------------------------
(* What a query that ends has counted *)

(* InChannels skips empty blocks, which hold nothing. *)
LEMMA FilledHold ==
  ASSUME NEW ch, NEW m
  PROVE  m \in UNION {ToSet(ch[cd[1]][cd[2]]) :
                        cd \in {x \in Channels \X Workers : ch[x[1]][x[2]] # << >>}}
           <=> \E c \in Channels, d \in Workers : m \in ToSet(ch[c][d])
  <1> DEFINE F == {x \in Channels \X Workers : ch[x[1]][x[2]] # << >>}
  <1>1. ASSUME NEW cd \in F, m \in ToSet(ch[cd[1]][cd[2]])
        PROVE  \E c \in Channels, d \in Workers : m \in ToSet(ch[c][d])
    <2>1. cd[1] \in Channels /\ cd[2] \in Workers
      OBVIOUS
    <2>2. QED
      BY <1>1, <2>1
  <1>2. ASSUME NEW c \in Channels, NEW d \in Workers, m \in ToSet(ch[c][d])
        PROVE  \E cd \in F : m \in ToSet(ch[cd[1]][cd[2]])
    <2>1. ch[c][d] # << >>
      BY <1>2, EmptySet
    <2>2. <<c, d>>[1] = c /\ <<c, d>>[2] = d /\ <<c, d>> \in Channels \X Workers
      OBVIOUS
    <2>3. <<c, d>> \in F /\ m \in ToSet(ch[<<c, d>>[1]][<<c, d>>[2]])
      BY <1>2, <2>1, <2>2
    <2>4. QED
      BY <2>3
  <1> HIDE DEF F
  <1>3. m \in UNION {ToSet(ch[cd[1]][cd[2]]) : cd \in F}
           <=> \E c \in Channels, d \in Workers : m \in ToSet(ch[c][d])
    BY <1>1, <1>2
  <1>4. QED
    BY <1>3 DEF F

LEMMA InChannelsAre ==
  ASSUME NEW w \in Workers, NEW m
  PROVE  /\ m \in InChannels(w) <=>
              \E c \in Channels, d \in Workers : m \in ToSet(channels[w][c][d])
         /\ m \in InChannels(w)' <=>
              \E c \in Channels, d \in Workers : m \in ToSet(channels'[w][c][d])
  <1>1. ASSUME NEW ch
        PROVE  m \in UNION {ToSet(ch[cd[1]][cd[2]]) :
                              cd \in {x \in Channels \X Workers : ch[x[1]][x[2]] # << >>}}
                 <=> \E c \in Channels, d \in Workers : m \in ToSet(ch[c][d])
    BY FilledHold
  <1>2. m \in InChannels(w) <=>
              \E c \in Channels, d \in Workers : m \in ToSet(channels[w][c][d])
    BY <1>1 DEF InChannels, Filled
  <1>3. m \in InChannels(w)' <=>
              \E c \in Channels, d \in Workers : m \in ToSet(channels'[w][c][d])
    BY <1>1 DEF InChannels, Filled
  <1>4. QED
    BY <1>2, <1>3

(* The four facts of EndInv one by one. *)
EvalCounted(w) ==
  pc[w] = "eval" => \A m \in sent : m.from = w /\ m.round = round[w] =>
                       m \in overflowed \cup InChannels(w)
DrainCounted(w) == pc[w] = "drain" /\ sent_size[w] = 0 => Uncounted(w, round[w])
EndsVoted(w) == pc[w] \in Finals => /\ Contributed(round[w] - 1) = Workers
                                    /\ Ends(round[w] - 1)
VotesCounted == \A b \in ballots : ~b.goOn => Uncounted(b.by, b.round)

LEMMA EndParts ==
  /\ EndInv <=> VotesCounted /\ \A w \in Workers :
                                  EvalCounted(w) /\ DrainCounted(w) /\ EndsVoted(w)
  /\ EndInv' <=> VotesCounted' /\ \A w \in Workers :
                                  EvalCounted(w)' /\ DrainCounted(w)' /\ EndsVoted(w)'
  BY DEF EndInv, VotesCounted, EvalCounted, DrainCounted, EndsVoted

LEMMA EndElsewhere ==
  ASSUME EndInv, NEW w \in Workers, pc'[w] = pc[w], round'[w] = round[w],
         channels'[w] = channels[w], sent_size'[w] = sent_size[w],
         sent' = sent, overflowed' = overflowed
  PROVE  /\ EvalCounted(w)' /\ DrainCounted(w)'
         /\ ballots' = ballots => EndsVoted(w)' /\ VotesCounted'
  <1>1. InChannels(w)' = InChannels(w)
    BY DEF InChannels, Filled
  <1>2. EvalCounted(w) /\ DrainCounted(w) /\ EndsVoted(w) /\ VotesCounted
    BY EndParts
  <1>3. \A u, r : Uncounted(u, r)' <=> Uncounted(u, r)
    BY DEF Uncounted
  <1>4. EvalCounted(w)'
    BY <1>1, <1>2 DEF EvalCounted
  <1>5. DrainCounted(w)'
    BY <1>2, <1>3 DEF DrainCounted
  <1>6. ballots' = ballots => EndsVoted(w)'
    BY <1>2 DEF EndsVoted, Contributed, Ends
  <1>7. ballots' = ballots => VotesCounted'
    BY <1>2, <1>3 DEF VotesCounted
  <1>8. QED
    BY <1>4, <1>5, <1>6, <1>7

LEMMA EndSame ==
  ASSUME EndInv,
         UNCHANGED <<pc, round, channels, sent_size, sent, overflowed, ballots>>
  PROVE  EndInv'
  <1>1. VotesCounted'
    BY EndParts DEF VotesCounted, Uncounted
  <1>2. \A w \in Workers : EvalCounted(w)' /\ DrainCounted(w)' /\ EndsVoted(w)'
    BY EndElsewhere
  <1>3. QED
    BY <1>1, <1>2, EndParts

LEMMA EndStart ==
  ASSUME Types, NoneLost, EndInv, NEW w \in Workers, StartARound(w)
  PROVE  EndInv'
  <1>1. /\ pc[w] = "start" /\ pc'[w] = "eval" /\ round' = round
        /\ channels' = channels /\ ballots' = ballots /\ sent' = sent
        /\ overflowed' = overflowed
        /\ \A u \in Workers : u # w => pc'[u] = pc[u] /\ sent_size'[u] = sent_size[u]
    BY StartFacts
  <1>2. VotesCounted'
    BY <1>1, EndParts DEF VotesCounted, Uncounted
  <1>3. ASSUME NEW u \in Workers, u # w
        PROVE  EvalCounted(u)' /\ DrainCounted(u)' /\ EndsVoted(u)'
    BY <1>1, <1>3, EndElsewhere
  <1>4. EvalCounted(w)'
    <2>1. ASSUME NEW m \in sent, m.from = w PROVE m.round # round[w]
      <3>1. m.round + 1 <= round[w]
        BY <1>1, <2>1 DEF NoneLost, Tag
      <3>2. m.round \in Nat /\ round[w] \in Nat
        BY DEF Types, Mess
      <3>3. QED
        BY <3>1, <3>2
    <2>2. QED
      BY <1>1, <2>1 DEF EvalCounted
  <1>5. DrainCounted(w)' /\ EndsVoted(w)'
    BY <1>1 DEF DrainCounted, EndsVoted, Finals
  <1>6. QED
    BY <1>2, <1>3, <1>4, <1>5, EndParts

LEMMA EndPost ==
  ASSUME Types, VotesSound, EndInv, NEW w \in Workers, Sends(w)
  PROVE  EndInv'
  <1>1. PICK c \in Channels, d \in Workers, y \in Mess : Posted(w, c, d, y)
    BY PostFacts
  <1> DEFINE b == Append(channels[w][c][d], y)
  <1>2. /\ pc[w] = "eval" /\ y.from = w /\ y.round = round[w] /\ sent' = sent \cup {y}
        /\ ToSet(b) = ToSet(channels[w][c][d]) \cup {y}
        /\ \/ overflowed' = overflowed \cup ToSet(b)
           \/ channels'[w][c][d] = b /\ overflowed' = overflowed
        /\ \A a \in Channels, e \in Workers : a # c \/ e # d =>
             channels'[w][a][e] = channels[w][a][e]
        /\ \A u \in Workers : u # w => channels'[u] = channels[u]
        /\ UNCHANGED <<pc, round, sent_size, ballots>>
    BY <1>1 DEF Posted
  <1> HIDE DEF b
  <1>3. overflowed \subseteq overflowed'
    BY <1>2
  <1>4. ASSUME NEW u, NEW r, Uncounted(u, r), u # w \/ r # round[w]
        PROVE  Uncounted(u, r)'
    BY <1>2, <1>3, <1>4 DEF Uncounted
  <1>5. VotesCounted'
    <2>1. SUFFICES ASSUME NEW x \in ballots, ~x.goOn PROVE Uncounted(x.by, x.round)'
      BY <1>2 DEF VotesCounted
    <2>2. Uncounted(x.by, x.round)
      BY <2>1, EndParts DEF VotesCounted
    <2>3. x.round < round[x.by] /\ x.round \in Nat /\ x.by \in Workers
      BY <2>1 DEF VotesSound, Types
    <2>4. x.by # w \/ x.round # round[w]
      BY <2>3 DEF Types
    <2>5. QED
      BY <1>4, <2>2, <2>4
  <1>6. ASSUME NEW u \in Workers PROVE DrainCounted(u)' /\ EndsVoted(u)'
    <2>1. DrainCounted(u)'
      BY <1>2, <1>4, EndParts DEF DrainCounted
    <2>2. EndsVoted(u)'
      BY <1>2, EndParts DEF EndsVoted, Contributed, Ends
    <2>3. QED
      BY <2>1, <2>2
  <1>7. ASSUME NEW u \in Workers, u # w PROVE EvalCounted(u)'
    <2>1. InChannels(u)' = InChannels(u)
      BY <1>2, <1>7 DEF InChannels, Filled
    <2>2. EvalCounted(u)
      BY EndParts
    <2>3. QED
      BY <1>2, <1>3, <1>7, <2>1, <2>2 DEF EvalCounted
  <1>8. EvalCounted(w)'
    <2>1. SUFFICES ASSUME NEW m \in sent', m.from = w, m.round = round[w]
                   PROVE  m \in overflowed' \cup InChannels(w)'
      BY <1>2 DEF EvalCounted
    <2>2. m \in InChannels(w)' <=> \E a \in Channels, e \in Workers : m \in ToSet(channels'[w][a][e])
      BY InChannelsAre
    <2>3. m \in ToSet(b) => m \in overflowed' \cup InChannels(w)'
      BY <1>2, <2>2
    <2>4. CASE m = y
      BY <1>2, <2>3, <2>4
    <2>5. CASE m \in overflowed
      BY <1>3, <2>5
    <2>6. CASE m \in InChannels(w)
      <3>1. PICK a \in Channels, e \in Workers : m \in ToSet(channels[w][a][e])
        BY <2>6, InChannelsAre
      <3>2. CASE a = c /\ e = d
        BY <1>2, <2>3, <3>1, <3>2
      <3>3. CASE a # c \/ e # d
        <4>1. m \in ToSet(channels'[w][a][e])
          BY <1>2, <3>1, <3>3
        <4>2. QED
          BY <2>2, <4>1
      <3>4. QED
        BY <3>2, <3>3
    <2>7. m = y \/ m \in overflowed \/ m \in InChannels(w)
      <3>1. EvalCounted(w)
        BY EndParts
      <3>2. QED
        BY <1>2, <2>1, <3>1 DEF EvalCounted
    <2>8. QED
      BY <2>4, <2>5, <2>6, <2>7
  <1>9. QED
    BY <1>5, <1>6, <1>7, <1>8, EndParts

LEMMA EndFill ==
  ASSUME Types, EndInv, NEW w \in Workers, SendSound(w), FinishMsgFilling(w)
  PROVE  EndInv'
  <1>1. /\ pc[w] = "eval" /\ pc'[w] = "drain" /\ sent_size'[w] = FlushedSize(w)
        /\ \A u \in Workers : u # w => /\ pc'[u] = pc[u] /\ channels'[u] = channels[u]
                                       /\ sent_size'[u] = sent_size[u]
        /\ UNCHANGED <<round, ballots, sent, overflowed>>
    BY FillFacts
  <1>2. VotesCounted'
    BY <1>1, EndParts DEF VotesCounted, Uncounted
  <1>3. ASSUME NEW u \in Workers, u # w
        PROVE  EvalCounted(u)' /\ DrainCounted(u)' /\ EndsVoted(u)'
    BY <1>1, <1>3, EndElsewhere
  <1>4. DrainCounted(w)'
    <2>1. sent_size'[w] = 0 => InChannels(w) = {}
      <3>1. FlushedSize(w) = 0 <=> InChannels(w) = {}
        BY FlushedSizeFacts
      <3>2. QED
        BY <1>1, <3>1
    <2>2. EvalCounted(w)
      BY EndParts
    <2>3. sent_size'[w] = 0 => Uncounted(w, round[w])
      BY <1>1, <2>1, <2>2 DEF EvalCounted, Uncounted
    <2>4. QED
      BY <1>1, <2>3 DEF DrainCounted, Uncounted
  <1>5. EvalCounted(w)' /\ EndsVoted(w)'
    BY <1>1 DEF EvalCounted, EndsVoted, Finals
  <1>6. QED
    BY <1>2, <1>3, <1>4, <1>5, EndParts

LEMMA EndFinish ==
  ASSUME Types, VotesSound, EndInv, NEW w \in Workers, FinishARound(w)
  PROVE  EndInv'
  <1>b. PICK b : b = [by |-> w, round |-> round[w],
                      goOn |-> sent_size[w] # 0 \/ force[w].continue,
                      stop |-> force[w].terminate]
    OBVIOUS
  <1>1. /\ pc[w] = "drain" /\ pc'[w] = "vote" /\ ballots' = ballots \cup {b}
        /\ \A u \in Workers : u # w => pc'[u] = pc[u] /\ round'[u] = round[u]
        /\ UNCHANGED <<channels, sent_size, sent, overflowed>>
    BY <1>b, FinishFacts
  <1>2. b.by = w /\ b.round = round[w] /\ (~b.goOn => sent_size[w] = 0)
    BY <1>b
  <1>3. VotesCounted'
    <2>1. SUFFICES ASSUME NEW x \in ballots', ~x.goOn PROVE Uncounted(x.by, x.round)
      BY <1>1 DEF VotesCounted, Uncounted
    <2>2. CASE x = b
      <3>1. DrainCounted(w)
        BY EndParts
      <3>2. QED
        BY <1>1, <1>2, <2>1, <2>2, <3>1 DEF DrainCounted
    <2>3. CASE x \in ballots
      BY <2>1, <2>3, EndParts DEF VotesCounted
    <2>4. QED
      BY <1>1, <2>1, <2>2, <2>3
  <1>4. ASSUME NEW u \in Workers, u # w
        PROVE  EvalCounted(u)' /\ DrainCounted(u)' /\ EndsVoted(u)'
    <2>1. EvalCounted(u)' /\ DrainCounted(u)'
      BY <1>1, <1>4, EndElsewhere
    <2>2. ASSUME pc[u] \in Finals PROVE EndsVoted(u)'
      <3>r. PICK r : r = round[u] - 1
        OBVIOUS
      <3>1. Contributed(r) = Workers /\ Ends(r)
        BY <2>2, <3>r, EndParts DEF EndsVoted
      <3>2. PICK x \in ballots : x.round = r /\ x.by = w
        BY <3>1 DEF Contributed
      <3>3. r < round[w] /\ r \in Nat /\ round[w] \in Nat
        BY <3>2 DEF VotesSound, Types
      <3>4. b.round # r
        BY <1>2, <3>3
      <3>5. {y \in ballots' : y.round = r} = {y \in ballots : y.round = r}
        BY <1>1, <3>4
      <3>6. Contributed(r)' = Contributed(r) /\ (Ends(r)' <=> Ends(r))
        BY <3>5 DEF Contributed, Ends
      <3>7. round'[u] - 1 = r
        BY <1>1, <1>4, <3>r
      <3>8. QED
        BY <3>1, <3>6, <3>7 DEF EndsVoted
    <2>3. EndsVoted(u)'
      BY <1>1, <1>4, <2>2 DEF EndsVoted
    <2>4. QED
      BY <2>1, <2>3
  <1>5. EvalCounted(w)' /\ DrainCounted(w)' /\ EndsVoted(w)'
    BY <1>1 DEF EvalCounted, DrainCounted, EndsVoted, Finals
  <1>6. QED
    BY <1>3, <1>4, <1>5, EndParts

LEMMA EndIdle ==
  ASSUME Types, EndInv, NEW w \in Workers, Idles(w)
  PROVE  EndInv'
  <1>1. /\ \A u \in Workers : u # w => pc'[u] = pc[u]
        /\ UNCHANGED <<round, channels, sent_size, ballots, sent, overflowed>>
    BY IdleFacts
  <1>2. \/ pc' = pc
        \/ /\ pc'[w] \notin {"eval", "drain"}
           /\ \/ pc'[w] \notin Finals
              \/ pc[w] \in Finals
              \/ Contributed(round[w] - 1) = Workers /\ Ends(round[w] - 1)
    BY IdleFacts DEF Finals
  <1>3. CASE pc' = pc
    BY <1>1, <1>3, EndSame
  <1>4. CASE pc' # pc
    <2>1. VotesCounted'
      BY <1>1, EndParts DEF VotesCounted, Uncounted
    <2>2. ASSUME NEW u \in Workers, u # w
          PROVE  EvalCounted(u)' /\ DrainCounted(u)' /\ EndsVoted(u)'
      BY <1>1, <2>2, EndElsewhere
    <2>3. EvalCounted(w)' /\ DrainCounted(w)'
      BY <1>2, <1>4 DEF EvalCounted, DrainCounted
    <2>4. EndsVoted(w)'
      <3>1. pc'[w] \in Finals => Contributed(round[w] - 1) = Workers /\ Ends(round[w] - 1)
        BY <1>2, <1>4, EndParts DEF EndsVoted
      <3>2. QED
        BY <1>1, <3>1 DEF EndsVoted, Contributed, Ends
    <2>5. QED
      BY <2>1, <2>2, <2>3, <2>4, EndParts
  <1>5. QED
    BY <1>3, <1>4

LEMMA EndStep ==
  ASSUME Types, VotesSound, NoneLost, EndInv, \A w \in Workers : SendSound(w), [Next]_vars
  PROVE  EndInv'
  <1>1. ASSUME NEW w \in Workers,
               \/ StartARound(w) \/ Sends(w) \/ FinishMsgFilling(w) \/ FinishARound(w) \/ Idles(w)
        PROVE  EndInv'
    BY <1>1, EndStart, EndPost, EndFill, EndFinish, EndIdle
  <1>2. ASSUME NEW w \in Workers, Takes(w) PROVE EndInv'
    <2>1. UNCHANGED <<pc, round, channels, sent_size, sent, overflowed, ballots>>
      BY <1>2, TakeFacts
    <2>2. QED
      BY <2>1, EndSame
  <1>3. ASSUME NEW w \in Workers, SendBlock(w) PROVE EndInv'
    <2>1. UNCHANGED <<pc, round, channels, sent_size, sent, overflowed, ballots>>
      BY <1>3, SendBlockFacts DEF Moved
    <2>2. QED
      BY <2>1, EndSame
  <1>4. ASSUME NEW w \in Workers, SendEnds(w) PROVE EndInv'
    <2>1. UNCHANGED <<pc, round, channels, sent_size, sent, overflowed, ballots>>
      BY <1>4, SendEndsFacts
    <2>2. QED
      BY <2>1, EndSame
  <1>5. ASSUME NEW w \in Workers, NEW u \in Workers, Receive(w, u) PROVE EndInv'
    <2>1. UNCHANGED <<pc, round, channels, sent_size, sent, overflowed, ballots>>
      BY <1>5, ReceiveFacts
    <2>2. QED
      BY <2>1, EndSame
  <1>6. CASE UNCHANGED vars
    <2>1. UNCHANGED <<pc, round, channels, sent_size, sent, overflowed, ballots>>
      BY <1>6 DEF vars, manager
    <2>2. QED
      BY <2>1, EndSame
  <1>7. QED
    BY <1>1, <1>2, <1>3, <1>4, <1>5, <1>6, Steps

-----------------------------------------------------------------------------
(* The invariants together *)

LEMMA TypesInit == Init => Types
  <1> SUFFICES ASSUME Init PROVE Types
    OBVIOUS
  <1>1. << >> \in Block /\ << >> \in Seq(Block) /\ << >> \in Seq(Workers \X Block)
        /\ << >> \in Seq(Packet)
    BY DEF Block
  <1>2. fnum \in Nat
    BY MessageAssumption, FS_CardinalityType DEF fnum
  <1>3. FullQueue \in [blocks : Seq(Block), producers : Int]
    BY <1>1, <1>2 DEF FullQueue
  <1>4. NoMessages \in [Channels -> [Workers -> Block]]
    BY <1>1 DEF NoMessages
  <1>5. /\ channels \in [Workers -> [Channels -> [Workers -> Block]]]
        /\ recv \in [Workers -> [0 .. 1 -> [blocks : Seq(Block), producers : Int]]]
    BY <1>3, <1>4 DEF Init
  <1>6. /\ pc \in [Workers -> {"start", "eval", "drain", "vote"} \cup Finals]
        /\ round \in [Workers -> Nat] /\ sent_size \in [Workers -> Nat]
        /\ force \in [Workers -> [continue : BOOLEAN, terminate : BOOLEAN]]
        /\ sender \in [Workers -> {"none", "run", "ended"}]
    BY DEF Init
  <1>7. /\ sending \in [Workers -> [blocks : Seq(Workers \X Block), open : BOOLEAN]]
        /\ to_self \in [Workers -> Seq(Block)]
    BY <1>1 DEF Init
  <1>8. /\ DOMAIN net = Workers /\ \A v \in Workers : DOMAIN net[v] = Workers
        /\ \A v, d \in Workers : v # d => net[v][d] \in Seq(Packet)
    BY <1>1 DEF Init
  <1>9. /\ ballots = {} /\ sent = {} /\ overflowed = {} /\ IsFiniteSet(sent)
        /\ got \in [Workers -> SUBSET Mess]
    BY FS_EmptySet DEF Init
  <1>10. QED
    BY <1>5, <1>6, <1>7, <1>8, <1>9 DEF Types

LEMMA RoundInit == Init => RoundInv /\ EndInv
  <1> SUFFICES ASSUME Init PROVE RoundInv /\ EndInv
    OBVIOUS
  <1>1. Types
    BY TypesInit
  <1>2. /\ ballots = {} /\ sent = {} /\ overflowed = {}
        /\ \A w \in Workers :
             /\ pc[w] = "start" /\ round[w] = 0 /\ sender[w] = "none" /\ got[w] = {}
             /\ sending[w].blocks = << >> /\ sending[w].open = FALSE /\ to_self[w] = << >>
             /\ \A c \in Channels, d \in Workers : channels[w][c][d] = << >>
             /\ \A p \in 0 .. 1 : recv[w][p] = FullQueue
             /\ \A d \in Workers : net[w][d] = << >>
    BY DEF Init, NoMessages
  <1>3. Close /\ VotesSound /\ OverSound /\ NoneLost
    BY <1>2 DEF Close, VotesSound, OverSound, NoneLost
  <1>4. ASSUME NEW w \in Workers PROVE MainSound(w) /\ SendSound(w) /\ GotSound(w)
    <2>1. MainSound(w)
      BY <1>2 DEF MainSound
    <2>2. SendSound(w)
      BY <1>2, EmptySet DEF SendSound, Stuff
    <2>3. GotSound(w)
      BY <1>2 DEF GotSound, Finals
    <2>4. QED
      BY <2>1, <2>2, <2>3
  <1>5. ASSUME NEW d \in Workers, NEW k \in {0, 1} PROVE QueueSound(d, k)
    <2>1. recv[d][Parity(k)] = FullQueue
      BY <1>2, <1>5, Parities
    <2>2. ASSUME NEW v \in Workers PROVE ~Delivered(v, d, k)
      <3>1. Tag(v) = 0 /\ Tag(d) = 0
        BY <1>2 DEF Tag
      <3>2. QED
        BY <1>5, <3>1 DEF Delivered, Ended
    <2>3. Pending(d, k) = Workers
      BY <2>2 DEF Pending
    <2>4. Stuff(<< >>) = {}
      BY EmptySet DEF Stuff
    <2>5. QED
      BY <2>1, <2>3, <2>4 DEF QueueSound, FullQueue, fnum
  <1>6. ASSUME NEW v \in Workers, NEW d \in Workers PROVE LinkSound(v, d)
    BY <1>2, EmptySet DEF LinkSound, Fifo
  <1>7. \A w \in Workers : QueueSound(w, round[w]) /\ QueueSound(w, round[w] + 1)
    BY <1>2, <1>5
  <1>8. RoundInv
    BY <1>1, <1>3, <1>4, <1>6, <1>7 DEF RoundInv
  <1>9. EndInv
    BY <1>2 DEF EndInv, Finals
  <1>10. QED
    BY <1>8, <1>9

LEMMA RoundStep == RoundInv /\ EndInv /\ [Next]_vars => RoundInv' /\ EndInv'
  <1> SUFFICES ASSUME RoundInv, EndInv, [Next]_vars PROVE RoundInv' /\ EndInv'
    OBVIOUS
  <1>1. /\ Types /\ PhaseInv /\ OverSound /\ NoneLost /\ VotesSound
        /\ \A w \in Workers : SendSound(w) /\ GotSound(w)
        /\ \A w \in Workers : QueueSound(w, round[w]) /\ QueueSound(w, round[w] + 1)
        /\ \A v, d \in Workers : v # d => LinkSound(v, d)
    BY DEF RoundInv, PhaseInv
  <1>2. Types'
    BY <1>1, TypesStep
  <1>3. PhaseInv'
    BY <1>1, PhaseStep
  <1>4. \A w \in Workers : SendSound(w)'
    BY <1>1, SendStep
  <1>5. \A v, d \in Workers : v # d => LinkSound(v, d)'
    BY <1>1, LinkStep
  <1>6. OverSound'
    BY <1>1, OverStep
  <1>7. \A w \in Workers : QueueSound(w, round[w])' /\ QueueSound(w, round[w] + 1)'
    BY <1>1, QueueStep
  <1>8. NoneLost'
    BY <1>1, LostStep
  <1>9. \A w \in Workers : GotSound(w)'
    BY <1>1, GotStep
  <1>10. EndInv'
    BY <1>1, EndStep
  <1>11. QED
    BY <1>2, <1>3, <1>4, <1>5, <1>6, <1>7, <1>8, <1>9, <1>10 DEF RoundInv, PhaseInv

LEMMA InvCorrect == Spec => [](RoundInv /\ EndInv)
  BY RoundInit, RoundStep, PTL DEF Spec

-----------------------------------------------------------------------------
(* Round isolation, for any number of workers, rounds and messages: what a  *)
(* worker took out of its queue in a round it has finished is exactly what  *)
(* was sent to it in the round before (GetMessages, resetRecvQueue and      *)
(* FinishARound of ParallelPropertyMessageManager).                         *)
THEOREM RoundsIsolated == Spec => []RoundIsolation
  <1>1. RoundInv => RoundIsolation
    <2> SUFFICES ASSUME RoundInv, NEW w \in Workers
                 PROVE  /\ got[w] \subseteq {m \in sent : m.to = w}
                        /\ pc[w] \in {"vote", "finalize", "barrier", "join"} =>
                             got[w] = {m \in sent : m.to = w /\ m.round + 1 = round[w] - 1}
      BY DEF RoundIsolation
    <2>1. GotSound(w)
      BY DEF RoundInv
    <2>2. QED
      BY <2>1 DEF GotSound, Theirs, Finals
  <1>2. QED
    BY <1>1, InvCorrect, PTL

(* A query that no worker forced to end leaves no message of its last round *)
(* unread, but for those that left in a full block, which the vote of       *)
(* ToTerminate does not count (SyncStateOnOuterVertex, ToTerminate).        *)
THEOREM FixedPoint == Spec => []EndsUncounted
  <1>1. RoundInv /\ EndInv => EndsUncounted
    <2> SUFFICES ASSUME RoundInv, EndInv, NEW w \in Workers, pc[w] \in Finals,
                        ~ \E b \in ballots : b.round = round[w] - 1 /\ b.stop,
                        NEW m \in SentIn(round[w] - 1)
                 PROVE  m \in overflowed
      BY DEF EndsUncounted, Finals
    <2>1. Contributed(round[w] - 1) = Workers /\ Ends(round[w] - 1)
      BY DEF EndInv
    <2>2. m \in sent /\ m.round = round[w] - 1 /\ m.from \in Workers
      BY DEF SentIn, RoundInv, Types, Mess
    <2>3. PICK b \in ballots : b.round = round[w] - 1 /\ b.by = m.from
      BY <2>1, <2>2 DEF Contributed
    <2>4. ~b.goOn
      BY <2>1, <2>3 DEF Ends
    <2>5. Uncounted(m.from, round[w] - 1)
      BY <2>3, <2>4 DEF EndInv
    <2>6. QED
      BY <2>2, <2>5 DEF Uncounted
  <1>2. QED
    BY <1>1, InvCorrect, PTL

=============================================================================
