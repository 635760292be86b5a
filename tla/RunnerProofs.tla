---------------------------- MODULE RunnerProofs ----------------------------
(***************************************************************************)
(* Proofs about the publication of epochs, for any number of fragments,    *)
(* threads, readers and crashes and a log of any length.                   *)
(***************************************************************************)
EXTENDS Runner, FiniteSetTheorems, WellFoundedInduction, TLAPS

LogSorted == \A i, j \in 1 .. Len(log) : i <= j => log[i].epoch <= log[j].epoch

Publishing == {"publish", "put_blob", "put_latest"}

(* The epochs a fragment can have published: those of logs, and 0, once a   *)
(* log of a later epoch is there.                                           *)
Ended == {e \in Epochs : /\ \E i \in 1 .. Len(log) : log[i].epoch > e
                         /\ e = 0 \/ \E i \in 1 .. Len(log) : log[i].epoch = e}

(* Where the consuming thread is: the logs it has passed are of its epoch   *)
(* or of an earlier one, and it publishes because the next log is not.      *)
RunSound(f) ==
  /\ run[f].epoch = 0 \/ \E i \in 1 .. Len(log) : log[i].epoch = run[f].epoch
  /\ \A i \in 1 .. run[f].pos : log[i].epoch <= run[f].epoch
  /\ run[f].pc \in Publishing \/ (run[f].pc = "barrier" /\ run[f].then = "publish")
       => Cur(f).epoch > run[f].epoch
  /\ run[f].pc \in {"dispatch", "push"} \/ (run[f].pc = "barrier" /\ run[f].then = "push")
       => Cur(f).epoch <= run[f].epoch
  /\ run[f].pc = "push" \/ (run[f].pc = "barrier" /\ run[f].then = "push")
       => Cur(f).op # "bulkload_end"

(* Every epoch that ended, up to e, has its blob in fragment f's keys. *)
BlobsUpTo(f, e) == \A d \in Ended : d <= e => d \in DOMAIN blobs[f]

Announced(f, e) == e \in Ended /\ BlobsUpTo(f, e)

(* The blobs precede the latest-epoch key, across crashes as well. *)
BlobsFirst(f) ==
  /\ \A d \in Ended : d < run[f].epoch => d \in DOMAIN blobs[f]
  /\ run[f].pc = "put_latest" => run[f].epoch \in DOMAIN blobs[f]
  /\ latest[f] \in Epochs => Announced(f, latest[f])

(* What a reader was told still holds, and its epoch is the least answer. *)
ReaderSound(r) ==
  /\ Len(reader[r].vals) <= NumFrags
  /\ \A f \in 1 .. Len(reader[r].vals) :
       reader[r].vals[f] \in Epochs => Announced(f, reader[r].vals[f])
  /\ reader[r].pc = "blobs" =>
       /\ Len(reader[r].vals) = NumFrags
       /\ \E f \in Frags : reader[r].epoch = reader[r].vals[f]
       /\ \A f \in Frags : reader[r].epoch <= reader[r].vals[f]
       /\ \A f \in Frags : reader[r].vals[f] \in Epochs =>
                              reader[r].found[f] # "missing"

EpochInv ==
  /\ TypeOK /\ LogSorted
  /\ \A f \in Frags : RunSound(f) /\ BlobsFirst(f)
  /\ \A r \in Readers : ReaderSound(r)

(* Without threads the graph store holds exactly the logs consumed, so what *)
(* is written out for an epoch, or about to be, is the cut of the log.      *)
CutSound(f) ==
  /\ applied[f] = Ops(run[f].pos)
  /\ run[f].pc = "put_blob" => run[f].snap = Cut(run[f].epoch)
  /\ \A e \in DOMAIN blobs[f] : /\ blobs[f][e] = Cut(e)
                                /\ \E i \in 1 .. Len(log) : log[i].epoch > e
  /\ run[f].pc \notin {"barrier", "push"}

CutInv == \A f \in Frags : CutSound(f)

Busy(f) == {t \in Threads : thr[f][t].cur # 0}

(* The logs consumed, their number, and the places they are in. *)
Accounted(f) ==
  /\ applied[f] \cup Held(f) \cup Range(queue[f]) = Ops(run[f].pos)
  /\ Cardinality(applied[f]) + Cardinality(Busy(f)) + Len(queue[f])
       = Cardinality(Ops(run[f].pos))

(* Every log is in one place, once. *)
Apart(f) ==
  /\ \A i, j \in 1 .. Len(queue[f]) : queue[f][i] = queue[f][j] => i = j
  /\ \A t, u \in Threads :
       thr[f][t].cur = thr[f][u].cur /\ thr[f][t].cur # 0 => t = u
  /\ \A t \in Threads : /\ thr[f][t].cur \notin applied[f]
                        /\ thr[f][t].cur \notin Range(queue[f])
  /\ applied[f] \cap Range(queue[f]) = {}

(* The queue is empty once the barrier has seen it so, and while an epoch   *)
(* is published; it is not used without threads.                            *)
Emptied(f) ==
  /\ run[f].pc \in Publishing \/ (run[f].pc = "barrier" /\ run[f].idx > 0)
       => queue[f] = << >>
  /\ NumThreads = 0 => /\ queue[f] = << >>
                       /\ run[f].pc \notin {"barrier", "push"}

PlaceSound(f) == Accounted(f) /\ Apart(f) /\ Emptied(f)

PlaceInv == \A f \in Frags : PlaceSound(f)

-----------------------------------------------------------------------------
(* Facts about the operators *)

(* What appending one element does to a sequence, and to its range. *)
LEMMA AppendFacts ==
  ASSUME NEW S, NEW s \in Seq(S), NEW x \in S
  PROVE  /\ Append(s, x) \in Seq(S)
         /\ Len(Append(s, x)) = Len(s) + 1
         /\ \A i \in 1 .. Len(s) : Append(s, x)[i] = s[i]
         /\ Append(s, x)[Len(s) + 1] = x
         /\ Range(Append(s, x)) = Range(s) \cup {x}
  BY DEF Range

(* What taking the first element from a queue does. *)
LEMMA TailFacts ==
  ASSUME NEW S, NEW s \in Seq(S), s # << >>
  PROVE  /\ Head(s) \in S /\ Tail(s) \in Seq(S)
         /\ Len(Tail(s)) = Len(s) - 1
         /\ Head(s) = s[1]
         /\ \A i \in 1 .. Len(s) - 1 : Tail(s)[i] = s[i + 1]
         /\ Range(s) = Range(Tail(s)) \cup {Head(s)}
  <1>1. Head(s) \in S /\ Tail(s) \in Seq(S) /\ Len(Tail(s)) = Len(s) - 1
    OBVIOUS
  <1>2. Head(s) = s[1] /\ \A i \in 1 .. Len(s) - 1 : Tail(s)[i] = s[i + 1]
    OBVIOUS
  <1>3. Len(s) > 0 /\ Len(s) \in Nat
    OBVIOUS
  <1>4. ASSUME NEW i \in 1 .. Len(s) PROVE s[i] \in Range(Tail(s)) \cup {Head(s)}
    <2>1. CASE i = 1
      BY <2>1, <1>2
    <2>2. CASE i # 1
      <3>1. i - 1 \in 1 .. Len(s) - 1 /\ s[i] = Tail(s)[i - 1]
        BY <2>2, <1>2, <1>3
      <3>2. i - 1 \in DOMAIN Tail(s)
        BY <3>1, <1>1
      <3>3. QED
        BY <3>1, <3>2 DEF Range
    <2>3. QED
      BY <2>1, <2>2
  <1>5. Range(s) \subseteq Range(Tail(s)) \cup {Head(s)}
    BY <1>4 DEF Range
  <1>6. Range(Tail(s)) \cup {Head(s)} \subseteq Range(s)
    BY <1>1, <1>2, <1>3 DEF Range
  <1>7. QED
    BY <1>1, <1>2, <1>5, <1>6

(* A set of numbers that is not empty has a least one. *)
LEMMA LeastNumber ==
  ASSUME NEW S \in SUBSET Nat, S # {}
  PROVE  \E x \in S : \A y \in S : x <= y
  <1> DEFINE Below(n) == S \cap (0 .. n)
             R == StrictSubsetOrdering(S)
             T == {Below(n) : n \in S}
  <1>1. T \subseteq FiniteSubsetsOf(S)
    <2>1. \A n \in S : IsFiniteSet(0 .. n)
      BY FS_Interval
    <2>2. \A n \in S : IsFiniteSet(Below(n))
      BY <2>1, FS_Intersection
    <2>3. QED
      BY <2>2 DEF FiniteSubsetsOf
  <1>2. T # {}
    OBVIOUS
  <1>3. IsWellFoundedOn(R, FiniteSubsetsOf(S))
    BY FS_StrictSubsetOrderingWellFounded
  <1>4. PICK b \in T : \A c \in T : ~ (<<c, b>> \in R)
    <2> HIDE DEF T, R
    <2>1. QED
      BY <1>1, <1>2, <1>3, WFMin
  <1>5. PICK x \in S : b = Below(x)
    OBVIOUS
  <1>6. ASSUME NEW y \in S, y < x PROVE FALSE
    <2>1. Below(y) \in T /\ Below(y) \subseteq Below(x)
      BY <1>6
    <2>2. Below(y) # Below(x)
      BY <1>6
    <2>3. <<Below(y), Below(x)>> \in R
      BY <2>1, <2>2 DEF StrictSubsetOrdering
    <2>4. QED
      BY <2>1, <2>3, <1>4, <1>5
  <1>7. QED
    BY <1>6

(* Min is what it says: get_latest_epoch's choice is one of the answers. *)
LEMMA MinIsLeast ==
  ASSUME NEW S \in SUBSET Nat, S # {}
  PROVE  Min(S) \in S /\ \A y \in S : Min(S) <= y
  BY LeastNumber DEF Min

-----------------------------------------------------------------------------
(* Types *)

(* What the assumption on the constants says of each of them. *)
LEMMA Numbers ==
  /\ NumFrags \in Nat /\ NumThreads \in Nat /\ MaxEpoch \in Nat
  /\ UINT64_MAX \in Nat /\ UINT64_MAX > MaxEpoch /\ 0 \in Epochs
  BY RunnerAssumption DEF Epochs

(* The fields of the consuming thread's state, and of the log it is at. *)
LEMMA RunFields ==
  ASSUME TypeOK, NEW f \in Frags
  PROVE  /\ run[f] \in RunType
         /\ run[f].pos \in Nat /\ run[f].pos + 1 \in Nat
         /\ run[f].idx \in Nat /\ run[f].idx + 1 \in Nat
         /\ run[f].epoch \in Epochs
         /\ run[f].pc \notin {"consume", "down"} =>
              /\ run[f].pos < Len(log) /\ run[f].pos + 1 \in 1 .. Len(log)
              /\ Cur(f) \in [op : LogOps, epoch : Epochs]
              /\ Cur(f).epoch \in Epochs
  <1>1. run[f] \in RunType /\ Positions(f) /\ log \in Seq([op : LogOps, epoch : Epochs])
    BY DEF TypeOK, Types
  <1>2. run[f].pos \in Nat /\ run[f].idx \in Nat /\ run[f].epoch \in Epochs
    BY <1>1 DEF RunType
  <1>3. run[f].pos + 1 \in Nat /\ run[f].idx + 1 \in Nat
    BY <1>2
  <1>4. ASSUME run[f].pc \notin {"consume", "down"}
        PROVE  run[f].pos < Len(log) /\ run[f].pos + 1 \in 1 .. Len(log)
    BY <1>1, <1>2, <1>4 DEF Positions
  <1>5. ASSUME run[f].pc \notin {"consume", "down"}
        PROVE  Cur(f) \in [op : LogOps, epoch : Epochs]
    <2> DEFINE S == [op : LogOps, epoch : Epochs]
    <2>1. log \in Seq(S) => \A i \in 1 .. Len(log) : log[i] \in S
      <3> HIDE DEF S
      <3>1. QED
        OBVIOUS
    <2>2. QED
      BY <1>1, <1>4, <1>5, <2>1 DEF Cur
  <1>6. QED
    BY <1>1, <1>2, <1>3, <1>4, <1>5

(* Dealing with a log moves the consuming thread by one, and only it. *)
LEMMA DoneFacts ==
  ASSUME TypeOK, NEW f \in Frags, NEW r \in RunType, run' = Done(f, r)
  PROVE  /\ run'[f] = [r EXCEPT !.pc = "consume", !.pos = r.pos + 1]
         /\ run'[f].pos = r.pos + 1 /\ run'[f].pc = "consume"
         /\ run'[f].idx = r.idx /\ run'[f].epoch = r.epoch
         /\ run'[f].parallel = r.parallel
         /\ \A g \in Frags \ {f} : run'[g] = run[g]
  BY DEF TypeOK, Types, Done, RunType

(* A writer that starts, or starts again, holds no log anywhere. *)
LEMMA NothingPlaced ==
  ASSUME NEW f \in Frags, run[f] = Down, queue[f] = << >>, applied[f] = {},
         \A t \in Threads : thr[f][t] = IdleThread
  PROVE  Accounted(f) /\ Apart(f) /\ Emptied(f)
  <1>1. Held(f) = {} /\ Busy(f) = {} /\ Range(<< >>) = {} /\ Len(<< >>) = 0
    BY DEF Held, Busy, IdleThread, Range
  <1>2. Ops(run[f].pos) = {}
    BY DEF Ops, Down
  <1>3. Accounted(f)
    BY <1>1, <1>2, FS_EmptySet DEF Accounted
  <1>4. Apart(f)
    <2>1. Range(queue[f]) = {} /\ Len(queue[f]) = 0
          /\ \A t \in Threads : thr[f][t].cur = 0
      BY <1>1 DEF IdleThread
    <2>2. QED
      BY <2>1 DEF Apart
  <1>5. Emptied(f)
    BY DEF Emptied, Publishing, Down
  <1>6. QED
    BY <1>3, <1>4, <1>5

(* Every initial state satisfies the invariants. *)
LEMMA InitInv == Init => EpochInv /\ CutInv /\ PlaceInv
  <1> SUFFICES ASSUME Init PROVE EpochInv /\ CutInv /\ PlaceInv
    OBVIOUS
  <1> USE RunnerAssumption
  <1>1. TypeOK
    <2>1. Types
      BY Numbers DEF Init, Types, RunType, ThreadType, ReaderType, Down, IdleThread,
         IdleReader
    <2>2. ASSUME NEW f \in Frags PROVE Positions(f)
      BY Numbers DEF Init, Positions, Down, IdleThread, Range
    <2>3. QED
      BY <2>1, <2>2 DEF TypeOK
  <1>2. LogSorted
    BY DEF Init, LogSorted
  <1>3. ASSUME NEW f \in Frags PROVE RunSound(f) /\ BlobsFirst(f)
    BY DEF Init, RunSound, BlobsFirst, Down, Publishing, NoKey, Epochs, Ended
  <1>4. ASSUME NEW r \in Readers PROVE ReaderSound(r)
    BY DEF Init, ReaderSound, IdleReader
  <1>5. CutInv
    BY DEF Init, CutInv, CutSound, Ops, Down
  <1>6. ASSUME NEW f \in Frags PROVE PlaceSound(f)
    <2>1. /\ run[f] = Down /\ queue[f] = << >> /\ applied[f] = {}
          /\ \A t \in Threads : thr[f][t] = IdleThread
      BY DEF Init
    <2>2. QED
      BY <2>1, NothingPlaced DEF PlaceSound
  <1>7. QED
    BY <1>1, <1>2, <1>3, <1>4, <1>5, <1>6 DEF EpochInv, PlaceInv

(* A step of the consuming thread keeps the types of the variables. *)
LEMMA ConsumerTypes ==
  ASSUME TypeOK, NEW f \in Frags, ConsumerStep(f)
  PROVE  Types'
  <1> USE DEF TypeOK, Types
  <1>1. /\ run[f] \in RunType /\ run[f].epoch \in Epochs
        /\ run[f].pos + 1 \in Nat /\ run[f].idx + 1 \in Nat
    BY RunFields
  <1>2. CASE Start(f)
    BY <1>1, <1>2 DEF Start, Goto, RunType, threads, Answers
  <1>3. CASE Consume(f)
    <2>1. run' \in [Frags -> RunType]
      BY <1>1, <1>3 DEF Consume, Barrier, Goto, RunType
    <2>2. QED
      BY <1>3, <2>1 DEF Consume, threads, etcd
  <1>4. CASE WaitEmpty(f)
    BY <1>1, <1>4 DEF WaitEmpty, RunType, threads, etcd
  <1>5. CASE WaitIdle(f)
    <2>1. run' \in [Frags -> RunType]
      BY <1>1, <1>5 DEF WaitIdle, Goto, RunType
    <2>2. QED
      BY <1>5, <2>1 DEF WaitIdle, threads, etcd
  <1>6. CASE UpdateBlob(f)
    BY <1>1, <1>6 DEF UpdateBlob, RunType, threads, etcd
  <1>7. CASE PutBlob(f)
    <2>1. run' \in [Frags -> RunType] /\ run[f].epoch \in Epochs
      BY <1>1, <1>7 DEF PutBlob, Goto, RunType
    <2>2. DOMAIN blobs' = Frags
          /\ \A g \in Frags : DOMAIN blobs'[g] \subseteq Epochs
      BY <1>7, <2>1 DEF PutBlob
    <2>3. QED
      BY <1>7, <2>1, <2>2 DEF PutBlob, threads
  <1>8. CASE PutLatest(f)
    <2>1. Cur(f).epoch \in Epochs
      BY <1>8, RunFields DEF PutLatest
    <2>2. run' \in [Frags -> RunType]
      BY <1>1, <1>8, <2>1 DEF PutLatest, RunType
    <2>3. QED
      BY <1>1, <1>8, <2>2 DEF PutLatest, threads, Answers
  <1>9. CASE BulkLoadEnd(f)
    BY <1>1, <1>9 DEF BulkLoadEnd, Done, RunType, threads, etcd
  <1>10. CASE ApplyHere(f)
    <2>1. run' \in [Frags -> RunType] /\ run[f].pos \in Nat
      BY <1>1, <1>10 DEF ApplyHere, Done, RunType
    <2>2. QED
      BY <1>10, <2>1 DEF ApplyHere, threads, etcd
  <1>11. CASE Dispatch(f)
    <2>1. run' \in [Frags -> RunType]
      BY <1>1, <1>11 DEF Dispatch, Barrier, Goto, RunType
    <2>2. QED
      BY <1>11, <2>1 DEF Dispatch, threads, etcd
  <1>12. CASE Push(f)
    <2>1. run' \in [Frags -> RunType] /\ run[f].pos \in Nat
      BY <1>1, <1>12 DEF Push, Done, RunType
    <2>2. Append(queue[f], run[f].pos + 1) \in Seq(Nat)
      BY <2>1
    <2>3. QED
      BY <1>12, <2>1, <2>2 DEF Push, etcd
  <1>13. QED
    BY <1>2, <1>3, <1>4, <1>5, <1>6, <1>7, <1>8, <1>9, <1>10, <1>11, <1>12
       DEF ConsumerStep

(* The positions of a fragment depend on its own variables and the log. *)
LEMMA PositionsElsewhere ==
  ASSUME NEW g \in Frags, Positions(g), log' = log, run'[g] = run[g],
         queue'[g] = queue[g], thr'[g] = thr[g], applied'[g] = applied[g]
  PROVE  Positions(g)'
  BY DEF Positions

(* A log that was dealt with is inside the part of the log consumed. *)
LEMMA PositionsDone ==
  ASSUME TypeOK, NEW f \in Frags, NEW r \in RunType,
         run[f].pc \notin {"consume", "down"},
         r.pos = run[f].pos, r.idx = run[f].idx, run' = Done(f, r),
         log' = log, thr' = thr,
         Range(queue'[f]) \subseteq Range(queue[f]) \cup {run[f].pos + 1},
         applied'[f] \subseteq applied[f] \cup {run[f].pos + 1}
  PROVE  Positions(f)'
  <1>1. /\ run'[f].pos = run[f].pos + 1 /\ run'[f].pc = "consume"
        /\ run'[f].idx = run[f].idx
    BY DoneFacts
  <1>2. /\ Positions(f) /\ run[f].pos \in Nat /\ run[f].pos < Len(log)
        /\ \A t \in Threads : thr[f][t].cur \in Nat
    BY RunFields DEF TypeOK, Types, ThreadType
  <1>3. run'[f].pos <= Len(log')
    BY <1>1, <1>2, RunFields DEF Positions
  <1>4. Range(queue'[f]) \subseteq 1 .. run'[f].pos
    BY <1>1, <1>2 DEF Positions
  <1>5. applied'[f] \subseteq 1 .. run'[f].pos
    BY <1>1, <1>2 DEF Positions
  <1>6. \A t \in Threads : /\ thr'[f][t].cur <= run'[f].pos
                           /\ thr'[f][t].cur = 0 <=> thr'[f][t].pc \in {"pop", "clear"}
    BY <1>1, <1>2 DEF Positions
  <1>7. run'[f].idx <= NumThreads
    BY <1>1, <1>2 DEF Positions
  <1>8. run'[f].pc = "consume"
    BY <1>1
  <1>9. QED
    BY <1>3, <1>4, <1>5, <1>6, <1>7, <1>8 DEF Positions

(* A step of the consuming thread keeps the positions inside the log. *)
LEMMA ConsumerPositions ==
  ASSUME TypeOK, NEW f \in Frags, ConsumerStep(f)
  PROVE  \A g \in Frags : Positions(g)'
  <1>1. \A g \in Frags \ {f} : Positions(g)'
    <2> SUFFICES ASSUME NEW g \in Frags \ {f} PROVE Positions(g)'
      OBVIOUS
    <2>1. log' = log /\ thr'[g] = thr[g]
      BY DEF ConsumerStep, Start, Consume, WaitEmpty, WaitIdle, UpdateBlob, PutBlob,
         PutLatest, BulkLoadEnd, ApplyHere, Dispatch, Push, threads
    <2>2. run'[g] = run[g]
      BY DEF ConsumerStep, Start, Consume, WaitEmpty, WaitIdle, UpdateBlob, PutBlob,
         PutLatest, BulkLoadEnd, ApplyHere, Dispatch, Push, Barrier, Goto, Done,
         TypeOK, Types
    <2>3. queue'[g] = queue[g] /\ applied'[g] = applied[g]
      BY DEF ConsumerStep, Start, Consume, WaitEmpty, WaitIdle, UpdateBlob, PutBlob,
         PutLatest, BulkLoadEnd, ApplyHere, Dispatch, Push, threads, TypeOK, Types
    <2>4. QED
      BY <2>1, <2>2, <2>3, PositionsElsewhere DEF TypeOK
  <1> SUFFICES Positions(f)'
    BY <1>1
  <1>2. /\ run[f] \in RunType /\ Positions(f) /\ NumThreads \in Nat
        /\ run[f].pos \in Nat /\ run[f].idx \in Nat /\ Len(log) \in Nat
        /\ DOMAIN run = Frags /\ DOMAIN queue = Frags /\ DOMAIN applied = Frags
        /\ \A t \in Threads : thr[f][t].cur \in Nat
    BY RunFields, Numbers DEF TypeOK, Types, ThreadType
  <1>3. CASE Start(f)
    BY <1>2, <1>3 DEF Start, Goto, RunType, threads, Positions
  <1>4. CASE Consume(f)
    BY <1>2, <1>4 DEF Consume, Barrier, Goto, RunType, threads, etcd, Positions
  <1>5. CASE WaitEmpty(f)
    BY <1>2, <1>5 DEF WaitEmpty, RunType, threads, etcd, Positions
  <1>6. CASE WaitIdle(f)
    BY <1>2, <1>6 DEF WaitIdle, Goto, RunType, threads, etcd, Positions, Threads
  <1>7. CASE UpdateBlob(f)
    BY <1>2, <1>7 DEF UpdateBlob, RunType, threads, etcd, Positions
  <1>8. CASE PutBlob(f)
    BY <1>2, <1>8 DEF PutBlob, Goto, RunType, threads, Positions
  <1>9. CASE PutLatest(f)
    BY <1>2, <1>9 DEF PutLatest, RunType, threads, Positions
  <1>10. CASE BulkLoadEnd(f)
    <2>1. /\ run' = Done(f, run[f]) /\ run[f].pc \notin {"consume", "down"}
          /\ log' = log /\ thr' = thr /\ queue' = queue /\ applied' = applied
      BY <1>10 DEF BulkLoadEnd, threads
    <2>2. QED
      BY <1>2, <2>1, PositionsDone
  <1>11. CASE ApplyHere(f)
    <2>1. applied'[f] = applied[f] \cup {run[f].pos + 1}
      BY <1>2, <1>11 DEF ApplyHere
    <2>2. /\ run' = Done(f, run[f]) /\ run[f].pc \notin {"consume", "down"}
          /\ log' = log /\ thr' = thr /\ queue' = queue
      BY <1>11 DEF ApplyHere, threads
    <2>3. QED
      BY <1>2, <2>1, <2>2, PositionsDone
  <1>12. CASE Dispatch(f)
    BY <1>2, <1>12 DEF Dispatch, Barrier, Goto, RunType, threads, etcd, Positions
  <1>13. CASE Push(f)
    <2>1. queue'[f] = Append(queue[f], run[f].pos + 1)
      BY <1>2, <1>13 DEF Push
    <2>2. queue[f] \in Seq(Nat) /\ run[f].pos + 1 \in Nat
      BY RunFields DEF TypeOK, Types
    <2>3. Range(queue'[f]) = Range(queue[f]) \cup {run[f].pos + 1}
      BY <2>1, <2>2, AppendFacts
    <2> DEFINE r == [run[f] EXCEPT !.parallel = @ \/ Cur(f).op = "add"]
    <2>4. r \in RunType /\ r.pos = run[f].pos /\ r.idx = run[f].idx
      BY <1>2 DEF RunType
    <2>5. /\ run' = Done(f, r) /\ run[f].pc \notin {"consume", "down"}
          /\ log' = log /\ thr' = thr /\ applied' = applied
      BY <1>13 DEF Push
    <2> HIDE DEF r
    <2>6. QED
      BY <2>3, <2>4, <2>5, PositionsDone
  <1>14. QED
    BY <1>3, <1>4, <1>5, <1>6, <1>7, <1>8, <1>9, <1>10, <1>11, <1>12, <1>13
       DEF ConsumerStep

(* A step of a processing thread keeps the variables well typed. *)
LEMMA ThreadTypes ==
  ASSUME TypeOK, NEW f \in Frags, NEW t \in Threads, ThreadStep(f, t)
  PROVE  TypeOK'
  <1>1. /\ thr[f] \in [Threads -> ThreadType] /\ thr[f][t] \in ThreadType
        /\ thr[f][t].cur \in Nat /\ working[f] \in [Threads -> BOOLEAN]
        /\ Positions(f) /\ run[f].pos \in Nat
        /\ DOMAIN thr = Frags /\ DOMAIN queue = Frags /\ DOMAIN applied = Frags
        /\ \A u \in Threads : thr[f][u].cur \in Nat
    BY RunFields DEF TypeOK, Types, ThreadType
  <1>2. \A g \in Frags \ {f} : Positions(g)'
    <2> SUFFICES ASSUME NEW g \in Frags \ {f} PROVE Positions(g)'
      OBVIOUS
    <2>1. /\ log' = log /\ run'[g] = run[g] /\ queue'[g] = queue[g]
          /\ thr'[g] = thr[g] /\ applied'[g] = applied[g]
      BY <1>1 DEF ThreadStep, Pop, LoadToClear, LoadToSet, StoreWord, ApplyInThread,
         SetThread, etcd
    <2>2. QED
      BY <2>1, PositionsElsewhere DEF TypeOK
  <1>3. CASE Pop(f, t)
    <2>1. /\ Head(queue[f]) \in Nat /\ Tail(queue[f]) \in Seq(Nat)
          /\ Range(queue[f]) = Range(Tail(queue[f])) \cup {Head(queue[f])}
      BY <1>3, TailFacts DEF Pop, TypeOK, Types
    <2>2. [thr[f][t] EXCEPT !.pc = "popped", !.cur = Head(queue[f])] \in ThreadType
      BY <1>1, <2>1 DEF ThreadType
    <2>3. Types'
      BY <1>3, <2>1, <2>2 DEF Pop, SetThread, TypeOK, Types, etcd
    <2>4. Head(queue[f]) \in 1 .. run[f].pos
      BY <1>1, <2>1 DEF Positions
    <2>5. \A u \in Threads :
            /\ thr'[f][u].cur <= run'[f].pos
            /\ thr'[f][u].cur = 0 <=> thr'[f][u].pc \in {"pop", "clear"}
      BY <1>1, <1>3, <2>4 DEF Pop, SetThread, Positions, ThreadType
    <2>6. queue'[f] = Tail(queue[f]) /\ UNCHANGED <<log, run, applied>>
      BY <1>1, <1>3 DEF Pop
    <2>7. Positions(f)'
      BY <1>1, <2>1, <2>5, <2>6 DEF Positions
    <2>8. QED
      BY <1>2, <2>3, <2>7 DEF TypeOK
  <1>4. CASE LoadToClear(f, t)
    <2>1. [thr[f][t] EXCEPT !.pc = "clear", !.word = working[f]] \in ThreadType
      BY <1>1 DEF ThreadType
    <2>2. Types'
      BY <1>4, <2>1 DEF LoadToClear, SetThread, TypeOK, Types, etcd
    <2>3. Positions(f)'
      BY <1>1, <1>4 DEF LoadToClear, SetThread, Positions, ThreadType
    <2>4. QED
      BY <1>2, <2>2, <2>3 DEF TypeOK
  <1>5. CASE LoadToSet(f, t)
    <2>1. /\ [thr[f][t] EXCEPT !.pc = "set", !.word = working[f]] \in ThreadType
          /\ [thr[f][t] EXCEPT !.pc = "apply"] \in ThreadType
      BY <1>1 DEF ThreadType
    <2>2. Types'
      BY <1>5, <2>1 DEF LoadToSet, SetThread, TypeOK, Types, etcd
    <2>3. Positions(f)'
      BY <1>1, <1>5 DEF LoadToSet, SetThread, Positions, ThreadType
    <2>4. QED
      BY <1>2, <2>2, <2>3 DEF TypeOK
  <1>6. CASE StoreWord(f, t)
    <2>1. thr[f][t].word \in [Threads -> BOOLEAN]
      BY <1>1 DEF ThreadType
    <2>2. [thr[f][t].word EXCEPT ![t] = (thr[f][t].pc = "set")] \in [Threads -> BOOLEAN]
      BY <2>1
    <2>3. [thr[f][t] EXCEPT !.word = [u \in Threads |-> TRUE],
             !.pc = IF thr[f][t].pc = "set" THEN "apply" ELSE "pop"] \in ThreadType
      BY <1>1 DEF ThreadType
    <2>4. Types'
      BY <1>6, <2>2, <2>3 DEF StoreWord, SetThread, TypeOK, Types, etcd
    <2>5. Positions(f)'
      BY <1>1, <1>6 DEF StoreWord, SetThread, Positions, ThreadType
    <2>6. QED
      BY <1>2, <2>4, <2>5 DEF TypeOK
  <1>7. CASE ApplyInThread(f, t)
    <2>1. [thr[f][t] EXCEPT !.pc = "pop", !.cur = 0] \in ThreadType
      BY <1>1 DEF ThreadType
    <2>2. Types'
      BY <1>1, <1>7, <2>1 DEF ApplyInThread, SetThread, TypeOK, Types, etcd
    <2>3. \A u \in Threads :
            /\ thr'[f][u].cur <= run'[f].pos
            /\ thr'[f][u].cur = 0 <=> thr'[f][u].pc \in {"pop", "clear"}
      BY <1>1, <1>7 DEF ApplyInThread, SetThread, Positions, ThreadType
    <2>4. thr[f][t].cur # 0
      BY <1>7 DEF ApplyInThread, Positions, TypeOK
    <2>5. applied'[f] \subseteq 1 .. run[f].pos
      BY <1>1, <1>7, <2>4 DEF ApplyInThread, Positions
    <2>6. UNCHANGED <<log, run, queue>>
      BY <1>7 DEF ApplyInThread
    <2>7. Positions(f)'
      BY <1>1, <2>3, <2>5, <2>6 DEF Positions
    <2>8. QED
      BY <1>2, <2>2, <2>7 DEF TypeOK
  <1>8. QED
    BY <1>3, <1>4, <1>5, <1>6, <1>7 DEF ThreadStep

(* A step of a reader keeps the variables well typed. *)
LEMMA ReaderTypes ==
  ASSUME TypeOK, NEW r \in Readers, ReaderStep(r)
  PROVE  TypeOK'
  <1>1. /\ reader[r] \in ReaderType /\ reader[r].vals \in Seq(Answers)
        /\ IdleReader \in ReaderType /\ IdleReader.pc = "latest"
    BY Numbers DEF TypeOK, Types, ReaderType, IdleReader
  <1>2. UNCHANGED <<log, run, queue, working, thr, applied, blobs, latest>>
    BY DEF ReaderStep, ReadLatest, ChooseEpoch, EndRead, ReadBlob, SetReader,
       threads, etcd
  <1>3. \A f \in Frags : Positions(f)'
    BY <1>2, PositionsElsewhere DEF TypeOK
  <1>4. SUFFICES ASSUME NEW x \in ReaderType, reader' = [reader EXCEPT ![r] = x],
                        x.pc = "blobs" => x.found \in Found
                 PROVE  Types'
    <2>1. \E x \in ReaderType : /\ reader' = [reader EXCEPT ![r] = x]
                                /\ x.pc = "blobs" => x.found \in Found
      <3>1. CASE ReadLatest(r)
        <4>1. Len(reader[r].vals) + 1 \in Frags /\ reader[r].pc = "latest"
          BY <3>1 DEF ReadLatest
        <4>2. latest[Len(reader[r].vals) + 1] \in Answers
          BY <3>1, <4>1 DEF ReadLatest, TypeOK, Types
        <4>3. Append(reader[r].vals, latest[Len(reader[r].vals) + 1]) \in Seq(Answers)
          BY <1>1, <4>2
        <4> DEFINE x == [reader[r] EXCEPT
                           !.vals = Append(@, latest[Len(reader[r].vals) + 1])]
        <4>4. x \in ReaderType /\ x.pc = "latest"
          BY <1>1, <4>1, <4>3 DEF ReaderType
        <4>5. QED
          BY <3>1, <4>4 DEF ReadLatest, SetReader
      <3>2. CASE ChooseEpoch(r)
        <4> DEFINE S == {UINT64_MAX} \cup {reader[r].vals[f] : f \in Frags}
        <4>1. \A f \in Frags : reader[r].vals[f] \in Answers
          BY <1>1, <3>2 DEF ChooseEpoch, Frags
        <4>2. S \subseteq Answers /\ S # {}
          BY <4>1 DEF Answers
        <4>3. S \in SUBSET Nat
          BY <4>2, Numbers DEF Answers, Epochs
        <4>4. Min(S) \in Answers
          BY <4>2, <4>3, MinIsLeast
        <4> DEFINE x == [reader[r] EXCEPT !.pc = "blobs", !.epoch = Min(S),
                           !.found = [f \in Frags |-> "not read"]]
        <4>5. CASE Min(S) # UINT64_MAX
          <5>1. Min(S) \in Epochs
            BY <4>4, <4>5 DEF Answers
          <5>2. [f \in Frags |-> "not read"] \in Found
            BY DEF Found
          <5>3. x \in ReaderType /\ x.found \in Found
            <6> HIDE DEF S
            <6>1. QED
              BY <1>1, <5>1, <5>2 DEF ReaderType
          <5>4. QED
            BY <3>2, <4>5, <5>3 DEF ChooseEpoch, SetReader
        <4>6. CASE Min(S) = UINT64_MAX
          BY <1>1, <3>2, <4>6 DEF ChooseEpoch, SetReader
        <4>7. QED
          BY <4>5, <4>6
      <3>3. CASE EndRead(r)
        BY <1>1, <3>3 DEF EndRead, SetReader
      <3>4. ASSUME NEW f \in Frags, ReadBlob(r, f)
            PROVE  \E x \in ReaderType : /\ reader' = [reader EXCEPT ![r] = x]
                                         /\ x.pc = "blobs" => x.found \in Found
        <4>1. reader[r].found \in Found /\ reader[r].pc = "blobs"
          BY <3>4 DEF ReadBlob, TypeOK, Types
        <4> DEFINE v == IF reader[r].epoch \in DOMAIN blobs[f] THEN "blob" ELSE "missing"
                   x == [reader[r] EXCEPT !.found[f] = v]
        <4>2. [reader[r].found EXCEPT ![f] = v] \in Found
          BY <4>1 DEF Found
        <4>3. x \in ReaderType /\ x.found \in Found
          BY <1>1, <4>2 DEF ReaderType
        <4>4. QED
          BY <3>4, <4>3 DEF ReadBlob, SetReader
      <3>5. QED
        BY <3>1, <3>2, <3>3, <3>4 DEF ReaderStep
    <2>2. QED
      BY <1>3, <2>1 DEF TypeOK
  <1>5. QED
    BY <1>2, <1>4 DEF TypeOK, Types

(* A step of a writer, of one of its threads, of a reader or of the         *)
(* converter keeps the variables well typed.                                *)
LEMMA TypeStep == TypeOK /\ [Next]_vars => TypeOK'
  <1> SUFFICES ASSUME TypeOK, [Next]_vars PROVE TypeOK'
    OBVIOUS
  <1>1. ASSUME NEW op \in LogOps, NEW e \in 0 .. MaxEpoch, Emit(op, e) PROVE TypeOK'
    <2>1. [op |-> op, epoch |-> e] \in [op : LogOps, epoch : Epochs]
      BY DEF Epochs
    <2>2. log' \in Seq([op : LogOps, epoch : Epochs]) /\ Len(log') = Len(log) + 1
      BY <1>1, <2>1, AppendFacts DEF Emit, TypeOK, Types
    <2>3. UNCHANGED <<run, queue, working, thr, applied, blobs, latest, reader>>
      BY <1>1 DEF Emit, threads, etcd
    <2>4. Types'
      BY <2>2, <2>3 DEF TypeOK, Types
    <2>5. ASSUME NEW f \in Frags PROVE Positions(f)'
      <3>1. Positions(f) /\ run[f].pos \in Nat /\ Len(log) \in Nat
        BY RunFields DEF TypeOK, Types
      <3>2. run[f].pos <= Len(log) + 1
        BY <3>1 DEF Positions
      <3>3. run[f].pos < Len(log) => run[f].pos < Len(log) + 1
        BY <3>1
      <3>4. QED
        BY <2>2, <2>3, <3>1, <3>2, <3>3 DEF Positions
    <2>6. QED
      BY <2>4, <2>5 DEF TypeOK
  <1>2. ASSUME NEW f \in Frags, ConsumerStep(f) PROVE TypeOK'
    BY <1>2, ConsumerTypes, ConsumerPositions DEF TypeOK
  <1>3. ASSUME NEW f \in Frags, Crash(f) PROVE TypeOK'
    <2>1. Down \in RunType /\ Down.pos = 0 /\ Down.pc = "down" /\ Down.idx = 0
      BY Numbers DEF Down, RunType
    <2>2. IdleThread \in ThreadType /\ IdleThread.cur = 0 /\ IdleThread.pc = "pop"
      BY DEF IdleThread, ThreadType
    <2>3. << >> \in Seq(Nat) /\ Range(<< >>) = {}
      BY DEF Range
    <2>4. Types'
      BY <1>3, <2>1, <2>2, <2>3 DEF Crash, TypeOK, Types, etcd
    <2>5. ASSUME NEW g \in Frags PROVE Positions(g)'
      <3>1. Positions(g) /\ Len(log) \in Nat /\ NumThreads \in Nat
        BY Numbers DEF TypeOK, Types
      <3>2. CASE g = f
        <4>1. /\ run'[g] = Down /\ queue'[g] = << >> /\ applied'[g] = {} /\ log' = log
              /\ \A t \in Threads : thr'[g][t] = IdleThread
          BY <1>3, <3>2 DEF Crash, TypeOK, Types
        <4>2. QED
          BY <2>1, <2>2, <2>3, <3>1, <4>1 DEF Positions
      <3>3. CASE g # f
        BY <1>3, <3>1, <3>3, PositionsElsewhere DEF Crash, TypeOK, Types
      <3>4. QED
        BY <3>2, <3>3
    <2>6. QED
      BY <2>4, <2>5 DEF TypeOK
  <1>4. ASSUME NEW f \in Frags, NEW t \in Threads, ThreadStep(f, t) PROVE TypeOK'
    BY <1>4, ThreadTypes
  <1>5. ASSUME NEW r \in Readers, ReaderStep(r) PROVE TypeOK'
    BY <1>5, ReaderTypes
  <1>6. CASE UNCHANGED vars
    <2>1. Types'
      BY <1>6 DEF vars, TypeOK, Types
    <2>2. QED
      BY <1>6, <2>1, PositionsElsewhere DEF vars, TypeOK
  <1>7. QED
    BY <1>1, <1>2, <1>3, <1>4, <1>5, <1>6 DEF Next

(* The variables always have their types: positions stay inside the log,    *)
(* a queue holds only consumed logs, a fragment's keys name epochs.         *)
THEOREM TypeCorrect == Spec => []TypeOK
  <1>1. Init => TypeOK
    BY InitInv DEF EpochInv
  <1>2. QED
    BY <1>1, TypeStep, PTL DEF Spec

-----------------------------------------------------------------------------
(* Epochs: the blobs come before the keys that announce them *)

(* The logs are records of an operation and an epoch. *)
LEMMA LogFields ==
  ASSUME TypeOK
  PROVE  /\ Len(log) \in Nat
         /\ \A i \in 1 .. Len(log) : log[i].epoch \in Epochs /\ log[i].epoch \in Nat
         /\ \A d \in Epochs : d \in Nat
         /\ 0 \in Epochs /\ UINT64_MAX \notin Epochs /\ NoKey \notin Epochs
  <1>1. \A d \in Epochs : d \in Nat /\ d <= MaxEpoch
    BY Numbers DEF Epochs
  <1>2. log \in Seq([op : LogOps, epoch : Epochs])
    BY DEF TypeOK, Types
  <1>3. \A i \in 1 .. Len(log) : log[i] \in [op : LogOps, epoch : Epochs]
    <2> DEFINE S == [op : LogOps, epoch : Epochs]
    <2> HIDE DEF S
    <2>1. log \in Seq(S) => \A i \in 1 .. Len(log) : log[i] \in S
      OBVIOUS
    <2>2. QED
      BY <1>2, <2>1 DEF S
  <1>4. UINT64_MAX \notin Epochs /\ NoKey \notin Epochs
    BY Numbers DEF Epochs, NoKey
  <1>5. QED
    BY <1>1, <1>2, <1>3, <1>4, Numbers

(* A log added to the unified log ends at most one epoch, a later one than  *)
(* any that ended before: the converter's epochs do not decrease.           *)
LEMMA EmitFacts ==
  ASSUME TypeOK, LogSorted, NEW op \in LogOps, NEW e \in 0 .. MaxEpoch, Emit(op, e)
  PROVE  /\ Len(log') = Len(log) + 1
         /\ \A i \in 1 .. Len(log) : log'[i] = log[i] /\ log[i].epoch <= e
         /\ log'[Len(log) + 1] = [op |-> op, epoch |-> e]
         /\ LogSorted'
         /\ Ended \subseteq Ended'
         /\ \A d \in Ended' \ Ended : \A i \in 1 .. Len(log) : log[i].epoch <= d
  <1>1. /\ Len(log) \in Nat /\ Len(log') = Len(log) + 1
        /\ \A i \in 1 .. Len(log) : log'[i] = log[i]
        /\ log'[Len(log) + 1] = [op |-> op, epoch |-> e]
    <2>1. [op |-> op, epoch |-> e] \in [op : LogOps, epoch : Epochs]
      BY DEF Epochs
    <2>2. log \in Seq([op : LogOps, epoch : Epochs])
          /\ log' = Append(log, [op |-> op, epoch |-> e])
      BY DEF TypeOK, Types, Emit
    <2>3. QED
      BY <2>1, <2>2, AppendFacts, LogFields
  <1>2. e \in Nat /\ log'[Len(log) + 1].epoch = e
    BY <1>1, Numbers
  <1>3. \A i \in 1 .. Len(log) : log[i].epoch <= e
    <2> SUFFICES ASSUME NEW i \in 1 .. Len(log) PROVE log[i].epoch <= e
      OBVIOUS
    <2>1. log # << >> /\ Len(log) \in 1 .. Len(log)
      BY <1>1
    <2>2. log[i].epoch <= log[Len(log)].epoch
      BY <1>1, <2>1 DEF LogSorted
    <2>3. log[Len(log)].epoch <= e
      BY <2>1 DEF Emit, LastEpoch
    <2>4. QED
      BY <1>2, <2>1, <2>2, <2>3, LogFields
  <1>4. LogSorted'
    <2> SUFFICES ASSUME NEW i \in 1 .. Len(log) + 1, NEW j \in 1 .. Len(log) + 1, i <= j
                 PROVE  log'[i].epoch <= log'[j].epoch
      BY <1>1 DEF LogSorted
    <2>1. CASE j = Len(log) + 1 /\ i = Len(log) + 1
      BY <1>2, <2>1
    <2>2. CASE j = Len(log) + 1 /\ i # Len(log) + 1
      <3>1. i \in 1 .. Len(log)
        BY <1>1, <2>2
      <3>2. QED
        BY <1>1, <1>2, <1>3, <2>2, <3>1
    <2>3. CASE j # Len(log) + 1
      <3>1. i \in 1 .. Len(log) /\ j \in 1 .. Len(log)
        BY <1>1, <2>3
      <3>2. QED
        BY <1>1, <3>1 DEF LogSorted
    <2>4. QED
      BY <2>1, <2>2, <2>3
  <1>5. \A i \in 1 .. Len(log) : i \in 1 .. Len(log')
    BY <1>1
  <1>6. Ended \subseteq Ended'
    BY <1>1, <1>5 DEF Ended, Epochs
  <1>7. ASSUME NEW d \in Ended', d \notin Ended, NEW k \in 1 .. Len(log)
        PROVE  log[k].epoch <= d
    <2>1. d \in Epochs /\ d \in Nat /\ log[k].epoch \in Nat
      BY LogFields DEF Ended, Epochs
    <2>2. CASE d = 0 \/ \E i \in 1 .. Len(log) : log[i].epoch = d
      BY <1>7, <2>1, <2>2, LogFields DEF Ended
    <2>3. CASE ~ (d = 0 \/ \E i \in 1 .. Len(log) : log[i].epoch = d)
      <3>1. \A i \in 1 .. Len(log') : i \in 1 .. Len(log) \/ i = Len(log) + 1
        BY <1>1
      <3>2. d = e
        BY <1>1, <1>2, <2>3, <3>1 DEF Ended
      <3>3. QED
        BY <1>3, <3>2
    <2>4. QED
      BY <2>2, <2>3
  <1>8. QED
    BY <1>1, <1>3, <1>4, <1>6, <1>7

(* What is known of a fragment depends on its own variables and the log. *)
LEMMA FragmentElsewhere ==
  ASSUME NEW g \in Frags, RunSound(g), BlobsFirst(g), log' = log, run'[g] = run[g],
         blobs'[g] = blobs[g], latest'[g] = latest[g]
  PROVE  RunSound(g)' /\ BlobsFirst(g)'
  BY DEF RunSound, BlobsFirst, Cur, Announced, BlobsUpTo, Ended

(* What a reader was told holds as long as no blob disappears. *)
LEMMA ReaderElsewhere ==
  ASSUME NEW r \in Readers, ReaderSound(r), log' = log, reader'[r] = reader[r],
         \A f \in Frags : DOMAIN blobs[f] \subseteq DOMAIN blobs'[f],
         \A f \in 1 .. Len(reader[r].vals) : f \in Frags
  PROVE  ReaderSound(r)'
  BY DEF ReaderSound, Announced, BlobsUpTo, Ended

(* A new log keeps what is known of the fragments and of the readers. *)
LEMMA EmitSound ==
  ASSUME EpochInv, NEW op \in LogOps, NEW e \in 0 .. MaxEpoch, Emit(op, e)
  PROVE  /\ \A f \in Frags : RunSound(f)' /\ BlobsFirst(f)'
         /\ \A r \in Readers : ReaderSound(r)'
  <1> USE DEF EpochInv
  <1>1. /\ UNCHANGED <<run, blobs, latest, reader>>
        /\ Len(log) \in Nat /\ Len(log') = Len(log) + 1
        /\ \A i \in 1 .. Len(log) : i \in 1 .. Len(log') /\ log'[i] = log[i]
    BY EmitFacts, LogFields DEF Emit, etcd
  <1>2. /\ Ended \subseteq Ended'
        /\ \A d \in Ended' : d \in Nat
        /\ \A d \in Ended' \ Ended : \A i \in 1 .. Len(log) : log[i].epoch <= d
    BY EmitFacts, LogFields DEF Ended, Epochs
  <1>3. ASSUME NEW f \in Frags, NEW v, Announced(f, v)
        PROVE  v \in Ended' /\ \A d \in Ended' : d <= v => d \in DOMAIN blobs[f]
    <2>1. v \in Ended' /\ v \in Nat
      BY <1>2, <1>3 DEF Announced
    <2>2. PICK i \in 1 .. Len(log) : log[i].epoch > v
      BY <1>3 DEF Announced, Ended
    <2>3. ASSUME NEW d \in Ended', d <= v PROVE d \in DOMAIN blobs[f]
      <3>1. CASE d \in Ended
        BY <1>3, <2>3, <3>1 DEF Announced, BlobsUpTo
      <3>2. CASE d \notin Ended
        BY <1>2, <2>1, <2>2, <2>3, <3>2, LogFields
      <3>3. QED
        BY <3>1, <3>2
    <2>4. QED
      BY <2>1, <2>3
  <1>4. ASSUME NEW f \in Frags PROVE RunSound(f)'
    <2>1. Cur(f)' = Cur(f) \/ run[f].pc \in {"consume", "down"}
      BY <1>1, RunFields DEF Cur
    <2>2. \A i \in 1 .. run[f].pos : i \in 1 .. Len(log)
      BY RunFields, <1>1 DEF TypeOK, Positions
    <2>3. RunSound(f)
      OBVIOUS
    <2>4. QED
      BY <1>1, <2>1, <2>2, <2>3 DEF RunSound, Publishing
  <1>5. ASSUME NEW f \in Frags PROVE BlobsFirst(f)'
    <2>1. ASSUME NEW d \in Ended', d < run[f].epoch PROVE d \in DOMAIN blobs[f]
      <3>1. CASE d \in Ended
        BY <2>1, <3>1 DEF BlobsFirst
      <3>2. CASE d \notin Ended
        <4>1. run[f].epoch = 0 \/ \E i \in 1 .. Len(log) : log[i].epoch = run[f].epoch
          BY DEF RunSound
        <4>2. QED
          BY <1>2, <2>1, <3>2, <4>1, LogFields, RunFields
      <3>3. QED
        BY <3>1, <3>2
    <2>2. latest[f] \in Epochs => Announced(f, latest[f])
      BY DEF BlobsFirst
    <2>3. latest[f] \in Epochs =>
            /\ latest[f] \in Ended'
            /\ \A d \in Ended' : d <= latest[f] => d \in DOMAIN blobs[f]
      BY <1>3, <2>2
    <2>4. run[f].pc = "put_latest" => run[f].epoch \in DOMAIN blobs[f]
      BY DEF BlobsFirst
    <2>5. latest' = latest /\ run' = run /\ blobs' = blobs
      BY <1>1
    <2>6. QED
      BY <2>1, <2>3, <2>4, <2>5 DEF BlobsFirst, Epochs, Announced, BlobsUpTo
  <1>6. ASSUME NEW r \in Readers PROVE ReaderSound(r)'
    <2>1. ReaderSound(r) /\ Len(reader[r].vals) \in Nat
      BY DEF TypeOK, Types, ReaderType
    <2>2. \A f \in 1 .. Len(reader[r].vals) : f \in Frags
      BY <2>1, Numbers DEF ReaderSound, Frags
    <2>3. ASSUME NEW f \in 1 .. Len(reader[r].vals), reader[r].vals[f] \in Epochs
          PROVE  /\ reader[r].vals[f] \in Ended'
                 /\ \A d \in Ended' : d <= reader[r].vals[f] => d \in DOMAIN blobs[f]
      BY <1>3, <2>1, <2>2, <2>3 DEF ReaderSound
    <2>4. reader' = reader
      BY <1>1
    <2>5. QED
      BY <1>1, <2>1, <2>3, <2>4 DEF ReaderSound, Epochs, Announced, BlobsUpTo
  <1>7. QED
    BY <1>4, <1>5, <1>6

(* A step of the consuming thread keeps what is known of its fragment: it   *)
(* publishes an epoch once all logs of it are behind, writes the blob, then *)
(* announces it.                                                            *)
LEMMA ConsumerSound ==
  ASSUME EpochInv, NEW f \in Frags, ConsumerStep(f)
  PROVE  RunSound(f)' /\ BlobsFirst(f)'
  <1> USE DEF EpochInv
  <1>1. /\ RunSound(f) /\ BlobsFirst(f) /\ run[f] \in RunType
        /\ run[f].pos \in Nat /\ run[f].epoch \in Nat /\ Len(log) \in Nat
        /\ DOMAIN run = Frags /\ DOMAIN latest = Frags /\ DOMAIN blobs = Frags
        /\ \A d \in Ended : d \in Nat
    BY RunFields, LogFields DEF TypeOK, Types, Ended
  <1>2. log' = log /\ Ended' = Ended
    <2>1. log' = log
      BY DEF ConsumerStep, Start, Consume, WaitEmpty, WaitIdle, UpdateBlob, PutBlob,
         PutLatest, BulkLoadEnd, ApplyHere, Dispatch, Push
    <2>2. QED
      BY <2>1 DEF Ended, Epochs
  <1>3. CASE Start(f)
    <2>1. /\ run'[f].pc = "consume" /\ run'[f].epoch = run[f].epoch
          /\ run'[f].pos = run[f].pos
          /\ latest'[f] = UINT64_MAX /\ blobs' = blobs
      BY <1>1, <1>3 DEF Start, Goto, RunType
    <2>2. RunSound(f)'
      BY <1>1, <1>2, <2>1 DEF RunSound, Publishing
    <2>3. BlobsFirst(f)'
      BY <1>1, <1>2, <2>1, LogFields DEF BlobsFirst, Epochs
    <2>4. QED
      BY <2>2, <2>3
  <1>4. CASE Consume(f)
    <2>1. /\ run'[f].epoch = run[f].epoch /\ run'[f].pos = run[f].pos
          /\ latest' = latest /\ blobs' = blobs
          /\ run'[f].pc \in {"publish", "dispatch", "barrier"}
          /\ run'[f].pc = "barrier" => run'[f].then = "publish"
          /\ run'[f].pc = "dispatch" <=> ~ (Cur(f).epoch > run[f].epoch)
      BY <1>1, <1>4 DEF Consume, Barrier, Goto, RunType, etcd
    <2>2. run[f].pos + 1 \in 1 .. Len(log)
      BY <1>1, <1>4 DEF Consume
    <2>3. Cur(f)' = Cur(f) /\ Cur(f).epoch \in Nat
      BY <1>2, <2>1, <2>2, LogFields DEF Cur
    <2>4. RunSound(f)'
      BY <1>1, <1>2, <2>1, <2>3 DEF RunSound, Publishing
    <2>5. BlobsFirst(f)'
      BY <1>1, <1>2, <2>1 DEF BlobsFirst, Epochs, Announced, BlobsUpTo
    <2>6. QED
      BY <2>4, <2>5
  <1>5. ASSUME run'[f].epoch = run[f].epoch, run'[f].pos = run[f].pos,
               run'[f].then = run[f].then, run'[f].pc # "put_latest",
               latest' = latest, blobs' = blobs,
               run'[f].pc \in Publishing \/ run'[f].pc \in {"push", "barrier"},
               run'[f].pc \in Publishing =>
                 \/ run[f].pc \in Publishing
                 \/ run[f].pc = "barrier" /\ run[f].then = "publish",
               run'[f].pc = "barrier" => run[f].pc = "barrier",
               run'[f].pc = "push" =>
                 \/ run[f].pc = "barrier" /\ run[f].then = "push"
                 \/ run[f].pc = "dispatch" /\ Cur(f).op # "bulkload_end"
        PROVE  RunSound(f)' /\ BlobsFirst(f)'
    <2>1. Cur(f)' = Cur(f)
      BY <1>2, <1>5 DEF Cur
    <2>2. RunSound(f)'
      BY <1>1, <1>2, <1>5, <2>1 DEF RunSound, Publishing
    <2>3. BlobsFirst(f)'
      BY <1>1, <1>2, <1>5 DEF BlobsFirst, Epochs, Announced, BlobsUpTo
    <2>4. QED
      BY <2>2, <2>3
  <1>6. CASE WaitEmpty(f)
    <2>1. /\ run'[f].epoch = run[f].epoch /\ run'[f].pos = run[f].pos
          /\ run'[f].then = run[f].then /\ run'[f].pc = "barrier"
          /\ run[f].pc = "barrier" /\ latest' = latest /\ blobs' = blobs
      BY <1>1, <1>6 DEF WaitEmpty, RunType, etcd
    <2>2. QED
      BY <1>5, <2>1 DEF Publishing
  <1>7. CASE WaitIdle(f)
    <2>1. /\ run'[f].epoch = run[f].epoch /\ run'[f].pos = run[f].pos
          /\ run'[f].then = run[f].then /\ run[f].pc = "barrier"
          /\ run'[f].pc \in {"barrier", run[f].then}
          /\ run[f].then \in {"publish", "push"}
          /\ latest' = latest /\ blobs' = blobs
      BY <1>1, <1>7 DEF WaitIdle, Goto, RunType, etcd
    <2>2. QED
      BY <1>5, <2>1 DEF Publishing
  <1>8. CASE UpdateBlob(f)
    <2>1. /\ run'[f].epoch = run[f].epoch /\ run'[f].pos = run[f].pos
          /\ run'[f].then = run[f].then /\ run'[f].pc = "put_blob"
          /\ run[f].pc = "publish" /\ latest' = latest /\ blobs' = blobs
      BY <1>1, <1>8 DEF UpdateBlob, RunType, etcd
    <2>2. QED
      BY <1>5, <2>1 DEF Publishing
  <1>9. CASE PutBlob(f)
    <2>1. /\ run'[f].epoch = run[f].epoch /\ run'[f].pos = run[f].pos
          /\ run'[f].pc = "put_latest" /\ run[f].pc = "put_blob" /\ latest' = latest
      BY <1>1, <1>9 DEF PutBlob, Goto, RunType
    <2>2. DOMAIN blobs'[f] = DOMAIN blobs[f] \cup {run[f].epoch}
      BY <1>1, <1>9 DEF PutBlob
    <2>3. Cur(f)' = Cur(f)
      BY <1>2, <2>1 DEF Cur
    <2>4. RunSound(f)'
      BY <1>1, <1>2, <2>1, <2>3 DEF RunSound, Publishing
    <2>5. BlobsFirst(f)'
      BY <1>1, <1>2, <2>1, <2>2 DEF BlobsFirst, Epochs, Announced, BlobsUpTo
    <2>6. QED
      BY <2>4, <2>5
  <1>10. CASE PutLatest(f)
    <2>1. /\ run'[f].epoch = Cur(f).epoch /\ run'[f].pos = run[f].pos
          /\ run'[f].pc = "dispatch" /\ run[f].pc = "put_latest"
          /\ latest'[f] = run[f].epoch /\ blobs' = blobs
      BY <1>1, <1>10 DEF PutLatest, RunType
    <2>2. /\ Cur(f).epoch > run[f].epoch /\ Cur(f).epoch \in Nat
          /\ run[f].pos + 1 \in 1 .. Len(log)
          /\ run[f].epoch \in Epochs
      BY <1>1, <2>1, RunFields, LogFields DEF RunSound, Publishing
    <2>3. Cur(f)' = Cur(f) /\ Cur(f) = log[run[f].pos + 1]
      BY <1>2, <2>1 DEF Cur
    <2>4. \A i \in 1 .. run[f].pos : log[i].epoch \in Nat
      BY <1>1, <2>2, LogFields
    <2>5. RunSound(f)'
      <3>1. \A i \in 1 .. run[f].pos : log[i].epoch <= Cur(f).epoch
        BY <1>1, <2>2, <2>4 DEF RunSound
      <3>2. \E i \in 1 .. Len(log) : log[i].epoch = Cur(f).epoch
        BY <2>2, <2>3
      <3>3. QED
        BY <1>2, <2>1, <2>2, <2>3, <3>1, <3>2 DEF RunSound, Publishing
    <2>6. ASSUME NEW d \in Ended, d < Cur(f).epoch PROVE d \in DOMAIN blobs[f]
      <3>1. d \in Nat /\ d <= run[f].epoch
        <4>1. CASE d = 0
          BY <1>1, <4>1
        <4>2. CASE d # 0
          <5>1. PICK i \in 1 .. Len(log) : log[i].epoch = d
            BY <4>2 DEF Ended
          <5>2. i < run[f].pos + 1
            <6>1. i >= run[f].pos + 1 => log[run[f].pos + 1].epoch <= log[i].epoch
              BY <1>1, <2>2 DEF LogSorted
            <6>2. QED
              BY <1>1, <2>2, <2>3, <2>6, <5>1, <6>1
          <5>3. i \in 1 .. run[f].pos
            BY <1>1, <5>2
          <5>4. QED
            BY <1>1, <5>1, <5>3 DEF RunSound
        <4>3. QED
          BY <4>1, <4>2
      <3>2. CASE d < run[f].epoch
        BY <1>1, <3>2 DEF BlobsFirst
      <3>3. CASE d = run[f].epoch
        BY <1>1, <2>1, <3>3 DEF BlobsFirst
      <3>4. QED
        BY <1>1, <3>1, <3>2, <3>3
    <2>7. run[f].epoch \in Ended
      BY <1>1, <2>2, <2>3 DEF Ended, RunSound
    <2>8. \A d \in Ended : d <= run[f].epoch => d \in DOMAIN blobs[f]
      BY <1>1, <2>2, <2>6
    <2>9. BlobsFirst(f)'
      BY <1>2, <2>1, <2>6, <2>7, <2>8 DEF BlobsFirst, Announced, BlobsUpTo
    <2>10. QED
      BY <2>5, <2>9
  <1>11. ASSUME NEW r \in RunType, r.epoch = run[f].epoch, r.pos = run[f].pos,
                run' = Done(f, r), latest' = latest, blobs' = blobs,
                run[f].pc \in {"dispatch", "push"}
         PROVE  RunSound(f)' /\ BlobsFirst(f)'
    <2>1. /\ run'[f].epoch = run[f].epoch /\ run'[f].pos = run[f].pos + 1
          /\ run'[f].pc = "consume"
      <3>1. TypeOK
        OBVIOUS
      <3>2. /\ run'[f].pos = r.pos + 1 /\ run'[f].pc = "consume"
            /\ run'[f].epoch = r.epoch
        BY <1>11, <3>1, DoneFacts
      <3>3. QED
        BY <1>11, <3>2
    <2>2. Cur(f).epoch <= run[f].epoch /\ Cur(f) = log[run[f].pos + 1]
      BY <1>1, <1>11 DEF RunSound, Cur
    <2>3. \A i \in 1 .. run[f].pos + 1 : i \in 1 .. run[f].pos \/ i = run[f].pos + 1
      BY <1>1
    <2>4. \A i \in 1 .. run[f].pos + 1 : log[i].epoch <= run[f].epoch
      BY <1>1, <2>2, <2>3 DEF RunSound
    <2>5. RunSound(f)'
      BY <1>1, <1>2, <2>1, <2>4 DEF RunSound, Publishing
    <2>6. BlobsFirst(f)'
      BY <1>1, <1>2, <1>11, <2>1 DEF BlobsFirst, Epochs, Announced, BlobsUpTo
    <2>7. QED
      BY <2>5, <2>6
  <1>12. CASE BulkLoadEnd(f)
    BY <1>1, <1>11, <1>12 DEF BulkLoadEnd, etcd
  <1>13. CASE ApplyHere(f)
    BY <1>1, <1>11, <1>13 DEF ApplyHere, etcd
  <1>14. CASE Dispatch(f)
    <2>1. /\ run'[f].epoch = run[f].epoch /\ run'[f].pos = run[f].pos
          /\ latest' = latest /\ blobs' = blobs
          /\ run'[f].pc \in {"push", "barrier"}
          /\ run'[f].pc = "barrier" => run'[f].then = "push"
          /\ run[f].pc = "dispatch" /\ Cur(f).op # "bulkload_end"
      BY <1>1, <1>14 DEF Dispatch, Barrier, Goto, RunType, etcd
    <2>2. Cur(f)' = Cur(f)
      BY <1>2, <2>1 DEF Cur
    <2>3. RunSound(f)'
      BY <1>1, <1>2, <2>1, <2>2 DEF RunSound, Publishing
    <2>4. BlobsFirst(f)'
      BY <1>1, <1>2, <2>1 DEF BlobsFirst, Epochs, Announced, BlobsUpTo
    <2>5. QED
      BY <2>3, <2>4
  <1>15. CASE Push(f)
    <2> DEFINE r == [run[f] EXCEPT !.parallel = @ \/ Cur(f).op = "add"]
    <2>1. r \in RunType /\ r.pos = run[f].pos /\ r.epoch = run[f].epoch
      BY <1>1 DEF RunType
    <2>2. /\ run' = Done(f, r) /\ run[f].pc = "push"
          /\ latest' = latest /\ blobs' = blobs
      BY <1>15 DEF Push, etcd
    <2> HIDE DEF r
    <2>3. QED
      BY <1>11, <2>1, <2>2
  <1>16. QED
    BY <1>3, <1>4, <1>6, <1>7, <1>8, <1>9, <1>10, <1>12, <1>13, <1>14, <1>15
       DEF ConsumerStep

(* A step of a reader keeps what it was told: the epoch it chooses is one   *)
(* of the answers and no later than any, so every fragment has its blob.    *)
LEMMA ReaderStepSound ==
  ASSUME EpochInv, NEW r \in Readers, ReaderStep(r)
  PROVE  ReaderSound(r)'
  <1> USE DEF EpochInv
  <1>1. /\ reader[r] \in ReaderType /\ reader[r].vals \in Seq(Answers)
        /\ DOMAIN reader = Readers /\ ReaderSound(r) /\ Len(reader[r].vals) \in Nat
        /\ reader[r].pc = "blobs" => reader[r].found \in Found
    BY DEF TypeOK, Types, ReaderType
  <1>2. UNCHANGED <<log, blobs, latest>> /\ Ended' = Ended
    BY DEF ReaderStep, ReadLatest, ChooseEpoch, EndRead, ReadBlob, SetReader,
       threads, etcd, Ended, Epochs
  <1>3. ASSUME reader'[r] = IdleReader PROVE ReaderSound(r)'
    BY <1>3, Numbers DEF ReaderSound, IdleReader
  <1>4. CASE ReadLatest(r)
    <2> DEFINE n == Len(reader[r].vals) + 1
    <2>1. /\ n \in Frags /\ reader[r].pc = "latest" /\ latest[n] # NoKey
          /\ reader'[r] = [reader[r] EXCEPT !.vals = Append(reader[r].vals, latest[n])]
      BY <1>1, <1>4 DEF ReadLatest, SetReader
    <2>2. /\ reader'[r].pc = "latest"
          /\ reader'[r].vals = Append(reader[r].vals, latest[n])
      BY <1>1, <2>1 DEF ReaderType
    <2>3. latest[n] \in Answers
      BY <2>1 DEF TypeOK, Types
    <2>4. /\ Len(reader'[r].vals) = n /\ reader'[r].vals[n] = latest[n]
          /\ \A f \in 1 .. n - 1 : reader'[r].vals[f] = reader[r].vals[f]
      BY <1>1, <2>2, <2>3, AppendFacts
    <2>5. n <= NumFrags
      BY <2>1, Numbers DEF Frags
    <2>6. ASSUME NEW f \in 1 .. n, reader'[r].vals[f] \in Epochs
          PROVE  Announced(f, reader'[r].vals[f])
      <3>1. CASE f = n
        BY <2>1, <2>4, <2>6, <3>1 DEF BlobsFirst
      <3>2. CASE f # n
        <4>1. f \in 1 .. Len(reader[r].vals)
          BY <1>1, <3>2
        <4>2. QED
          BY <1>1, <2>4, <2>6, <4>1 DEF ReaderSound
      <3>3. QED
        BY <3>1, <3>2
    <2>7. QED
      BY <1>2, <2>2, <2>4, <2>5, <2>6 DEF ReaderSound, Epochs, Announced, BlobsUpTo
  <1>5. CASE ChooseEpoch(r)
    <2> DEFINE S == {UINT64_MAX} \cup {reader[r].vals[f] : f \in Frags}
    <2>1. Len(reader[r].vals) = NumFrags
      BY <1>5 DEF ChooseEpoch
    <2>2. \A f \in Frags : reader[r].vals[f] \in Answers
      BY <1>1, <2>1 DEF Frags
    <2>3. S \in SUBSET Nat /\ S # {}
      BY <2>2, Numbers DEF Answers, Epochs
    <2>4. Min(S) \in S /\ \A y \in S : Min(S) <= y
      <3> HIDE DEF S
      <3>1. QED
        BY <2>3, MinIsLeast
    <2>5. CASE Min(S) = UINT64_MAX
      BY <1>1, <1>3, <1>5, <2>5 DEF ChooseEpoch, SetReader
    <2>6. CASE Min(S) # UINT64_MAX
      <3>1. reader'[r] = [reader[r] EXCEPT !.pc = "blobs", !.epoch = Min(S),
                            !.found = [f \in Frags |-> "not read"]]
        BY <1>1, <1>5, <2>6 DEF ChooseEpoch, SetReader
      <3>2. /\ reader'[r].vals = reader[r].vals /\ reader'[r].epoch = Min(S)
            /\ \A f \in Frags : reader'[r].found[f] = "not read"
        <4> HIDE DEF S
        <4>1. QED
          BY <1>1, <3>1 DEF ReaderType
      <3>3. \E f \in Frags : Min(S) = reader[r].vals[f]
        BY <2>4, <2>6
      <3>4. \A f \in Frags : Min(S) <= reader[r].vals[f]
        BY <2>4
      <3> HIDE DEF S
      <3>5. QED
        BY <1>1, <1>2, <2>1, <3>2, <3>3, <3>4
           DEF ReaderSound, Epochs, Announced, BlobsUpTo
    <2>7. QED
      BY <2>5, <2>6
  <1>6. CASE EndRead(r)
    BY <1>1, <1>3, <1>6 DEF EndRead, SetReader
  <1>7. ASSUME NEW f \in Frags, ReadBlob(r, f) PROVE ReaderSound(r)'
    <2> DEFINE v == IF reader[r].epoch \in DOMAIN blobs[f] THEN "blob" ELSE "missing"
    <2>1. reader[r].pc = "blobs" /\ reader'[r] = [reader[r] EXCEPT !.found[f] = v]
      BY <1>1, <1>7 DEF ReadBlob, SetReader
    <2>2. /\ reader'[r].vals = reader[r].vals /\ reader'[r].epoch = reader[r].epoch
          /\ reader'[r].found = [reader[r].found EXCEPT ![f] = v]
      BY <1>1, <2>1 DEF ReaderType
    <2>3. reader[r].vals[f] \in Epochs => v = "blob"
      <3> SUFFICES ASSUME reader[r].vals[f] \in Epochs
                   PROVE  reader[r].epoch \in DOMAIN blobs[f]
        OBVIOUS
      <3>1. f \in 1 .. Len(reader[r].vals) /\ reader[r].epoch <= reader[r].vals[f]
        BY <1>1, <2>1 DEF ReaderSound, Frags
      <3>2. Announced(f, reader[r].vals[f])
        BY <1>1, <3>1 DEF ReaderSound
      <3>3. PICK g \in Frags : reader[r].epoch = reader[r].vals[g]
        BY <1>1, <2>1 DEF ReaderSound
      <3>4. reader[r].epoch \in Epochs /\ g \in 1 .. Len(reader[r].vals)
        BY <1>1, <2>1, <3>3 DEF ReaderType, ReaderSound, Frags
      <3>5. reader[r].epoch \in Ended
        BY <1>1, <3>3, <3>4 DEF ReaderSound, Announced
      <3>6. QED
        BY <3>1, <3>2, <3>5 DEF Announced, BlobsUpTo
    <2>4. ASSUME NEW g \in Frags, reader[r].vals[g] \in Epochs
          PROVE  reader'[r].found[g] # "missing"
      BY <1>1, <2>1, <2>2, <2>3, <2>4 DEF ReaderSound, Found
    <2> HIDE DEF v
    <2>5. QED
      BY <1>1, <1>2, <2>1, <2>2, <2>4 DEF ReaderSound, Epochs, Announced, BlobsUpTo
  <1>8. QED
    BY <1>4, <1>5, <1>6, <1>7 DEF ReaderStep

(* Every step keeps the invariant about epochs. *)
LEMMA EpochStep == EpochInv /\ [Next]_vars => EpochInv'
  <1> SUFFICES ASSUME EpochInv, [Next]_vars PROVE EpochInv'
    OBVIOUS
  <1> USE DEF EpochInv
  <1>1. TypeOK' /\ TypeOK
    BY TypeStep
  <1>2. ASSUME log' = log, reader' = reader,
               \A f \in Frags : DOMAIN blobs[f] \subseteq DOMAIN blobs'[f],
               \A f \in Frags : RunSound(f)' /\ BlobsFirst(f)'
        PROVE  EpochInv'
    <2>1. LogSorted'
      BY <1>2 DEF LogSorted
    <2>2. ASSUME NEW r \in Readers PROVE ReaderSound(r)'
      <3>1. \A f \in 1 .. Len(reader[r].vals) : f \in Frags
        BY Numbers DEF TypeOK, Types, ReaderType, ReaderSound, Frags
      <3>2. QED
        BY <1>2, <3>1, ReaderElsewhere
    <2>3. QED
      BY <1>1, <1>2, <2>1, <2>2
  <1>3. ASSUME NEW op \in LogOps, NEW e \in 0 .. MaxEpoch, Emit(op, e) PROVE EpochInv'
    BY <1>1, <1>3, EmitFacts, EmitSound
  <1>4. ASSUME NEW f \in Frags, ConsumerStep(f) PROVE EpochInv'
    <2>1. log' = log /\ reader' = reader
      BY <1>4 DEF ConsumerStep, Start, Consume, WaitEmpty, WaitIdle, UpdateBlob, PutBlob,
         PutLatest, BulkLoadEnd, ApplyHere, Dispatch, Push
    <2>2. \A g \in Frags \ {f} : run'[g] = run[g]
      BY <1>1, <1>4 DEF ConsumerStep, Start, Consume, WaitEmpty, WaitIdle, UpdateBlob,
         PutBlob, PutLatest, BulkLoadEnd, ApplyHere, Dispatch, Push, Barrier, Goto, Done,
         TypeOK, Types
    <2>3. \A g \in Frags \ {f} : blobs'[g] = blobs[g] /\ latest'[g] = latest[g]
      BY <1>1, <1>4 DEF ConsumerStep, Start, Consume, WaitEmpty, WaitIdle, UpdateBlob,
         PutBlob, PutLatest, BulkLoadEnd, ApplyHere, Dispatch, Push, etcd, TypeOK, Types
    <2>4. DOMAIN blobs[f] \subseteq DOMAIN blobs'[f]
      BY <1>1, <1>4 DEF ConsumerStep, Start, Consume, WaitEmpty, WaitIdle, UpdateBlob,
         PutBlob, PutLatest, BulkLoadEnd, ApplyHere, Dispatch, Push, etcd, TypeOK, Types
    <2>5. \A g \in Frags \ {f} : RunSound(g)' /\ BlobsFirst(g)'
      BY <2>1, <2>2, <2>3, FragmentElsewhere
    <2>6. RunSound(f)' /\ BlobsFirst(f)'
      BY <1>4, ConsumerSound
    <2>7. \A g \in Frags : DOMAIN blobs[g] \subseteq DOMAIN blobs'[g]
      BY <2>3, <2>4
    <2>8. QED
      BY <1>2, <2>1, <2>5, <2>6, <2>7
  <1>5. ASSUME NEW f \in Frags, Crash(f) PROVE EpochInv'
    <2>1. UNCHANGED <<log, blobs, latest, reader>>
      BY <1>5 DEF Crash, etcd
    <2>2. \A g \in Frags \ {f} : RunSound(g)' /\ BlobsFirst(g)'
      BY <1>1, <1>5, <2>1, FragmentElsewhere DEF Crash, TypeOK, Types
    <2>3. run'[f] = Down
      BY <1>1, <1>5 DEF Crash, TypeOK, Types
    <2>4. RunSound(f)'
      BY <2>3 DEF RunSound, Down, Publishing
    <2>5. BlobsFirst(f)'
      <3>1. \A d \in Ended' : d \in Nat
        BY <2>1, LogFields DEF Ended, Epochs
      <3>2. BlobsFirst(f)
        OBVIOUS
      <3>3. QED
        BY <2>1, <2>3, <3>1, <3>2 DEF BlobsFirst, Down, Epochs, Ended, Announced, BlobsUpTo
    <2>6. QED
      BY <1>2, <2>1, <2>2, <2>4, <2>5
  <1>6. ASSUME UNCHANGED <<log, run, blobs, latest, reader>> PROVE EpochInv'
    <2>1. \A g \in Frags : RunSound(g)' /\ BlobsFirst(g)'
      BY <1>6, FragmentElsewhere
    <2>2. QED
      BY <1>2, <1>6, <2>1
  <1>7. ASSUME NEW f \in Frags, NEW t \in Threads, ThreadStep(f, t) PROVE EpochInv'
    BY <1>6, <1>7 DEF ThreadStep, Pop, LoadToClear, LoadToSet, StoreWord, ApplyInThread,
       etcd
  <1>8. ASSUME NEW r \in Readers, ReaderStep(r) PROVE EpochInv'
    <2>1. UNCHANGED <<log, run, blobs, latest>>
          /\ \A q \in Readers \ {r} : reader'[q] = reader[q]
      BY <1>1, <1>8 DEF ReaderStep, ReadLatest, ChooseEpoch, EndRead, ReadBlob, SetReader,
         threads, etcd, TypeOK, Types
    <2>2. \A g \in Frags : RunSound(g)' /\ BlobsFirst(g)'
      BY <2>1, FragmentElsewhere
    <2>3. ASSUME NEW q \in Readers PROVE ReaderSound(q)'
      <3>1. \A f \in 1 .. Len(reader[q].vals) : f \in Frags
        BY Numbers DEF TypeOK, Types, ReaderType, ReaderSound, Frags
      <3>2. CASE q = r
        BY <1>8, <3>2, ReaderStepSound
      <3>3. CASE q # r
        BY <2>1, <3>1, <3>3, ReaderElsewhere
      <3>4. QED
        BY <3>2, <3>3
    <2>4. LogSorted'
      BY <2>1 DEF LogSorted
    <2>5. QED
      BY <1>1, <2>2, <2>3, <2>4
  <1>9. CASE UNCHANGED vars
    BY <1>6, <1>9 DEF vars
  <1>10. QED
    BY <1>3, <1>4, <1>5, <1>7, <1>8, <1>9 DEF Next

(* For every number of fragments, threads, readers and crashes: a reader    *)
(* every fragment of which had published some epoch finds the blob of the   *)
(* epoch it chose in every fragment (get_latest_epoch takes the least of    *)
(* the keys, put_blob_json_etcd writes the blob before the key).            *)
THEOREM ReaderSafe == Spec => []ReaderFindsBlobs
  <1>1. Init => EpochInv
    BY InitInv
  <1>2. EpochInv => ReaderFindsBlobs
    <2> SUFFICES ASSUME EpochInv, NEW r \in Readers, reader[r].pc = "blobs",
                        UINT64_MAX \notin Range(reader[r].vals), NEW f \in Frags
                 PROVE  reader[r].found[f] # "missing"
      BY DEF ReaderFindsBlobs
    <2>1. ReaderSound(r) /\ reader[r].vals \in Seq(Answers) /\ Len(reader[r].vals) = NumFrags
      BY DEF EpochInv, TypeOK, Types, ReaderType, ReaderSound
    <2>2. reader[r].vals[f] \in Answers /\ reader[r].vals[f] # UINT64_MAX
      BY <2>1 DEF Frags, Range
    <2>3. QED
      BY <2>1, <2>2 DEF ReaderSound, Answers
  <1>3. QED
    BY <1>1, <1>2, EpochStep, PTL DEF Spec

-----------------------------------------------------------------------------
(* Contents: what is published for an epoch is the cut of the log *)

(* The operations among one more log. *)
LEMMA OpsNext ==
  ASSUME NEW n \in Nat
  PROVE  Ops(n + 1) = IF log[n + 1].op # "bulkload_end" THEN Ops(n) \cup {n + 1}
                      ELSE Ops(n)
  <1>1. 1 .. n + 1 = (1 .. n) \cup {n + 1} /\ n + 1 \notin 1 .. n
    OBVIOUS
  <1>2. QED
    BY <1>1 DEF Ops

(* What is known of the contents depends on the fragment's variables. *)
LEMMA CutElsewhere ==
  ASSUME NEW g \in Frags, CutSound(g), log' = log, run'[g] = run[g],
         applied'[g] = applied[g], blobs'[g] = blobs[g]
  PROVE  CutSound(g)'
  BY DEF CutSound, Ops, Cut

(* A new log is of the current epoch or a later one: the cut of an epoch    *)
(* that ended stays as it is.                                               *)
LEMMA EmitCut ==
  ASSUME TypeOK, LogSorted, NEW op \in LogOps, NEW e \in 0 .. MaxEpoch, Emit(op, e),
         NEW d \in Nat, NEW k \in 1 .. Len(log), log[k].epoch > d
  PROVE  {i \in {j \in 1 .. Len(log') : log'[j].op # "bulkload_end"} :
            log'[i].epoch <= d} = Cut(d)
  <1>1. /\ Len(log) \in Nat /\ Len(log') = Len(log) + 1
        /\ \A i \in 1 .. Len(log) : log'[i] = log[i]
        /\ log'[Len(log) + 1] = [op |-> op, epoch |-> e] /\ log[k].epoch <= e
    BY EmitFacts, LogFields
  <1>2. ~ (log'[Len(log) + 1].epoch <= d)
    BY <1>1, LogFields, Numbers
  <1>3. 1 .. Len(log') = (1 .. Len(log)) \cup {Len(log) + 1}
    BY <1>1
  <1>4. QED
    BY <1>1, <1>2, <1>3 DEF Cut, Ops

(* Without threads, every step keeps the contents: the consuming thread     *)
(* publishes before it applies the first log of the next epoch.             *)
LEMMA CutStep ==
  ASSUME NumThreads = 0, EpochInv, CutInv, [Next]_vars
  PROVE  CutInv'
  <1> USE DEF CutInv
  <1>1. TypeOK /\ LogSorted /\ Len(log) \in Nat
    BY LogFields DEF EpochInv
  <1>2. ASSUME NEW op \in LogOps, NEW e \in 0 .. MaxEpoch, Emit(op, e),
               NEW f \in Frags
        PROVE  CutSound(f)'
    <2>1. UNCHANGED <<run, applied, blobs>> /\ CutSound(f)
          /\ Len(log') = Len(log) + 1
          /\ \A i \in 1 .. Len(log) : log'[i] = log[i] /\ i \in 1 .. Len(log')
      BY <1>1, <1>2, EmitFacts DEF Emit, etcd
    <2>2. \A i \in 1 .. run[f].pos : i \in 1 .. Len(log)
      BY <1>1, RunFields DEF TypeOK, Positions
    <2>3. Ops(run[f].pos)' = Ops(run[f].pos)
      BY <2>1, <2>2 DEF Ops
    <2>4. ASSUME NEW d \in Nat, NEW k \in 1 .. Len(log), log[k].epoch > d
          PROVE  {i \in {j \in 1 .. Len(log') : log'[j].op # "bulkload_end"} :
                    log'[i].epoch <= d} = Cut(d)
      BY <1>1, <1>2, <2>4, EmitCut
    <2>5. ASSUME run[f].pc = "put_blob" PROVE run[f].snap = Cut(run[f].epoch)'
      <3>1. /\ run[f].pos + 1 \in 1 .. Len(log) /\ run[f].epoch \in Nat
            /\ log[run[f].pos + 1].epoch > run[f].epoch
        BY <1>1, <2>5, RunFields, LogFields DEF EpochInv, RunSound, Publishing, Cur
      <3>2. run[f].snap = Cut(run[f].epoch)
        BY <2>1, <2>5 DEF CutSound
      <3>3. QED
        BY <2>1, <2>4, <3>1, <3>2 DEF Cut, Ops
    <2>6. ASSUME NEW d \in DOMAIN blobs[f]
          PROVE  /\ blobs[f][d] = {i \in {j \in 1 .. Len(log') :
                                          log'[j].op # "bulkload_end"} : log'[i].epoch <= d}
                 /\ \E i \in 1 .. Len(log') : log'[i].epoch > d
      <3>1. d \in Nat
        BY <1>1, LogFields DEF TypeOK, Types
      <3>2. PICK k \in 1 .. Len(log) : log[k].epoch > d
        BY <2>1 DEF CutSound
      <3>3. QED
        BY <2>1, <2>4, <3>1, <3>2 DEF CutSound
    <2>7. QED
      BY <2>1, <2>3, <2>5, <2>6 DEF CutSound, Cut, Ops
  <1>3. ASSUME NEW f \in Frags, ConsumerStep(f), NEW g \in Frags PROVE CutSound(g)'
    <2>1. log' = log
      BY <1>3 DEF ConsumerStep, Start, Consume, WaitEmpty, WaitIdle, UpdateBlob, PutBlob,
         PutLatest, BulkLoadEnd, ApplyHere, Dispatch, Push
    <2>2. CASE g # f
      <3>1. run'[g] = run[g]
        BY <1>1, <1>3, <2>2 DEF ConsumerStep, Start, Consume, WaitEmpty, WaitIdle,
           UpdateBlob, PutBlob, PutLatest, BulkLoadEnd, ApplyHere, Dispatch, Push, Barrier,
           Goto, Done, TypeOK, Types
      <3>2. applied'[g] = applied[g] /\ blobs'[g] = blobs[g]
        BY <1>1, <1>3, <2>2 DEF ConsumerStep, Start, Consume, WaitEmpty, WaitIdle,
           UpdateBlob, PutBlob, PutLatest, BulkLoadEnd, ApplyHere, Dispatch, Push, etcd,
           TypeOK, Types
      <3>3. QED
        BY <2>1, <3>1, <3>2, CutElsewhere
    <2>3. CASE g = f
      <3> SUFFICES CutSound(f)'
        BY <2>3
      <3>1. /\ CutSound(f) /\ run[f] \in RunType /\ run[f].pos \in Nat
            /\ RunSound(f) /\ run[f].epoch \in Nat
            /\ DOMAIN run = Frags /\ DOMAIN blobs = Frags /\ DOMAIN applied = Frags
        BY <1>1, RunFields, LogFields DEF TypeOK, Types, EpochInv
      <3>2. ASSUME run'[f].pos = run[f].pos, applied' = applied, blobs' = blobs,
                   run'[f].pc \notin {"put_blob", "barrier", "push"}
            PROVE  CutSound(f)'
        BY <2>1, <3>1, <3>2 DEF CutSound, Ops, Cut
      <3>3. CASE Start(f)
        BY <3>1, <3>2, <3>3 DEF Start, Goto, RunType
      <3>4. CASE Consume(f)
        BY <3>1, <3>2, <3>4 DEF Consume, Barrier, Goto, RunType, etcd
      <3>5. CASE UpdateBlob(f)
        <4>1. /\ run'[f].pos = run[f].pos /\ run'[f].pc = "put_blob"
              /\ run'[f].epoch = run[f].epoch /\ run'[f].snap = applied[f]
              /\ run[f].pc = "publish" /\ applied' = applied /\ blobs' = blobs
          BY <3>1, <3>5 DEF UpdateBlob, RunType, etcd
        <4>2. /\ run[f].pos + 1 \in 1 .. Len(log)
              /\ log[run[f].pos + 1].epoch > run[f].epoch
          BY <1>1, <3>1, <4>1, RunFields DEF RunSound, Publishing, Cur
        <4>3. ASSUME NEW i \in 1 .. Len(log)
              PROVE  i \in 1 .. run[f].pos <=> log[i].epoch <= run[f].epoch
          <5>1. CASE i \in 1 .. run[f].pos
            BY <3>1, <5>1 DEF RunSound
          <5>2. CASE i \notin 1 .. run[f].pos
            <6>1. run[f].pos + 1 <= i
              BY <1>1, <3>1, <5>2
            <6>2. log[run[f].pos + 1].epoch <= log[i].epoch
              BY <1>1, <4>2, <6>1 DEF LogSorted
            <6>3. QED
              BY <1>1, <3>1, <4>2, <5>2, <6>2, LogFields
          <5>3. QED
            BY <5>1, <5>2
        <4>4. \A i \in 1 .. run[f].pos : i \in 1 .. Len(log)
          BY <1>1, <3>1, <4>2
        <4>5. Ops(run[f].pos) = Cut(run[f].epoch)
          BY <4>3, <4>4 DEF Ops, Cut
        <4>6. QED
          BY <2>1, <3>1, <4>1, <4>5 DEF CutSound, Ops, Cut
      <3>6. CASE PutBlob(f)
        <4>1. /\ run'[f].pos = run[f].pos /\ run'[f].pc = "put_latest"
              /\ run[f].pc = "put_blob" /\ applied' = applied
          BY <3>1, <3>6 DEF PutBlob, Goto, RunType
        <4>2. \E i \in 1 .. Len(log) : log[i].epoch > run[f].epoch
          BY <1>1, <3>1, <4>1, RunFields DEF RunSound, Publishing, Cur
        <4>3. DOMAIN blobs'[f] = DOMAIN blobs[f] \cup {run[f].epoch}
              /\ blobs'[f][run[f].epoch] = run[f].snap
              /\ \A d \in DOMAIN blobs[f] : d # run[f].epoch => blobs'[f][d] = blobs[f][d]
          BY <3>1, <3>6 DEF PutBlob
        <4>4. \A d \in DOMAIN blobs'[f] : /\ blobs'[f][d] = Cut(d)
                                          /\ \E i \in 1 .. Len(log) : log[i].epoch > d
          BY <3>1, <4>1, <4>2, <4>3 DEF CutSound
        <4>5. QED
          BY <2>1, <3>1, <4>1, <4>4 DEF CutSound, Ops, Cut
      <3>7. CASE PutLatest(f)
        BY <3>1, <3>2, <3>7 DEF PutLatest, RunType
      <3>8. CASE BulkLoadEnd(f)
        <4>1. run'[f].pos = run[f].pos + 1 /\ run'[f].pc = "consume"
          BY <1>1, <3>1, <3>8, DoneFacts DEF BulkLoadEnd
        <4>2. Ops(run[f].pos + 1) = Ops(run[f].pos)
          BY <3>1, <3>8, OpsNext DEF BulkLoadEnd, Cur
        <4>3. applied' = applied /\ blobs' = blobs
          BY <3>8 DEF BulkLoadEnd, etcd
        <4>4. QED
          BY <2>1, <3>1, <4>1, <4>2, <4>3 DEF CutSound, Ops, Cut
      <3>9. CASE ApplyHere(f)
        <4>1. run'[f].pos = run[f].pos + 1 /\ run'[f].pc = "consume"
          BY <1>1, <3>1, <3>9, DoneFacts DEF ApplyHere
        <4>2. Ops(run[f].pos + 1) = Ops(run[f].pos) \cup {run[f].pos + 1}
          BY <3>1, <3>9, OpsNext DEF ApplyHere, Cur
        <4>3. applied'[f] = applied[f] \cup {run[f].pos + 1} /\ blobs' = blobs
          BY <3>1, <3>9 DEF ApplyHere, etcd
        <4>4. QED
          BY <2>1, <3>1, <4>1, <4>2, <4>3 DEF CutSound, Ops, Cut
      <3>10. ~ (WaitEmpty(f) \/ WaitIdle(f) \/ Dispatch(f) \/ Push(f))
        BY <3>1 DEF WaitEmpty, WaitIdle, Dispatch, Push, CutSound
      <3>11. QED
        BY <1>3, <2>3, <3>3, <3>4, <3>5, <3>6, <3>7, <3>8, <3>9, <3>10 DEF ConsumerStep
    <2>4. QED
      BY <2>2, <2>3
  <1>4. ASSUME NEW f \in Frags, Crash(f), NEW g \in Frags PROVE CutSound(g)'
    <2>1. log' = log /\ blobs' = blobs
      BY <1>4 DEF Crash, etcd
    <2>2. CASE g # f
      BY <1>1, <1>4, <2>1, <2>2, CutElsewhere DEF Crash, TypeOK, Types
    <2>3. CASE g = f
      <3>1. run'[f] = Down /\ applied'[f] = {}
        BY <1>1, <1>4 DEF Crash, TypeOK, Types
      <3>2. CutSound(f)
        OBVIOUS
      <3>3. QED
        BY <2>1, <2>3, <3>1, <3>2 DEF CutSound, Down, Ops, Cut
    <2>4. QED
      BY <2>2, <2>3
  <1>5. ASSUME UNCHANGED <<log, run, applied, blobs>>, NEW g \in Frags
        PROVE  CutSound(g)'
    BY <1>5, CutElsewhere
  <1>6. Threads = {}
    BY DEF Threads
  <1>7. ASSUME NEW r \in Readers, ReaderStep(r), NEW g \in Frags PROVE CutSound(g)'
    BY <1>5, <1>7 DEF ReaderStep, ReadLatest, ChooseEpoch, EndRead, ReadBlob, SetReader,
       etcd
  <1>8. CASE UNCHANGED vars
    BY <1>5, <1>8 DEF vars
  <1>9. QED
    BY <1>2, <1>3, <1>4, <1>6, <1>7, <1>8 DEF Next

(* In a writer built without threads, whatever was published for an epoch   *)
(* is exactly the logs of that epoch and of the ones before, for any number *)
(* of fragments and crashes (apply_log_to_store_).                          *)
THEOREM PublicationCorrect ==
  ASSUME NumThreads = 0
  PROVE  Spec => []PublishedCut
  <1>1. Init => EpochInv /\ CutInv
    BY InitInv
  <1>2. EpochInv /\ CutInv /\ [Next]_vars => (EpochInv /\ CutInv)'
    BY EpochStep, CutStep
  <1>3. CutInv => PublishedCut
    BY DEF CutInv, CutSound, PublishedCut
  <1>4. QED
    BY <1>1, <1>2, <1>3, PTL DEF Spec

-----------------------------------------------------------------------------
(* Places: no log is lost or applied twice *)

(* Where a fragment's logs are depends on its own variables and the log. *)
LEMMA PlaceElsewhere ==
  ASSUME NEW g \in Frags, PlaceSound(g), log' = log, run'[g] = run[g],
         queue'[g] = queue[g], thr'[g] = thr[g], applied'[g] = applied[g]
  PROVE  PlaceSound(g)'
  BY DEF PlaceSound, Accounted, Apart, Emptied, Held, Busy, Ops

(* The sets that are counted are finite. *)
LEMMA PlacesFinite ==
  ASSUME TypeOK, NEW f \in Frags
  PROVE  /\ IsFiniteSet(applied[f]) /\ Cardinality(applied[f]) \in Nat
         /\ IsFiniteSet(Busy(f)) /\ Cardinality(Busy(f)) \in Nat
         /\ IsFiniteSet(Ops(run[f].pos)) /\ Cardinality(Ops(run[f].pos)) \in Nat
         /\ queue[f] \in Seq(Nat) /\ Len(queue[f]) \in Nat
         /\ run[f].pos + 1 \notin applied[f] /\ run[f].pos + 1 \notin Range(queue[f])
         /\ run[f].pos + 1 \notin Ops(run[f].pos)
         /\ 0 \notin Range(queue[f])
         /\ \A t \in Threads : /\ thr[f][t].cur \in Nat
                               /\ thr[f][t].cur # run[f].pos + 1
         /\ DOMAIN run = Frags /\ DOMAIN queue = Frags /\ DOMAIN applied = Frags
         /\ DOMAIN thr = Frags /\ DOMAIN thr[f] = Threads
         /\ \A t \in Threads : thr[f][t] \in ThreadType
  <1>1. run[f].pos \in Nat /\ Positions(f)
    BY RunFields DEF TypeOK
  <1>2. IsFiniteSet(1 .. run[f].pos) /\ IsFiniteSet(Threads)
    BY <1>1, FS_Interval, Numbers DEF Threads
  <1>3. /\ applied[f] \subseteq 1 .. run[f].pos /\ Busy(f) \subseteq Threads
        /\ Ops(run[f].pos) \subseteq 1 .. run[f].pos
        /\ Range(queue[f]) \subseteq 1 .. run[f].pos
        /\ \A t \in Threads : thr[f][t].cur <= run[f].pos
    BY <1>1 DEF Positions, Busy, Ops
  <1>4. IsFiniteSet(applied[f]) /\ IsFiniteSet(Busy(f)) /\ IsFiniteSet(Ops(run[f].pos))
    BY <1>2, <1>3, FS_Subset
  <1>5. /\ Cardinality(applied[f]) \in Nat /\ Cardinality(Busy(f)) \in Nat
        /\ Cardinality(Ops(run[f].pos)) \in Nat
    BY <1>4, FS_CardinalityType
  <1>6. queue[f] \in Seq(Nat) /\ thr[f] \in [Threads -> ThreadType]
    BY DEF TypeOK, Types
  <1>7. run[f].pos + 1 \notin 1 .. run[f].pos /\ 0 \notin 1 .. run[f].pos
    BY <1>1
  <1>8. \A t \in Threads : thr[f][t].cur \in Nat /\ thr[f][t].cur # run[f].pos + 1
    BY <1>1, <1>3, <1>6 DEF ThreadType
  <1>9. /\ DOMAIN run = Frags /\ DOMAIN queue = Frags /\ DOMAIN applied = Frags
        /\ DOMAIN thr = Frags
    BY DEF TypeOK, Types
  <1>10. QED
    BY <1>3, <1>4, <1>5, <1>6, <1>7, <1>8, <1>9

(* A step of the consuming thread that consumes no log moves none. *)
LEMMA PlaceMove ==
  ASSUME NEW f \in Frags, PlaceSound(f), UNCHANGED <<log, queue, thr, applied>>,
         run'[f].pos = run[f].pos,
         run'[f].pc \in Publishing \/ (run'[f].pc = "barrier" /\ run'[f].idx > 0)
           => queue[f] = << >>,
         NumThreads = 0 => run'[f].pc \notin {"barrier", "push"}
  PROVE  PlaceSound(f)'
  BY DEF PlaceSound, Accounted, Apart, Emptied, Held, Busy, Ops

(* A step of the consuming thread moves at most the log it is at: into the  *)
(* graph store, or into the queue of the threads.                           *)
LEMMA ConsumerPlaces ==
  ASSUME TypeOK, NEW f \in Frags, PlaceSound(f), EpochInv, ConsumerStep(f)
  PROVE  PlaceSound(f)'
  <1>1. /\ run[f] \in RunType /\ run[f].pos \in Nat /\ run[f].idx \in Nat
        /\ run[f].then \in {"publish", "push"}
    BY RunFields DEF RunType
  <1>2. DOMAIN run = Frags /\ DOMAIN queue = Frags /\ DOMAIN applied = Frags
    BY PlacesFinite
  <1>3. Emptied(f)
    BY DEF PlaceSound
  <1>4. CASE Start(f)
    <2>1. run'[f].pos = run[f].pos /\ run'[f].pc = "consume"
      BY <1>1, <1>2, <1>4 DEF Start, Goto, RunType
    <2>2. QED
      BY <1>4, <2>1, PlaceMove DEF Start, threads, Publishing
  <1>5. CASE Consume(f)
    <2>1. /\ run'[f].pos = run[f].pos
          /\ run'[f].pc \in {"publish", "dispatch", "barrier"}
          /\ run'[f].pc = "publish" => NumThreads = 0
          /\ run'[f].pc = "barrier" => NumThreads # 0 /\ run'[f].idx = 0
      BY <1>1, <1>2, <1>5 DEF Consume, Barrier, Goto, RunType
    <2>2. UNCHANGED <<log, queue, thr, applied>>
      BY <1>5 DEF Consume, threads
    <2>3. QED
      BY <1>3, <2>1, <2>2, PlaceMove DEF Publishing, Emptied
  <1>6. CASE WaitEmpty(f)
    <2>1. run'[f].pos = run[f].pos /\ run'[f].pc = "barrier" /\ run[f].pc = "barrier"
      BY <1>1, <1>2, <1>6 DEF WaitEmpty, RunType
    <2>2. UNCHANGED <<log, queue, thr, applied>> /\ queue[f] = << >>
      BY <1>6 DEF WaitEmpty, threads
    <2>3. QED
      BY <1>3, <2>1, <2>2, PlaceMove DEF Emptied
  <1>7. CASE WaitIdle(f)
    <2>1. run'[f].pos = run[f].pos /\ run[f].pc = "barrier" /\ run[f].idx > 0
      BY <1>1, <1>2, <1>7, Numbers DEF WaitIdle, Goto, RunType, Threads
    <2>2. UNCHANGED <<log, queue, thr, applied>>
      BY <1>7 DEF WaitIdle, threads
    <2>3. QED
      BY <1>3, <2>1, <2>2, PlaceMove DEF Emptied
  <1>8. CASE UpdateBlob(f)
    <2>1. /\ run'[f].pos = run[f].pos /\ run[f].pc = "publish"
          /\ run'[f].pc = "put_blob"
      BY <1>1, <1>2, <1>8 DEF UpdateBlob, RunType
    <2>2. UNCHANGED <<log, queue, thr, applied>>
      BY <1>8 DEF UpdateBlob, threads
    <2>3. QED
      BY <1>3, <2>1, <2>2, PlaceMove DEF Emptied, Publishing
  <1>9. CASE PutBlob(f)
    <2>1. /\ run'[f].pos = run[f].pos /\ run[f].pc = "put_blob"
          /\ run'[f].pc = "put_latest"
      BY <1>1, <1>2, <1>9 DEF PutBlob, Goto, RunType
    <2>2. UNCHANGED <<log, queue, thr, applied>>
      BY <1>9 DEF PutBlob, threads
    <2>3. QED
      BY <1>3, <2>1, <2>2, PlaceMove DEF Emptied, Publishing
  <1>10. CASE PutLatest(f)
    <2>1. run'[f].pos = run[f].pos /\ run'[f].pc = "dispatch"
      BY <1>1, <1>2, <1>10 DEF PutLatest, RunType
    <2>2. UNCHANGED <<log, queue, thr, applied>>
      BY <1>10 DEF PutLatest, threads
    <2>3. QED
      BY <2>1, <2>2, PlaceMove DEF Publishing
  <1>11. CASE BulkLoadEnd(f)
    <2>1. run'[f].pos = run[f].pos + 1 /\ run'[f].pc = "consume"
      BY <1>1, <1>11, DoneFacts DEF BulkLoadEnd
    <2>2. UNCHANGED <<log, queue, thr, applied>>
      BY <1>11 DEF BulkLoadEnd, threads
    <2>3. Ops(run[f].pos + 1) = Ops(run[f].pos)
      BY <1>1, <1>11, OpsNext DEF BulkLoadEnd, Cur
    <2>4. /\ Ops(run[f].pos)' = Ops(run[f].pos)
          /\ Held(f)' = Held(f) /\ Busy(f)' = Busy(f)
      BY <2>1, <2>2, <2>3 DEF Ops, Held, Busy
    <2>5. Accounted(f)' /\ Apart(f)'
      BY <2>2, <2>4 DEF PlaceSound, Accounted, Apart
    <2>6. Emptied(f)'
      BY <1>3, <2>1, <2>2 DEF Emptied, Publishing
    <2>7. QED
      BY <2>5, <2>6 DEF PlaceSound
  <1>12. CASE Dispatch(f)
    <2>1. /\ run'[f].pos = run[f].pos /\ NumThreads # 0
          /\ run'[f].pc \in {"push", "barrier"}
          /\ run'[f].pc = "barrier" => run'[f].idx = 0
      BY <1>1, <1>2, <1>12 DEF Dispatch, Barrier, Goto, RunType
    <2>2. UNCHANGED <<log, queue, thr, applied>>
      BY <1>12 DEF Dispatch, threads
    <2>3. QED
      BY <2>1, <2>2, PlaceMove DEF Publishing
  <1>13. CASE ApplyHere(f)
    <2>1. run'[f].pos = run[f].pos + 1 /\ run'[f].pc = "consume"
      BY <1>1, <1>13, DoneFacts DEF ApplyHere
    <2>2. UNCHANGED <<log, queue, thr>> /\ NumThreads = 0
          /\ applied'[f] = applied[f] \cup {run[f].pos + 1}
      BY <1>2, <1>13 DEF ApplyHere, threads
    <2>3. Ops(run[f].pos + 1) = Ops(run[f].pos) \cup {run[f].pos + 1}
      BY <1>1, <1>13, OpsNext DEF ApplyHere, Cur
    <2>4. /\ Cardinality(applied'[f]) = Cardinality(applied[f]) + 1
          /\ Cardinality(Ops(run[f].pos + 1)) = Cardinality(Ops(run[f].pos)) + 1
      <3>1. /\ IsFiniteSet(applied[f]) /\ run[f].pos + 1 \notin applied[f]
            /\ IsFiniteSet(Ops(run[f].pos)) /\ run[f].pos + 1 \notin Ops(run[f].pos)
        BY PlacesFinite
      <3>2. QED
        BY <2>2, <2>3, <3>1, FS_AddElement
    <2>5. Held(f)' = Held(f) /\ Busy(f)' = Busy(f)
          /\ Ops(run[f].pos)' = Ops(run[f].pos + 1)
      BY <2>1, <2>2 DEF Held, Busy, Ops
    <2>6. Accounted(f)
      BY DEF PlaceSound
    <2>7. Accounted(f)'
      <3>1. applied'[f] \cup Held(f) \cup Range(queue[f]) = Ops(run[f].pos + 1)
        BY <2>2, <2>3, <2>6 DEF Accounted
      <3>2. Cardinality(applied'[f]) + Cardinality(Busy(f)) + Len(queue[f])
              = Cardinality(Ops(run[f].pos + 1))
        BY <2>4, <2>6, PlacesFinite DEF Accounted
      <3>3. QED
        BY <2>2, <2>5, <3>1, <3>2 DEF Accounted
    <2>8. Apart(f)'
      BY <2>2, PlacesFinite DEF PlaceSound, Apart
    <2>9. Emptied(f)'
      BY <1>3, <2>1, <2>2 DEF Emptied, Publishing
    <2>10. QED
      BY <2>7, <2>8, <2>9 DEF PlaceSound
  <1>14. CASE Push(f)
    <2> DEFINE r == [run[f] EXCEPT !.parallel = @ \/ Cur(f).op = "add"]
               n == run[f].pos + 1
    <2>1. r \in RunType /\ r.pos = run[f].pos
      BY <1>1 DEF RunType
    <2>2. /\ run' = Done(f, r) /\ run[f].pc = "push" /\ n \in Nat
          /\ UNCHANGED <<log, thr, applied>>
          /\ queue'[f] = Append(queue[f], n)
      BY <1>1, <1>2, <1>14 DEF Push
    <2> HIDE DEF r
    <2>3. run'[f].pos = n /\ run'[f].pc = "consume"
      BY <2>1, <2>2, DoneFacts
    <2>4. Cur(f).op # "bulkload_end"
      BY <2>2 DEF EpochInv, RunSound
    <2>5. Ops(n) = Ops(run[f].pos) \cup {n}
      BY <1>1, <2>4, OpsNext DEF Cur
    <2>6. /\ queue[f] \in Seq(Nat) /\ Len(queue[f]) \in Nat /\ n \notin Range(queue[f])
          /\ n \notin applied[f] /\ \A t \in Threads : thr[f][t].cur # n
      BY PlacesFinite
    <2>7. /\ Len(queue'[f]) = Len(queue[f]) + 1
          /\ Range(queue'[f]) = Range(queue[f]) \cup {n}
          /\ queue'[f][Len(queue[f]) + 1] = n
          /\ \A i \in 1 .. Len(queue[f]) : /\ queue'[f][i] = queue[f][i]
                                           /\ queue[f][i] \in Range(queue[f])
      <3>1. \A i \in 1 .. Len(queue[f]) : queue[f][i] \in Range(queue[f])
        BY <2>6 DEF Range
      <3>2. QED
        BY <2>2, <2>6, <3>1, AppendFacts
    <2>8. Cardinality(Ops(n)) = Cardinality(Ops(run[f].pos)) + 1
      <3>1. IsFiniteSet(Ops(run[f].pos)) /\ n \notin Ops(run[f].pos)
        BY PlacesFinite
      <3>2. QED
        BY <2>5, <3>1, FS_AddElement
    <2>9. Accounted(f)'
      <3>1. Accounted(f)
        BY DEF PlaceSound
      <3>2. applied[f] \cup Held(f) \cup Range(queue'[f]) = Ops(n)
        BY <2>5, <2>7, <3>1 DEF Accounted
      <3>3. Cardinality(applied[f]) + Cardinality(Busy(f)) + Len(queue'[f])
              = Cardinality(Ops(n))
        BY <2>7, <2>8, <3>1, PlacesFinite DEF Accounted
      <3>4. Held(f)' = Held(f) /\ Busy(f)' = Busy(f) /\ Ops(run[f].pos)' = Ops(n)
        BY <2>2, <2>3 DEF Held, Busy, Ops
      <3>5. QED
        BY <2>2, <3>2, <3>3, <3>4 DEF Accounted
    <2>10. Apart(f)'
      <3>1. Apart(f)
        BY DEF PlaceSound
      <3>2. ASSUME NEW i \in 1 .. Len(queue[f]) + 1, NEW j \in 1 .. Len(queue[f]) + 1,
                   queue'[f][i] = queue'[f][j]
            PROVE  i = j
        <4>1. /\ i \in 1 .. Len(queue[f]) \/ i = Len(queue[f]) + 1
              /\ j \in 1 .. Len(queue[f]) \/ j = Len(queue[f]) + 1
          BY <2>6
        <4>2. i \in 1 .. Len(queue[f]) <=> j \in 1 .. Len(queue[f])
          BY <2>6, <2>7, <3>2, <4>1
        <4>3. i \in 1 .. Len(queue[f]) /\ j \in 1 .. Len(queue[f]) => i = j
          BY <2>7, <3>1, <3>2 DEF Apart
        <4>4. QED
          BY <4>1, <4>2, <4>3
      <3>3. QED
        BY <2>2, <2>6, <2>7, <3>1, <3>2 DEF Apart
    <2>11. Emptied(f)'
      BY <1>3, <2>2, <2>3 DEF Emptied, Publishing
    <2>12. QED
      BY <2>9, <2>10, <2>11 DEF PlaceSound
  <1>15. QED
    BY <1>4, <1>5, <1>6, <1>7, <1>8, <1>9, <1>10, <1>11, <1>12, <1>13, <1>14
       DEF ConsumerStep

(* A step of a processing thread takes the first log of the queue, or       *)
(* applies the one it holds; what it does to the packed bits moves nothing. *)
LEMMA ThreadPlaces ==
  ASSUME TypeOK, NEW f \in Frags, PlaceSound(f), NEW t \in Threads, ThreadStep(f, t)
  PROVE  PlaceSound(f)'
  <1>1. /\ thr[f][t] \in ThreadType /\ DOMAIN thr = Frags /\ DOMAIN thr[f] = Threads
        /\ DOMAIN queue = Frags /\ DOMAIN applied = Frags
        /\ queue[f] \in Seq(Nat) /\ Len(queue[f]) \in Nat /\ 0 \notin Range(queue[f])
        /\ IsFiniteSet(applied[f]) /\ IsFiniteSet(Busy(f))
        /\ Cardinality(applied[f]) \in Nat /\ Cardinality(Busy(f)) \in Nat
        /\ Cardinality(Ops(run[f].pos)) \in Nat
    BY PlacesFinite
  <1>2. Accounted(f) /\ Apart(f) /\ Emptied(f)
    BY DEF PlaceSound
  <1>3. log' = log /\ run' = run /\ Ops(run[f].pos)' = Ops(run[f].pos)
    BY DEF ThreadStep, Pop, LoadToClear, LoadToSet, StoreWord, ApplyInThread, Ops
  <1>4. ASSUME UNCHANGED <<queue, applied>>,
               \A u \in Threads : thr'[f][u].cur = thr[f][u].cur
        PROVE  PlaceSound(f)'
    <2>1. Held(f)' = Held(f) /\ Busy(f)' = Busy(f)
      BY <1>4 DEF Held, Busy
    <2>2. QED
      BY <1>2, <1>3, <1>4, <2>1 DEF PlaceSound, Accounted, Apart, Emptied
  <1>5. CASE Pop(f, t)
    <2>1. /\ thr[f][t].pc = "pop" /\ queue[f] # << >> /\ applied' = applied
          /\ queue'[f] = Tail(queue[f]) /\ thr'[f][t].cur = Head(queue[f])
          /\ \A u \in Threads \ {t} : thr'[f][u].cur = thr[f][u].cur
      BY <1>1, <1>5 DEF Pop, SetThread, ThreadType
    <2>2. thr[f][t].cur = 0
      BY <2>1 DEF TypeOK, Positions
    <2>3. /\ Len(queue'[f]) = Len(queue[f]) - 1 /\ Len(queue[f]) >= 1
          /\ Head(queue[f]) = queue[f][1] /\ queue'[f] \in Seq(Nat)
          /\ \A i \in 1 .. Len(queue[f]) - 1 : queue'[f][i] = queue[f][i + 1]
          /\ Range(queue[f]) = Range(queue'[f]) \cup {Head(queue[f])}
      BY <1>1, <2>1, TailFacts
    <2>4. Head(queue[f]) # 0
      BY <1>1, <2>3
    <2>5. Head(queue[f]) \notin Range(queue'[f])
      <3>a. DOMAIN queue'[f] = 1 .. Len(queue[f]) - 1
        <4>1. DOMAIN queue'[f] = 1 .. Len(queue'[f])
          BY <2>3
        <4>2. QED
          BY <2>3, <4>1
      <3> SUFFICES ASSUME NEW i \in 1 .. Len(queue[f]) - 1, queue'[f][i] = queue[f][1]
                   PROVE  FALSE
        BY <2>3, <3>a DEF Range
      <3>b. Len(queue[f]) \in Nat /\ i \in Nat /\ i >= 1 /\ i <= Len(queue[f]) - 1
        BY <1>1, <2>3
      <3>1. i + 1 \in 1 .. Len(queue[f]) /\ 1 \in 1 .. Len(queue[f]) /\ i + 1 # 1
        BY <3>b
      <3>2. QED
        BY <1>2, <2>3, <3>1 DEF Apart
    <2>6. Busy(f)' = Busy(f) \cup {t} /\ t \notin Busy(f)
      BY <2>1, <2>2, <2>4 DEF Busy
    <2>7. Cardinality(Busy(f)') = Cardinality(Busy(f)) + 1
      BY <1>1, <2>6, FS_AddElement
    <2>8. Held(f)' = Held(f) \cup {Head(queue[f])}
      BY <2>1, <2>2, <2>4 DEF Held
    <2>9. Accounted(f)'
      <3>1. applied[f] \cup Held(f)' \cup Range(queue'[f]) = Ops(run[f].pos)
        BY <1>2, <2>3, <2>8 DEF Accounted
      <3>2. Cardinality(applied[f]) + Cardinality(Busy(f)') + Len(queue'[f])
              = Cardinality(Ops(run[f].pos))
        BY <1>1, <1>2, <2>3, <2>7 DEF Accounted
      <3>3. QED
        BY <1>3, <2>1, <3>1, <3>2 DEF Accounted
    <2>10. Apart(f)'
      <3>1. ASSUME NEW i \in 1 .. Len(queue'[f]), NEW j \in 1 .. Len(queue'[f]),
                   queue'[f][i] = queue'[f][j]
            PROVE  i = j
        <4>1. /\ i \in 1 .. Len(queue[f]) - 1 /\ j \in 1 .. Len(queue[f]) - 1
              /\ i + 1 \in 1 .. Len(queue[f]) /\ j + 1 \in 1 .. Len(queue[f])
              /\ i \in Nat /\ j \in Nat
          BY <1>1, <2>3
        <4>2. i + 1 = j + 1
          BY <1>2, <2>3, <3>1, <4>1 DEF Apart
        <4>3. QED
          BY <4>1, <4>2
      <3>2. Head(queue[f]) \in Range(queue[f])
        BY <2>3
      <3>3. \A u \in Threads : thr'[f][u].cur \notin applied'[f]
        BY <1>2, <2>1, <3>2 DEF Apart
      <3>4. \A u \in Threads : thr'[f][u].cur \notin Range(queue'[f])
        BY <1>2, <2>1, <2>3, <2>5 DEF Apart
      <3>5. \A u, v \in Threads :
              thr'[f][u].cur = thr'[f][v].cur /\ thr'[f][u].cur # 0 => u = v
        BY <1>2, <2>1, <3>2 DEF Apart
      <3>6. applied'[f] \cap Range(queue'[f]) = {}
        BY <1>2, <2>1, <2>3 DEF Apart
      <3>7. QED
        BY <3>1, <3>3, <3>4, <3>5, <3>6 DEF Apart
    <2>11. Emptied(f)'
      BY <1>2, <1>3, <2>1 DEF Emptied
    <2>12. QED
      BY <2>9, <2>10, <2>11 DEF PlaceSound
  <1>6. CASE LoadToClear(f, t)
    BY <1>1, <1>4, <1>6 DEF LoadToClear, SetThread, ThreadType
  <1>7. CASE LoadToSet(f, t)
    BY <1>1, <1>4, <1>7 DEF LoadToSet, SetThread, ThreadType
  <1>8. CASE StoreWord(f, t)
    BY <1>1, <1>4, <1>8 DEF StoreWord, SetThread, ThreadType
  <1>9. CASE ApplyInThread(f, t)
    <2>1. /\ thr[f][t].pc = "apply" /\ queue' = queue
          /\ applied'[f] = applied[f] \cup {thr[f][t].cur} /\ thr'[f][t].cur = 0
          /\ \A u \in Threads \ {t} : thr'[f][u].cur = thr[f][u].cur
      BY <1>1, <1>9 DEF ApplyInThread, SetThread, ThreadType
    <2>2. thr[f][t].cur # 0
      BY <2>1 DEF TypeOK, Positions
    <2>3. Busy(f)' = Busy(f) \ {t} /\ t \in Busy(f)
      BY <2>1, <2>2 DEF Busy
    <2>4. /\ Cardinality(Busy(f)') = Cardinality(Busy(f)) - 1
          /\ Cardinality(applied'[f]) = Cardinality(applied[f]) + 1
      <3>1. thr[f][t].cur \notin applied[f]
        BY <1>2 DEF Apart
      <3>2. Cardinality(applied[f] \cup {thr[f][t].cur}) = Cardinality(applied[f]) + 1
        BY <1>1, <3>1, FS_AddElement
      <3>3. Cardinality(Busy(f) \ {t}) = Cardinality(Busy(f)) - 1
        BY <1>1, <2>3, FS_RemoveElement
      <3>4. QED
        BY <2>1, <2>3, <3>2, <3>3
    <2>5. Held(f) = Held(f)' \cup {thr[f][t].cur}
      BY <2>1, <2>2 DEF Held
    <2>6. Accounted(f)'
      <3>1. applied'[f] \cup Held(f)' \cup Range(queue[f]) = Ops(run[f].pos)
        BY <1>2, <2>1, <2>5 DEF Accounted
      <3>2. Cardinality(applied'[f]) + Cardinality(Busy(f)') + Len(queue[f])
              = Cardinality(Ops(run[f].pos))
        BY <1>1, <1>2, <2>4 DEF Accounted
      <3>3. QED
        BY <1>3, <2>1, <3>1, <3>2 DEF Accounted
    <2>7. Apart(f)'
      <3>1. 0 \notin applied'[f]
        BY <2>1, <2>2, RunFields DEF TypeOK, Positions
      <3>2. \A u \in Threads : thr'[f][u].cur \notin applied'[f]
        BY <1>2, <2>1, <2>2, <3>1 DEF Apart
      <3>3. thr[f][t].cur \notin Range(queue[f])
        BY <1>2 DEF Apart
      <3>4. applied'[f] \cap Range(queue'[f]) = {}
        BY <1>2, <2>1, <3>3 DEF Apart
      <3>5. \A u \in Threads : thr'[f][u].cur \notin Range(queue'[f])
        BY <1>1, <1>2, <2>1 DEF Apart
      <3>6. \A u, v \in Threads :
              thr'[f][u].cur = thr'[f][v].cur /\ thr'[f][u].cur # 0 => u = v
        BY <1>2, <2>1 DEF Apart
      <3>7. \A i, j \in 1 .. Len(queue'[f]) : queue'[f][i] = queue'[f][j] => i = j
        BY <1>2, <2>1 DEF Apart
      <3>8. QED
        BY <3>2, <3>4, <3>5, <3>6, <3>7 DEF Apart
    <2>8. Emptied(f)'
      BY <1>2, <1>3, <2>1 DEF Emptied
    <2>9. QED
      BY <2>6, <2>7, <2>8 DEF PlaceSound
  <1>10. QED
    BY <1>5, <1>6, <1>7, <1>8, <1>9 DEF ThreadStep

(* Every step keeps each log in one place. *)
LEMMA PlaceStep == EpochInv /\ PlaceInv /\ [Next]_vars => PlaceInv'
  <1> SUFFICES ASSUME EpochInv, PlaceInv, [Next]_vars, NEW g \in Frags
               PROVE  PlaceSound(g)'
    BY DEF PlaceInv
  <1>1. /\ TypeOK /\ TypeOK' /\ LogSorted /\ \A f \in Frags : PlaceSound(f)
        /\ DOMAIN run = Frags /\ DOMAIN queue = Frags /\ DOMAIN applied = Frags
        /\ DOMAIN thr = Frags
    BY TypeStep DEF EpochInv, PlaceInv, TypeOK, Types
  <1>2. ASSUME NEW op \in LogOps, NEW e \in 0 .. MaxEpoch, Emit(op, e)
        PROVE  PlaceSound(g)'
    <2>1. UNCHANGED <<run, queue, thr, applied>>
      BY <1>2 DEF Emit, threads
    <2>2. \A i \in 1 .. run[g].pos : i \in 1 .. Len(log) /\ log'[i] = log[i]
      <3>1. run[g].pos \in Nat /\ Len(log) \in Nat
        BY <1>1, RunFields, LogFields
      <3>2. run[g].pos <= Len(log)
        BY <1>1 DEF TypeOK, Positions
      <3>3. \A i \in 1 .. Len(log) : log'[i] = log[i]
        BY <1>1, <1>2, EmitFacts
      <3>4. QED
        BY <3>1, <3>2, <3>3
    <2>3. Ops(run[g].pos)' = Ops(run[g].pos)
      BY <2>1, <2>2 DEF Ops
    <2>4. PlaceSound(g)
      BY <1>1
    <2>5. QED
      BY <2>1, <2>3, <2>4 DEF PlaceSound, Accounted, Apart, Emptied, Held, Busy
  <1>3. ASSUME NEW f \in Frags, ConsumerStep(f) PROVE PlaceSound(g)'
    <2>1. CASE g = f
      BY <1>1, <1>3, <2>1, ConsumerPlaces
    <2>2. CASE g # f
      <3>1. log' = log /\ thr' = thr
        BY <1>3 DEF ConsumerStep, Start, Consume, WaitEmpty, WaitIdle, UpdateBlob, PutBlob,
           PutLatest, BulkLoadEnd, ApplyHere, Dispatch, Push, threads
      <3>2. run'[g] = run[g]
        BY <1>1, <1>3, <2>2 DEF ConsumerStep, Start, Consume, WaitEmpty, WaitIdle,
           UpdateBlob, PutBlob, PutLatest, BulkLoadEnd, ApplyHere, Dispatch, Push, Barrier,
           Goto, Done
      <3>3. queue'[g] = queue[g] /\ applied'[g] = applied[g]
        BY <1>1, <1>3, <2>2 DEF ConsumerStep, Start, Consume, WaitEmpty, WaitIdle,
           UpdateBlob, PutBlob, PutLatest, BulkLoadEnd, ApplyHere, Dispatch, Push, threads
      <3>4. QED
        BY <1>1, <3>1, <3>2, <3>3, PlaceElsewhere
    <2>3. QED
      BY <2>1, <2>2
  <1>4. ASSUME NEW f \in Frags, Crash(f) PROVE PlaceSound(g)'
    <2>1. CASE g = f
      <3>1. /\ run'[g] = Down /\ queue'[g] = << >> /\ applied'[g] = {}
            /\ thr'[g] = [t \in Threads |-> IdleThread]
        BY <1>1, <1>4, <2>1 DEF Crash
      <3>2. Ops(0)' = {} /\ Down.pos = 0 /\ Down.pc = "down"
        BY DEF Ops, Down
      <3>3. Held(g)' = {} /\ Busy(g)' = {} /\ Range(<< >>) = {} /\ Len(<< >>) = 0
        BY <3>1 DEF Held, Busy, IdleThread, Range
      <3>4. Ops(run[g].pos)' = {}
        BY <3>1, <3>2 DEF Ops
      <3>5. Accounted(g)'
        BY <3>1, <3>3, <3>4, FS_EmptySet DEF Accounted
      <3>6. Apart(g)'
        <4>1. Range(queue'[g]) = {} /\ Len(queue'[g]) = 0
              /\ \A t \in Threads : thr'[g][t].cur = 0
          BY <3>1, <3>3 DEF IdleThread
        <4>2. QED
          BY <3>1, <4>1 DEF Apart
      <3>7. Emptied(g)'
        BY <3>1, <3>2 DEF Emptied, Publishing
      <3>8. QED
        BY <3>5, <3>6, <3>7 DEF PlaceSound
    <2>2. CASE g # f
      BY <1>1, <1>4, <2>2, PlaceElsewhere DEF Crash
    <2>3. QED
      BY <2>1, <2>2
  <1>5. ASSUME NEW f \in Frags, NEW t \in Threads, ThreadStep(f, t) PROVE PlaceSound(g)'
    <2>1. CASE g = f
      BY <1>1, <1>5, <2>1, ThreadPlaces
    <2>2. CASE g # f
      <3>1. /\ log' = log /\ run'[g] = run[g] /\ queue'[g] = queue[g]
            /\ thr'[g] = thr[g] /\ applied'[g] = applied[g]
        BY <1>1, <1>5, <2>2 DEF ThreadStep, Pop, LoadToClear, LoadToSet, StoreWord,
           ApplyInThread, SetThread
      <3>2. QED
        BY <1>1, <3>1, PlaceElsewhere
    <2>3. QED
      BY <2>1, <2>2
  <1>6. ASSUME NEW r \in Readers, ReaderStep(r) PROVE PlaceSound(g)'
    <2>1. UNCHANGED <<log, run, queue, thr, applied>>
      BY <1>6 DEF ReaderStep, ReadLatest, ChooseEpoch, EndRead, ReadBlob, SetReader,
         threads
    <2>2. QED
      BY <1>1, <2>1, PlaceElsewhere
  <1>7. CASE UNCHANGED vars
    BY <1>1, <1>7, PlaceElsewhere DEF vars, threads
  <1>8. QED
    BY <1>2, <1>3, <1>4, <1>5, <1>6, <1>7 DEF Next

(* For every number of threads: a log that was consumed is in the queue     *)
(* once, held by one thread, or applied, and none is in two places; the     *)
(* queue is empty while an epoch is published (process_log_thread and the   *)
(* barrier of apply_log_to_store_).                                         *)
THEOREM NoLogLost == Spec => []LogsAccounted
  <1>1. Init => EpochInv /\ PlaceInv
    BY InitInv
  <1>2. EpochInv /\ PlaceInv /\ [Next]_vars => (EpochInv /\ PlaceInv)'
    BY EpochStep, PlaceStep
  <1>3. PlaceInv => LogsAccounted
    BY DEF PlaceInv, PlaceSound, Accounted, Emptied, Publishing, Busy, LogsAccounted
  <1>4. QED
    BY <1>1, <1>2, <1>3, PTL DEF Spec
=============================================================================
