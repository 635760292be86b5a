--------------------------- MODULE ControllerProofs ---------------------------
(***************************************************************************)
(* Proofs about the controller's handlers, on top of those about the       *)
(* writers: listings are complete, and between the requests of one handler *)
(* all executors that were reached show one snapshot.                      *)
(***************************************************************************)
EXTENDS Controller, RunnerProofs

(* The requests a handler can be working on. *)
ReqType == [pc : {"idle", "latest", "claim", "launch", "gae", "list", "answered"},
            kind : {"change", "list", "gae"}, epoch : Nat, idx : Nat,
            latest : Answers, all : BOOLEAN,
            answer : {"", "invalid", "none", "changed", "gae", "error", "listed"}]

CTypes == /\ req \in [Handlers -> ReqType]
          /\ DOMAIN executor = Frags

(* The converter numbers epochs without gaps. *)
Dense ==
  \A e \in Epochs :
    e # 0 /\ (\E i \in 1 .. Len(log) : log[i].epoch >= e)
      => \E i \in 1 .. Len(log) : log[i].epoch = e

(* A listing: the fragments that answered have the blobs of all epochs up   *)
(* to the least answer.                                                     *)
Heard(q) == {f \in Frags : q.pc = "latest" => f < q.idx}

ListSound(h) ==
  LET q == req[h] IN
  q.kind = "list" /\ q.all =>
    /\ q.answer # "error"
    /\ q.pc = "latest" => q.epoch = 0 /\ (q.idx > 1 => q.latest \in Epochs)
    /\ q.pc = "list" => q.latest \in Epochs /\ q.epoch <= q.latest /\ q.idx \in Frags
    /\ q.pc \in {"latest", "list"} =>
         \A f \in Heard(q) : 0 .. q.latest \subseteq DOMAIN blobs[f]

ListInv == CTypes /\ Dense /\ \A h \in Handlers : ListSound(h)

(* The fragment's executor shows the epoch that counts as changed. *)
Shows(f) == executor[f] = previous /\ previous \in DOMAIN blobs[f]

(* While a handler tells the executors, those it has told show the epoch,   *)
(* unless its curl missed them; when none does, all others do.              *)
ExecInv ==
  /\ \A h \in Handlers :
       req[h].pc = "launch" =>
         /\ previous = req[h].epoch
         /\ \A f \in Frags \ missed : f < req[h].idx => Shows(f)
  /\ (\A h \in Handlers : req[h].pc # "launch") /\ previous # None
       => \A f \in Frags \ missed : Shows(f)
-----------------------------------------------------------------------------
(* What the controller's steps do to the writers, the keys and the readers *)

(* A reader that gives up leaves everything else as it was. *)
LEMMA GiveUp ==
  ASSUME EpochInv, NEW r \in Readers, SetReader(r, IdleReader)
  PROVE  EpochInv'
  <1> USE DEF EpochInv
  <1>1. /\ UNCHANGED <<log, run, queue, working, thr, applied, blobs, latest>>
        /\ reader' = [reader EXCEPT ![r] = IdleReader]
    BY DEF SetReader, threads, etcd
  <1>2. /\ DOMAIN reader = Readers /\ IdleReader \in ReaderType
        /\ IdleReader.pc = "latest" /\ IdleReader.vals = << >>
    BY Numbers DEF TypeOK, Types, ReaderType, IdleReader
  <1>3. reader'[r] = IdleReader /\ \A q \in Readers \ {r} : reader'[q] = reader[q]
    BY <1>1, <1>2
  <1>4. TypeOK'
    <2>1. Types'
      BY <1>1, <1>2, <1>3 DEF TypeOK, Types
    <2>2. QED
      BY <1>1, <2>1, PositionsElsewhere DEF TypeOK
  <1>5. LogSorted' /\ \A g \in Frags : RunSound(g)' /\ BlobsFirst(g)'
    BY <1>1, FragmentElsewhere DEF LogSorted
  <1>6. ASSUME NEW q \in Readers PROVE ReaderSound(q)'
    <2>1. CASE q = r
      BY <1>2, <1>3, <2>1, Numbers DEF ReaderSound
    <2>2. CASE q # r
      <3>1. \A f \in 1 .. Len(reader[q].vals) : f \in Frags
        BY Numbers DEF TypeOK, Types, ReaderType, ReaderSound, Frags
      <3>2. QED
        BY <1>1, <1>3, <2>2, <3>1, ReaderElsewhere
    <2>3. QED
      BY <2>1, <2>2
  <1>7. QED
    BY <1>4, <1>5, <1>6

(* Every step is one of Runner's, a reader that gives up, or none of its    *)
(* business.                                                                *)
LEMMA StepKinds ==
  ASSUME [CNext]_allVars
  PROVE  [Next]_vars \/ \E r \in Readers : SetReader(r, IdleReader)
  <1>1. ASSUME NEW op \in LogOps, NEW e \in 0 .. MaxEpoch, EmitNext(op, e) PROVE Next
    BY <1>1 DEF EmitNext, Next
  <1>2. ASSUME NEW f \in Frags, WriterStep(f) PROVE Next
    BY <1>2 DEF WriterStep, Next
  <1>3. ASSUME NEW h \in Handlers, GaeStep(h)
        PROVE  Next \/ \E r \in Readers : SetReader(r, IdleReader)
    BY <1>3, ControllerAssumption DEF GaeStep, Next
  <1>4. ASSUME NEW h \in Handlers, HandlerStep(h), ~GaeStep(h) PROVE UNCHANGED vars
    BY <1>4 DEF HandlerStep, AskLatest, CheckEpoch, ClaimEpoch, LaunchExecutor, AwaitPorts,
       StartList, ListBlob, RunGae, Respond
  <1>5. ASSUME NEW h \in Handlers, NEW e \in 0 .. MaxEpoch,
               \/ AskFails(h) \/ LaunchFails(h) \/ GetAvailableEpochs(h)
               \/ ChangeReadEpoch(h, e) \/ RunGaeTask(h, e)
        PROVE  UNCHANGED vars
    BY <1>5 DEF AskFails, LaunchFails, GetAvailableEpochs, ChangeReadEpoch, RunGaeTask, Begin
  <1>6. CASE UNCHANGED allVars
    BY <1>6 DEF allVars
  <1>7. QED
    BY <1>1, <1>2, <1>3, <1>4, <1>5, <1>6, Numbers DEF CNext

LEMMA RunnerStep == EpochInv /\ [CNext]_allVars => EpochInv'
  BY StepKinds, GiveUp, EpochStep

LEMMA RunnerCut ==
  ASSUME NumThreads = 0, EpochInv, CutInv, [CNext]_allVars
  PROVE  CutInv'
  <1>1. ASSUME NEW r \in Readers, SetReader(r, IdleReader) PROVE CutInv'
    <2>1. UNCHANGED <<log, run, applied, blobs>>
      BY <1>1 DEF SetReader, etcd
    <2>2. QED
      BY <2>1, CutElsewhere DEF CutInv
  <1>2. QED
    BY <1>1, StepKinds, CutStep

(* No epoch a fragment has published disappears. *)
LEMMA BlobsStay ==
  ASSUME EpochInv, [CNext]_allVars, NEW f \in Frags
  PROVE  DOMAIN blobs[f] \subseteq DOMAIN blobs'[f]
  <1>1. DOMAIN blobs = Frags
    BY DEF EpochInv, TypeOK, Types
  <1>2. ASSUME NEW g \in Frags, PutBlob(g) PROVE DOMAIN blobs[f] \subseteq DOMAIN blobs'[f]
    BY <1>1, <1>2 DEF PutBlob
  <1>3. ASSUME NEW g \in Frags, ConsumerStep(g), ~PutBlob(g) PROVE blobs' = blobs
    BY <1>3 DEF ConsumerStep, Start, Consume, WaitEmpty, WaitIdle, UpdateBlob, PutLatest,
       BulkLoadEnd, ApplyHere, Dispatch, Push, etcd
  <1>4. ASSUME NEW op \in LogOps, NEW e \in 0 .. MaxEpoch, Emit(op, e) PROVE blobs' = blobs
    BY <1>4 DEF Emit, etcd
  <1>5. ASSUME NEW g \in Frags, Crash(g) \/ \E t \in Threads : ThreadStep(g, t)
        PROVE  blobs' = blobs
    BY <1>5 DEF Crash, ThreadStep, Pop, LoadToClear, LoadToSet, StoreWord, ApplyInThread,
       etcd
  <1>6. ASSUME NEW r \in Readers, ReaderStep(r) \/ SetReader(r, IdleReader)
        PROVE  blobs' = blobs
    BY <1>6 DEF ReaderStep, ReadLatest, ChooseEpoch, EndRead, ReadBlob, SetReader, etcd
  <1>7. CASE UNCHANGED vars
    BY <1>7 DEF vars
  <1>8. QED
    BY <1>2, <1>3, <1>4, <1>5, <1>6, <1>7, StepKinds DEF Next

-----------------------------------------------------------------------------
(* Listings *)

LEMMA CInitInv == CInit => EpochInv /\ CutInv /\ ListInv /\ ExecInv
  <1> SUFFICES ASSUME CInit PROVE EpochInv /\ CutInv /\ ListInv /\ ExecInv
    OBVIOUS
  <1>1. EpochInv /\ CutInv
    BY InitInv DEF CInit
  <1>2. req = [h \in Handlers |-> NoRequest] /\ previous = None /\ log = << >>
        /\ executor = [f \in Frags |-> None]
    BY DEF CInit, Init
  <1>3. CTypes
    BY <1>2 DEF CTypes, ReqType, NoRequest, Answers
  <1>4. Dense
    BY <1>2 DEF Dense
  <1>5. \A h \in Handlers : ListSound(h)
    BY <1>2 DEF ListSound, NoRequest
  <1>6. ExecInv
    BY <1>2 DEF ExecInv, NoRequest
  <1>7. QED
    BY <1>1, <1>3, <1>4, <1>5, <1>6 DEF ListInv

(* An epoch is skipped by no step: the next log's is at most one more. *)
LEMMA DenseStep ==
  ASSUME EpochInv, Dense, [CNext]_allVars
  PROVE  Dense'
  <1>1. ASSUME log' = log PROVE Dense'
    BY <1>1 DEF Dense
  <1>2. ASSUME NEW op \in LogOps, NEW e \in 0 .. MaxEpoch, EmitNext(op, e) PROVE Dense'
    <2>1. /\ TypeOK /\ LogSorted /\ Len(log) \in Nat /\ Len(log') = Len(log) + 1
          /\ \A i \in 1 .. Len(log) : log'[i] = log[i] /\ log[i].epoch \in Nat
          /\ log'[Len(log) + 1].epoch = e
      <3>1. TypeOK /\ LogSorted /\ Emit(op, e)
        BY <1>2 DEF EpochInv, EmitNext
      <3>2. log'[Len(log) + 1] = [op |-> op, epoch |-> e]
        BY <3>1, EmitFacts
      <3>3. QED
        BY <3>1, <3>2, EmitFacts, LogFields
    <2>2. e \in Nat /\ e <= LastEpoch + 1 /\ LastEpoch \in Nat
      <3>1. log = << >> \/ Len(log) \in 1 .. Len(log)
        BY <2>1 DEF TypeOK, Types
      <3>2. QED
        BY <1>2, <2>1, <3>1, Numbers DEF EmitNext, LastEpoch
    <2> SUFFICES ASSUME NEW d \in Epochs, d # 0, NEW i \in 1 .. Len(log'),
                        log'[i].epoch >= d
                 PROVE  \E j \in 1 .. Len(log') : log'[j].epoch = d
      BY DEF Dense
    <2>3. d \in Nat /\ Len(log) + 1 \in 1 .. Len(log')
          /\ \A j \in 1 .. Len(log) : j \in 1 .. Len(log')
      BY <2>1, Numbers DEF Epochs
    <2>4. CASE \E j \in 1 .. Len(log) : log[j].epoch >= d
      BY <2>1, <2>3, <2>4 DEF Dense
    <2>5. CASE ~ \E j \in 1 .. Len(log) : log[j].epoch >= d
      <3>1. i = Len(log) + 1 /\ e >= d
        BY <2>1, <2>3, <2>5
      <3>2. LastEpoch < d
        <4>1. CASE log = << >>
          BY <2>3, <4>1 DEF LastEpoch
        <4>2. CASE log # << >>
          <5>1. Len(log) \in 1 .. Len(log)
            BY <2>1, <4>2 DEF TypeOK, Types
          <5>2. QED
            BY <2>1, <2>3, <2>5, <4>2, <5>1 DEF LastEpoch
        <4>3. QED
          BY <4>1, <4>2
      <3>3. d = e
        BY <2>2, <2>3, <3>1, <3>2
      <3>4. QED
        BY <2>1, <2>3, <3>3
    <2>6. QED
      BY <2>4, <2>5
  <1>3. ASSUME NEW f \in Frags, WriterStep(f) PROVE log' = log
    BY <1>3 DEF WriterStep, ConsumerStep, Start, Consume, WaitEmpty, WaitIdle, UpdateBlob,
       PutBlob, PutLatest, BulkLoadEnd, ApplyHere, Dispatch, Push, Crash
  <1>4. ASSUME NEW h \in Handlers, HandlerStep(h) PROVE log' = log
    BY <1>4 DEF HandlerStep, AskLatest, CheckEpoch, ClaimEpoch, LaunchExecutor, AwaitPorts,
       StartList, ListBlob, RunGae, Respond, GaeStep, ReaderStep, ReadLatest, ChooseEpoch,
       EndRead, ReadBlob, SetReader, vars
  <1>5. ASSUME NEW h \in Handlers, NEW e \in 0 .. MaxEpoch,
               \/ AskFails(h) \/ LaunchFails(h) \/ GetAvailableEpochs(h)
               \/ ChangeReadEpoch(h, e) \/ RunGaeTask(h, e)
        PROVE  log' = log
    BY <1>5 DEF AskFails, LaunchFails, GetAvailableEpochs, ChangeReadEpoch, RunGaeTask, Begin, vars
  <1>6. CASE UNCHANGED allVars
    BY <1>1, <1>6 DEF allVars, vars
  <1>7. QED
    BY <1>1, <1>2, <1>3, <1>4, <1>5, <1>6, Numbers DEF CNext

(* A key that names an epoch vouches for the blobs of all epochs up to it. *)
LEMMA KeyVouches ==
  ASSUME EpochInv, Dense, NEW f \in Frags, latest[f] \in Epochs
  PROVE  0 .. latest[f] \subseteq DOMAIN blobs[f]
  <1>1. latest[f] \in Ended /\ \A d \in Ended : d <= latest[f] => d \in DOMAIN blobs[f]
    BY DEF EpochInv, BlobsFirst, Announced, BlobsUpTo
  <1>2. PICK i \in 1 .. Len(log) : log[i].epoch > latest[f]
    BY <1>1 DEF Ended
  <1>3. log[i].epoch \in Nat /\ latest[f] \in Nat /\ log[i].epoch <= MaxEpoch
        /\ MaxEpoch \in Nat
    BY <1>1, LogFields, Numbers DEF EpochInv, Ended, Epochs
  <1>4. ASSUME NEW d \in 0 .. latest[f] PROVE d \in Ended
    <2>1. d \in Epochs /\ d \in Nat /\ log[i].epoch > d /\ log[i].epoch >= d
      BY <1>2, <1>3 DEF Epochs
    <2>2. d = 0 \/ \E j \in 1 .. Len(log) : log[j].epoch = d
      BY <2>1 DEF Dense
    <2>3. QED
      BY <2>1, <2>2 DEF Ended
  <1>5. QED
    BY <1>1, <1>4

(* A request nobody touches stays sound: blobs only get more. *)
LEMMA ListElsewhere ==
  ASSUME EpochInv, [CNext]_allVars, NEW h \in Handlers, ListSound(h), req'[h] = req[h]
  PROVE  ListSound(h)'
  <1>1. Heard(req[h])' = Heard(req[h])
    BY DEF Heard
  <1>2. \A f \in Heard(req[h]) : DOMAIN blobs[f] \subseteq DOMAIN blobs'[f]
    BY BlobsStay DEF Heard
  <1>3. QED
    BY <1>1, <1>2 DEF ListSound

(* Outside a listing's own states there is nothing to keep. *)
LEMMA NoListing ==
  ASSUME NEW h \in Handlers,
         req'[h].kind = "list" /\ req'[h].all =>
           /\ req'[h].answer # "error"
           /\ req'[h].pc \notin {"latest", "list"}
  PROVE  ListSound(h)'
  BY DEF ListSound

(* A handler that asks one more fragment. *)
LEMMA AskStep ==
  ASSUME EpochInv, ListInv, [CNext]_allVars, NEW h \in Handlers, AskLatest(h)
  PROVE  req' \in [Handlers -> ReqType] /\ ListSound(h)'
  <1> DEFINE q == req[h]
             got == latest[q.idx]
             low == IF got < q.latest THEN got ELSE q.latest
             x == [q EXCEPT !.idx = @ + 1, !.all = @ /\ got < UINT64_MAX,
                            !.latest = IF got < @ THEN got ELSE @]
  <1>1. /\ q \in ReqType /\ q.pc = "latest" /\ q.idx \in Frags /\ q.latest \in Answers
        /\ q.idx \in Nat /\ q.all \in BOOLEAN /\ ListSound(h)
        /\ req' = [req EXCEPT ![h] = x]
    BY DEF ListInv, CTypes, ReqType, AskLatest, SetReq
  <1>2. got \in Answers \cup {NoKey} /\ blobs' = blobs /\ latest' = latest
    BY <1>1 DEF EpochInv, TypeOK, Types, AskLatest, vars
  <1>3. /\ \A d \in Epochs : d \in Nat /\ d < UINT64_MAX
        /\ UINT64_MAX \in Nat /\ NoKey \in Nat /\ NoKey > UINT64_MAX
    BY Numbers DEF Epochs, NoKey
  <1>4. /\ low \in Answers
        /\ got < UINT64_MAX => got \in Epochs /\ low \in Epochs
        /\ got \in Nat /\ low <= got /\ low <= q.latest /\ low \in Nat /\ q.latest \in Nat
    BY <1>1, <1>2, <1>3 DEF Answers
  <1>5. /\ x.pc = "latest" /\ x.kind = q.kind /\ x.idx = q.idx + 1 /\ x.answer = q.answer
        /\ x.all = (q.all /\ got < UINT64_MAX) /\ x.latest = low
        /\ x.epoch = q.epoch
    BY <1>1 DEF ReqType
  <1>6. x \in ReqType
    <2> DEFINE b == q.all /\ got < UINT64_MAX
               n == q.idx + 1
    <2>1. b \in BOOLEAN /\ n \in Nat
      BY <1>1
    <2>2. x = [q EXCEPT !.idx = n, !.all = b, !.latest = low]
      OBVIOUS
    <2> HIDE DEF b, n, low, x
    <2>3. QED
      BY <1>1, <1>4, <2>1, <2>2 DEF ReqType
  <1>7. req'[h] = x
    BY <1>1 DEF ListInv, CTypes
  <1> HIDE DEF x, low, got
  <1>8. ListSound(h)'
    <2> SUFFICES ASSUME q.kind = "list", q.all, got < UINT64_MAX
                 PROVE  /\ q.answer # "error" /\ low \in Epochs /\ q.epoch = 0
                        /\ \A f \in Frags : f < q.idx + 1 => 0 .. low \subseteq DOMAIN blobs[f]
      BY <1>2, <1>5, <1>7 DEF ListSound, Heard
    <2>1. q.answer # "error" /\ q.epoch = 0
          /\ \A f \in Frags : f < q.idx => 0 .. q.latest \subseteq DOMAIN blobs[f]
      BY <1>1 DEF ListSound, Heard
    <2>2. 0 .. got \subseteq DOMAIN blobs[q.idx]
      BY <1>1, <1>4, KeyVouches DEF ListInv, got
    <2>3. 0 .. low \subseteq 0 .. got /\ 0 .. low \subseteq 0 .. q.latest
      BY <1>4
    <2>4. ASSUME NEW f \in Frags, f < q.idx + 1 PROVE f < q.idx \/ f = q.idx
      BY <1>1, <2>4, Numbers DEF Frags
    <2>5. QED
      BY <1>4, <2>1, <2>2, <2>3, <2>4
  <1>9. QED
    BY <1>1, <1>6, <1>8 DEF ListInv, CTypes

(* A handler that walks the epochs: a blob that is missing was not vouched  *)
(* for.                                                                     *)
LEMMA WalkStep ==
  ASSUME NumFrags > 0, EpochInv, ListInv, [CNext]_allVars, NEW h \in Handlers,
         StartList(h) \/ ListBlob(h)
  PROVE  req' \in [Handlers -> ReqType] /\ ListSound(h)'
  <1> DEFINE q == req[h]
  <1>1. /\ q \in ReqType /\ q.idx \in Nat /\ q.epoch \in Nat /\ q.latest \in Answers
        /\ ListSound(h) /\ DOMAIN req = Handlers /\ req \in [Handlers -> ReqType]
    BY DEF ListInv, CTypes, ReqType
  <1>2. /\ q.epoch + 1 \in Nat /\ q.idx + 1 \in Nat /\ blobs' = blobs
        /\ 1 \in Frags /\ \A d \in Epochs : d \in Nat
    BY <1>1, Numbers DEF StartList, ListBlob, vars, Frags, Epochs
  <1>3. CASE StartList(h)
    <2>1. q.pc = "latest" /\ q.idx > NumFrags /\ Heard(q) = Frags
      BY <1>1, <1>3, Numbers DEF StartList, Asked, Heard, Frags
    <2>2. CASE q.latest = UINT64_MAX
      <3>1. req' = [req EXCEPT ![h] = Answered(q, "error")]
        BY <1>3, <2>2 DEF StartList, SetReq
      <3>2. Answered(q, "error") \in ReqType /\ Answered(q, "error").all = q.all
            /\ Answered(q, "error").kind = q.kind
        BY <1>1 DEF ReqType, Answered
      <3>3. q.idx > 1
        BY <1>1, <2>1, Numbers
      <3>4. q.kind = "list" => ~q.all
        BY <1>1, <2>1, <2>2, <3>3, LogFields DEF ListSound, EpochInv
      <3>5. req'[h] = Answered(q, "error") /\ req' \in [Handlers -> ReqType]
        BY <1>1, <3>1, <3>2
      <3>6. QED
        BY <3>2, <3>4, <3>5, NoListing
    <2>3. CASE q.latest # UINT64_MAX
      <3> DEFINE x == [q EXCEPT !.pc = "list", !.idx = 1]
      <3>1. req' = [req EXCEPT ![h] = x]
        BY <1>3, <2>3 DEF StartList, SetReq
      <3>2. /\ x \in ReqType /\ x.kind = q.kind /\ x.all = q.all /\ x.answer = q.answer
            /\ x.pc = "list" /\ x.idx = 1 /\ x.latest = q.latest /\ x.epoch = q.epoch
        BY <1>1 DEF ReqType
      <3>3. req'[h] = x /\ req' \in [Handlers -> ReqType]
        BY <1>1, <3>1, <3>2
      <3>4. q.latest \in Epochs
        BY <1>1, <2>3 DEF Answers
      <3>5. ListSound(h)'
        <4> HIDE DEF x
        <4> SUFFICES ASSUME q.kind = "list", q.all
                     PROVE  /\ q.answer # "error" /\ q.epoch <= q.latest
                            /\ \A f \in Frags : 0 .. q.latest \subseteq DOMAIN blobs[f]
          BY <1>2, <3>2, <3>3, <3>4 DEF ListSound, Heard
        <4>1. q.latest \in Nat
          BY <1>2, <3>4
        <4>2. QED
          BY <1>1, <2>1, <4>1 DEF ListSound
      <3>6. QED
        BY <3>3, <3>5
    <2>4. QED
      BY <2>2, <2>3
  <1>4. CASE ListBlob(h)
    <2>1. q.pc = "list" /\ Heard(q) = Frags
      BY <1>4 DEF ListBlob, Heard
    <2>2. q.kind = "list" /\ q.all =>
            /\ q.answer # "error" /\ q.latest \in Epochs /\ q.latest \in Nat
            /\ q.epoch <= q.latest /\ q.idx \in Frags
            /\ \A f \in Frags : 0 .. q.latest \subseteq DOMAIN blobs[f]
      BY <1>1, <1>2, <2>1 DEF ListSound
    <2>3. CASE q.epoch \notin DOMAIN blobs[q.idx]
      <3>1. req' = [req EXCEPT ![h] = Answered(q, "error")]
        BY <1>4, <2>3 DEF ListBlob, SetReq
      <3>2. Answered(q, "error") \in ReqType /\ Answered(q, "error").all = q.all
            /\ Answered(q, "error").kind = q.kind
        BY <1>1 DEF ReqType, Answered
      <3>3. ~(q.kind = "list" /\ q.all)
        <4>1. q.kind = "list" /\ q.all => q.epoch \in 0 .. q.latest
          BY <1>1, <2>2
        <4>2. QED
          BY <2>2, <2>3, <4>1
      <3>4. req'[h] = Answered(q, "error") /\ req' \in [Handlers -> ReqType]
        BY <1>1, <3>1, <3>2
      <3>5. QED
        BY <3>2, <3>3, <3>4, NoListing
    <2>4. CASE q.epoch \in DOMAIN blobs[q.idx] /\ q.idx >= NumFrags /\ q.epoch >= q.latest
      <3>1. req' = [req EXCEPT ![h] = Answered(q, "listed")]
        <4>1. q.latest \in Nat
          BY <1>1, <1>2, Numbers DEF Answers
        <4>2. ~(q.idx < NumFrags) /\ ~(q.epoch < q.latest)
          BY <1>1, <2>4, <4>1, Numbers
        <4>3. Listed(q) = Answered(q, "listed")
          BY <4>2 DEF Listed
        <4>4. QED
          BY <1>4, <2>4, <4>3 DEF ListBlob, SetReq
      <3>2. Answered(q, "listed") \in ReqType /\ Answered(q, "listed").answer = "listed"
            /\ Answered(q, "listed").pc = "answered"
        BY <1>1 DEF ReqType, Answered
      <3>3. req'[h] = Answered(q, "listed") /\ req' \in [Handlers -> ReqType]
        BY <1>1, <3>1, <3>2
      <3>4. QED
        BY <3>2, <3>3, NoListing
    <2>5. ASSUME NEW e \in Nat, NEW i \in Nat,
                 req' = [req EXCEPT ![h] = [q EXCEPT !.idx = i, !.epoch = e]],
                 q.kind = "list" /\ q.all => i \in Frags /\ e <= q.latest
          PROVE  req' \in [Handlers -> ReqType] /\ ListSound(h)'
      <3> DEFINE x == [q EXCEPT !.idx = i, !.epoch = e]
      <3>1. /\ x \in ReqType /\ x.kind = q.kind /\ x.all = q.all /\ x.answer = q.answer
            /\ x.pc = "list" /\ x.idx = i /\ x.latest = q.latest /\ x.epoch = e
        BY <1>1, <2>1 DEF ReqType
      <3>2. req'[h] = x /\ req' \in [Handlers -> ReqType]
        BY <1>1, <2>5, <3>1
      <3> HIDE DEF x
      <3>3. QED
        BY <1>2, <2>2, <2>5, <3>1, <3>2 DEF ListSound, Heard
    <2>6. CASE q.epoch \in DOMAIN blobs[q.idx] /\ q.idx < NumFrags
      <3>1. req' = [req EXCEPT ![h] = [q EXCEPT !.idx = q.idx + 1, !.epoch = q.epoch]]
        <4>1. [q EXCEPT !.idx = q.idx + 1] = [q EXCEPT !.idx = q.idx + 1, !.epoch = q.epoch]
          BY <1>1 DEF ReqType
        <4>2. Listed(q) = [q EXCEPT !.idx = q.idx + 1]
          <5>1. q.idx < NumFrags
            BY <2>6
          <5>2. QED
            BY <5>1 DEF Listed
        <4>3. QED
          BY <1>4, <2>6, <4>1, <4>2 DEF ListBlob, SetReq
      <3>2. q.kind = "list" /\ q.all => q.idx + 1 \in Frags /\ q.epoch <= q.latest
        BY <1>1, <2>2, <2>6, Numbers DEF Frags
      <3>3. QED
        BY <1>1, <1>2, <2>5, <3>1, <3>2
    <2>7. CASE q.epoch \in DOMAIN blobs[q.idx] /\ q.idx >= NumFrags /\ q.epoch < q.latest
      <3>1. req' = [req EXCEPT ![h] = [q EXCEPT !.idx = 1, !.epoch = q.epoch + 1]]
        <4>1. ~(q.idx < NumFrags)
          BY <1>1, <2>7, Numbers
        <4>2. Listed(q) = [q EXCEPT !.idx = 1, !.epoch = q.epoch + 1]
          BY <2>7, <4>1 DEF Listed
        <4>3. QED
          BY <1>4, <2>7, <4>2 DEF ListBlob, SetReq
      <3>2. q.kind = "list" /\ q.all => q.epoch + 1 <= q.latest
        BY <1>1, <2>2, <2>7
      <3>3. QED
        BY <1>2, <2>5, <3>1, <3>2
    <2>8. QED
      BY <1>1, <2>3, <2>4, <2>6, <2>7, Numbers DEF Answers, Epochs
  <1>5. QED
    BY <1>3, <1>4

LEMMA ListStep ==
  ASSUME NumFrags > 0, EpochInv, ListInv, [CNext]_allVars
  PROVE  ListInv'
  <1>1. Dense'
    BY DenseStep DEF ListInv
  <1>2. DOMAIN executor' = Frags
    BY DEF CNext, EmitNext, WriterStep, HandlerStep, AskLatest, CheckEpoch, ClaimEpoch,
       LaunchExecutor, AwaitPorts, StartList, ListBlob, RunGae, GaeStep, Respond, AskFails,
       LaunchFails, telling, GetAvailableEpochs, ChangeReadEpoch, RunGaeTask, Begin, allVars, ctl, ListInv, CTypes
  <1>3. ASSUME req' = req PROVE ListInv'
    BY <1>1, <1>2, <1>3, ListElsewhere DEF ListInv, CTypes
  <1>4. ASSUME NEW h \in Handlers, NEW x, SetReq(h, x),
               req' \in [Handlers -> ReqType], ListSound(h)'
        PROVE  ListInv'
    <2>1. \A g \in Handlers \ {h} : req'[g] = req[g]
      BY <1>4 DEF SetReq, ListInv, CTypes
    <2>2. QED
      BY <1>1, <1>2, <1>4, <2>1, ListElsewhere DEF ListInv, CTypes
  <1>5. ASSUME NEW h \in Handlers, NEW x \in ReqType, SetReq(h, x),
               x.kind = "list" /\ x.all =>
                 x.answer # "error" /\ x.pc \notin {"latest", "list"}
        PROVE  ListInv'
    <2>1. req'[h] = x /\ req' \in [Handlers -> ReqType]
      BY <1>5 DEF SetReq, ListInv, CTypes
    <2>2. ListSound(h)'
      BY <1>5, <2>1, NoListing
    <2>3. QED
      BY <1>4, <1>5, <2>1, <2>2
  <1>6. \A h \in Handlers : req[h] \in ReqType
    BY DEF ListInv, CTypes
  <1>7. ASSUME NEW h \in Handlers, NEW k \in {"change", "list", "gae"}, NEW e \in Nat,
               Begin(h, k, e), k = "list" => e = 0
        PROVE  ListInv'
    <2> DEFINE x == [NoRequest EXCEPT !.pc = "latest", !.kind = k, !.epoch = e]
    <2>1. /\ x \in ReqType /\ x.pc = "latest" /\ x.kind = k /\ x.idx = 1 /\ x.answer = ""
          /\ x.epoch = e
      BY DEF NoRequest, ReqType, Answers
    <2>2. SetReq(h, x) /\ blobs' = blobs
      BY <1>7 DEF Begin, vars
    <2>3. req'[h] = x /\ req' \in [Handlers -> ReqType]
      BY <2>1, <2>2 DEF SetReq, ListInv, CTypes
    <2> HIDE DEF x
    <2>4. \A f \in Frags : ~(f < 1)
      BY Numbers DEF Frags
    <2>5. Heard(x) = {}
      BY <2>1, <2>4 DEF Heard
    <2>6. /\ req'[h].pc = "latest" /\ req'[h].idx = 1 /\ req'[h].kind = k
          /\ req'[h].epoch = e /\ req'[h].answer = "" /\ Heard(req[h])' = {}
      BY <2>1, <2>3, <2>5 DEF Heard
    <2>7. ListSound(h)'
      <3>1. k = "list" => e = 0
        BY <1>7
      <3>2. ~(1 > 1) /\ "latest" # "list"
        OBVIOUS
      <3>3. QED
        BY <2>6, <3>1, <3>2 DEF ListSound
    <2>8. QED
      BY <1>4, <2>2, <2>3, <2>7
  <1>7a. ASSUME NEW h \in Handlers, CanTell(h) PROVE ListInv'
    <2>1. req[h] \in ReqType /\ req[h].pc = "launch" /\ SetReq(h, [req[h] EXCEPT !.idx = @ + 1])
      BY <1>6, <1>7a DEF CanTell
    <2>2. req[h].idx \in Nat
      BY <2>1 DEF ReqType
    <2> DEFINE x == [req[h] EXCEPT !.idx = req[h].idx + 1]
    <2>3. req[h].idx + 1 \in Nat
      BY <2>2
    <2>4. x \in ReqType /\ x.kind = req[h].kind /\ x.all = req[h].all
          /\ x.answer = req[h].answer /\ x.pc = "launch"
      BY <2>1, <2>3 DEF ReqType
    <2>5. x.kind = "list" /\ x.all => x.answer # "error"
      BY <2>4 DEF ListInv, ListSound
    <2>6. QED
      BY <1>5, <2>1, <2>4, <2>5
  <1>8. ASSUME NEW h \in Handlers, HandlerStep(h) PROVE ListInv'
    <2>1. req[h] \in ReqType
      BY <1>6
    <2>2. CASE AskLatest(h)
      <3>1. req' \in [Handlers -> ReqType] /\ ListSound(h)'
        BY <2>2, AskStep
      <3>2. QED
        BY <2>2, <3>1, <1>4 DEF AskLatest
    <2>3. CASE StartList(h) \/ ListBlob(h)
      <3>1. req' \in [Handlers -> ReqType] /\ ListSound(h)'
        BY <2>3, WalkStep
      <3>2. \E x : SetReq(h, x)
        BY <2>3 DEF StartList, ListBlob
      <3>3. QED
        BY <3>1, <3>2, <1>4
    <2>4. ASSUME NEW a \in {"invalid", "none", "changed", "gae"},
                 SetReq(h, Answered(req[h], a))
          PROVE  ListInv'
      <3>1. Answered(req[h], a) \in ReqType /\ Answered(req[h], a).answer = a
            /\ Answered(req[h], a).pc = "answered"
        BY <2>1 DEF Answered, ReqType
      <3>2. QED
        BY <1>5, <2>4, <3>1
    <2>5. ASSUME NEW p \in {"claim", "gae"}, req[h].kind # "list",
                 SetReq(h, [req[h] EXCEPT !.pc = p])
          PROVE  ListInv'
      <3>1. [req[h] EXCEPT !.pc = p] \in ReqType
            /\ [req[h] EXCEPT !.pc = p].kind = req[h].kind
        BY <2>1 DEF ReqType
      <3>2. QED
        BY <1>5, <2>5, <3>1
    <2>6. CASE CheckEpoch(h)
      BY <2>4, <2>5, <2>6 DEF CheckEpoch, Checked
    <2>7. CASE RunGae(h)
      BY <2>4, <2>5, <2>7 DEF RunGae
    <2>8. ASSUME NEW i \in Nat, req[h].pc \in {"claim", "launch"},
                 SetReq(h, [req[h] EXCEPT !.pc = "launch", !.idx = i])
          PROVE  ListInv'
      <3> DEFINE x == [req[h] EXCEPT !.pc = "launch", !.idx = i]
      <3>1. x \in ReqType /\ x.kind = req[h].kind /\ x.all = req[h].all
            /\ x.answer = req[h].answer /\ x.pc = "launch"
        BY <2>1 DEF ReqType
      <3>2. x.kind = "list" /\ x.all => x.answer # "error"
        BY <3>1 DEF ListInv, ListSound
      <3>3. QED
        BY <1>5, <2>8, <3>1, <3>2
    <2>9. CASE ClaimEpoch(h)
      BY <2>8, <2>9 DEF ClaimEpoch
    <2>10. CASE LaunchExecutor(h)
      BY <1>7a, <2>10 DEF LaunchExecutor
    <2>11. CASE AwaitPorts(h)
      BY <2>4, <2>11 DEF AwaitPorts
    <2>12. CASE GaeStep(h)
      BY <1>3, <2>4, <2>12 DEF GaeStep, SetReq
    <2>13. CASE Respond(h)
      <3>1. NoRequest \in ReqType /\ NoRequest.kind = "change"
        BY DEF NoRequest, ReqType, Answers
      <3>2. QED
        BY <1>5, <2>13, <3>1 DEF Respond
    <2>14. QED
      BY <1>8, <2>2, <2>3, <2>6, <2>7, <2>9, <2>10, <2>11, <2>12, <2>13 DEF HandlerStep
  <1>9. ASSUME NEW h \in Handlers, AskFails(h) PROVE ListInv'
    <2> DEFINE x == [req[h] EXCEPT !.idx = @ + 1, !.all = FALSE]
    <2>a. req[h] \in ReqType /\ req[h].idx \in Nat
      BY <1>6 DEF ReqType
    <2>b. req[h].idx + 1 \in Nat
      BY <2>a
    <2>1. x \in ReqType /\ ~x.all
      BY <2>a, <2>b DEF ReqType
    <2>2. SetReq(h, x)
      BY <1>9 DEF AskFails
    <2>3. QED
      BY <1>5, <2>1, <2>2
  <1>10. ASSUME NEW h \in Handlers, NEW e \in 0 .. MaxEpoch,
               \/ GetAvailableEpochs(h) \/ ChangeReadEpoch(h, e) \/ RunGaeTask(h, e)
        PROVE  ListInv'
    BY <1>7, <1>10, Numbers DEF GetAvailableEpochs, ChangeReadEpoch, RunGaeTask
  <1>11. ASSUME NEW op \in LogOps, NEW e \in 0 .. MaxEpoch, EmitNext(op, e) PROVE ListInv'
    BY <1>3, <1>11 DEF EmitNext, ctl
  <1>12. ASSUME NEW f \in Frags, WriterStep(f) PROVE ListInv'
    BY <1>3, <1>12 DEF WriterStep, ctl
  <1>13. CASE UNCHANGED allVars
    BY <1>3, <1>13 DEF allVars, ctl
  <1>14. ASSUME NEW h \in Handlers, LaunchFails(h) PROVE ListInv'
    BY <1>7a, <1>14 DEF LaunchFails
  <1>15. QED
    BY <1>8, <1>9, <1>10, <1>11, <1>12, <1>13, <1>14, Numbers DEF CNext

(* For every number of fragments, handlers, writer crashes and failed       *)
(* reads: a listing of the epochs fails only if some fragment did not       *)
(* answer with an epoch it has published                                    *)
(* (get_all_available_read_epochs_internal).                                *)
THEOREM ListingCorrect ==
  ASSUME NumFrags > 0
  PROVE  CSpec => []ListComplete
  <1>1. CInit => EpochInv /\ ListInv
    BY CInitInv
  <1>2. EpochInv /\ ListInv /\ [CNext]_allVars => (EpochInv /\ ListInv)'
    BY RunnerStep, ListStep
  <1>3. ListInv => ListComplete
    BY DEF ListInv, ListSound, ListComplete
  <1>4. QED
    BY <1>1, <1>2, <1>3, PTL DEF CSpec

-----------------------------------------------------------------------------
(* The executors *)

LEMMA ExecStep ==
  ASSUME \A g, h \in Handlers : g = h,
         EpochInv, ListInv, ExecInv, [CNext]_allVars
  PROVE  ExecInv'
  <1>1. ASSUME NEW f \in Frags, Shows(f), executor'[f] = executor[f], previous' = previous
        PROVE  Shows(f)'
    BY <1>1, BlobsStay DEF Shows
  <1>2. ASSUME UNCHANGED <<previous, telling>>,
               \A h \in Handlers : req'[h].pc = "launch" => req'[h] = req[h],
               \A h \in Handlers : req[h].pc = "launch" => req'[h].pc = "launch"
        PROVE  ExecInv'
    BY <1>1, <1>2 DEF ExecInv, telling
  <1>3. ASSUME NEW h \in Handlers, ClaimEpoch(h) PROVE ExecInv'
    <2>1. /\ previous' = req[h].epoch
          /\ req'[h] = [req[h] EXCEPT !.pc = "launch", !.idx = 1] /\ req[h] \in ReqType
      BY <1>3 DEF ClaimEpoch, SetReq, ListInv, CTypes
    <2>2. req'[h].pc = "launch" /\ req'[h].idx = 1 /\ req'[h].epoch = req[h].epoch
      BY <2>1 DEF ReqType
    <2>3. \A f \in Frags : ~(f < 1)
      BY Numbers DEF Frags
    <2>4. QED
      BY <2>1, <2>2, <2>3 DEF ExecInv
  <1>a. ASSUME NEW h \in Handlers, CanTell(h), UNCHANGED <<previous, blobs>>,
               NEW f \in Frags, \A g \in Frags \ {f} : executor'[g] = executor[g],
               f = req[h].idx, missed' \in {missed \cup {f}, missed \ {f}},
               f \notin missed' => executor'[f] = req[h].epoch
        PROVE  ExecInv'
    <2> DEFINE q == req[h]
    <2>1. /\ q.pc = "launch" /\ q.idx \in Frags /\ q.epoch \in DOMAIN blobs[q.idx]
          /\ req'[h] = [q EXCEPT !.idx = q.idx + 1] /\ q \in ReqType
      BY <1>a DEF CanTell, SetReq, ListInv, CTypes
    <2>2. previous = q.epoch /\ \A g \in Frags \ missed : g < q.idx => Shows(g)
      BY <2>1 DEF ExecInv
    <2>3. req'[h].pc = "launch" /\ req'[h].idx = q.idx + 1 /\ req'[h].epoch = q.epoch
      BY <2>1 DEF ReqType
    <2>5. ASSUME NEW g \in Frags \ missed', g < q.idx + 1 PROVE Shows(g)'
      <3>1. g < q.idx \/ g = q.idx
        BY <2>1, <2>5, Numbers DEF Frags
      <3>2. CASE g = q.idx
        BY <1>a, <2>1, <2>2, <2>5, <3>2 DEF Shows
      <3>3. CASE g # q.idx
        BY <1>1, <1>a, <2>1, <2>2, <2>5, <3>1, <3>3
      <3>4. QED
        BY <3>2, <3>3
    <2>6. previous' = req'[h].epoch
      BY <1>a, <2>2, <2>3
    <2>7. \A g \in Frags \ missed' : g < req'[h].idx => Shows(g)'
      BY <2>3, <2>5
    <2>8. QED
      BY <2>3, <2>6, <2>7 DEF ExecInv
  <1>4. ASSUME NEW h \in Handlers, LaunchExecutor(h) PROVE ExecInv'
    <2>1. req[h].idx \in Frags /\ CanTell(h) /\ UNCHANGED <<previous, blobs>>
      BY <1>4 DEF LaunchExecutor, CanTell, vars
    <2>2. /\ executor'[req[h].idx] = req[h].epoch
          /\ \A g \in Frags \ {req[h].idx} : executor'[g] = executor[g]
      BY <1>4, <2>1 DEF LaunchExecutor, ListInv, CTypes
    <2>3. missed' = missed \ {req[h].idx}
      BY <1>4 DEF LaunchExecutor
    <2>4. QED
      BY <1>a, <2>1, <2>2, <2>3
  <1>b. ASSUME NEW h \in Handlers, LaunchFails(h) PROVE ExecInv'
    <2>1. req[h].idx \in Frags /\ CanTell(h) /\ UNCHANGED <<previous, blobs, executor>>
      BY <1>b DEF LaunchFails, CanTell, vars
    <2>2. missed' = missed \cup {req[h].idx}
      BY <1>b DEF LaunchFails
    <2>3. QED
      BY <1>a, <2>1, <2>2
  <1>5. ASSUME NEW h \in Handlers, AwaitPorts(h) PROVE ExecInv'
    <2>1. /\ req[h].pc = "launch" /\ req[h].idx > NumFrags /\ req[h] \in ReqType
          /\ req'[h] = Answered(req[h], "changed") /\ UNCHANGED <<previous, executor, missed>>
      BY <1>5 DEF AwaitPorts, telling, SetReq, ListInv, CTypes
    <2>2. req'[h].pc # "launch"
      BY <2>1 DEF Answered, ReqType
    <2>a. req[h].idx \in Nat
      BY <2>1 DEF ReqType
    <2>3. \A f \in Frags : f < req[h].idx
      BY <2>1, <2>a, Numbers DEF Frags
    <2>4. \A f \in Frags \ missed' : Shows(f)'
      BY <1>1, <2>1, <2>3 DEF ExecInv
    <2>5. QED
      BY <2>2, <2>4 DEF ExecInv
  <1>6. ASSUME NEW h \in Handlers, NEW x, SetReq(h, x), UNCHANGED <<previous, telling>>,
               x.pc # "launch", req[h].pc # "launch"
        PROVE  ExecInv'
    BY <1>2, <1>6 DEF SetReq, ListInv, CTypes
  <1>7. ASSUME req' = req, UNCHANGED <<previous, telling>> PROVE ExecInv'
    BY <1>2, <1>7
  <1>8. ASSUME NEW h \in Handlers, HandlerStep(h) PROVE ExecInv'
    <2>1. req[h] \in ReqType
      BY DEF ListInv, CTypes
    <2>2. \A a : Answered(req[h], a).pc = "answered"
      BY <2>1 DEF Answered, ReqType
    <2>3. \A p : [req[h] EXCEPT !.pc = p].pc = p
      BY <2>1 DEF ReqType
    <2>4. CASE AskLatest(h)
      BY <1>6, <2>1, <2>4 DEF AskLatest, ReqType
    <2>5. CASE CheckEpoch(h)
      <3>1. Checked(req[h]).pc # "launch"
        BY <2>2, <2>3 DEF Checked
      <3>2. QED
        BY <1>6, <2>5, <3>1 DEF CheckEpoch, Asked
    <2>6. CASE RunGae(h)
      BY <1>6, <2>2, <2>3, <2>6 DEF RunGae, Asked
    <2>7. CASE GaeStep(h)
      BY <1>6, <1>7, <2>2, <2>7 DEF GaeStep, SetReq
    <2>8. CASE StartList(h)
      <3>1. [req[h] EXCEPT !.pc = "list", !.idx = 1].pc = "list"
        BY <2>1 DEF ReqType
      <3>2. QED
        BY <1>6, <2>2, <2>8, <3>1 DEF StartList, Asked
    <2>9. CASE ListBlob(h)
      <3>1. req[h].pc = "list"
        BY <2>9 DEF ListBlob
      <3>2. Listed(req[h]).pc # "launch"
        BY <2>1, <2>2, <3>1 DEF Listed, ReqType
      <3>3. QED
        BY <1>6, <2>2, <2>9, <3>1, <3>2 DEF ListBlob
    <2>10. CASE Respond(h)
      BY <1>6, <2>10 DEF Respond, NoRequest
    <2>11. QED
      BY <1>3, <1>4, <1>5, <1>8, <2>4, <2>5, <2>6, <2>7, <2>8, <2>9, <2>10 DEF HandlerStep
  <1>9. ASSUME NEW h \in Handlers, AskFails(h) PROVE ExecInv'
    <2>1. req[h] \in ReqType
      BY DEF ListInv, CTypes
    <2>2. [req[h] EXCEPT !.idx = @ + 1, !.all = FALSE].pc = req[h].pc
      BY <2>1 DEF ReqType
    <2>3. QED
      BY <1>6, <1>9, <2>2 DEF AskFails
  <1>10. ASSUME NEW h \in Handlers, NEW k, NEW e, Begin(h, k, e) PROVE ExecInv'
    BY <1>6, <1>10 DEF Begin, NoRequest
  <1>11. ASSUME NEW op \in LogOps, NEW e \in 0 .. MaxEpoch, EmitNext(op, e) PROVE ExecInv'
    BY <1>7, <1>11 DEF EmitNext, ctl, telling
  <1>12. ASSUME NEW f \in Frags, WriterStep(f) PROVE ExecInv'
    BY <1>7, <1>12 DEF WriterStep, ctl, telling
  <1>13. CASE UNCHANGED allVars
    BY <1>7, <1>13 DEF allVars, ctl, telling
  <1>14. QED
    BY <1>b, <1>8, <1>9, <1>10, <1>11, <1>12, <1>13
    DEF CNext, GetAvailableEpochs, ChangeReadEpoch, RunGaeTask

(* With writers built without threads and one handler thread, between       *)
(* requests the executors of all fragments that the last curl reached show  *)
(* one snapshot, that of the epoch that counts as changed, whatever crashes *)
(* and whichever reads and curls fail (change_read_epoch).                  *)
THEOREM ExecutorsAgree ==
  ASSUME NumThreads = 0, NumFrags > 0, \A g, h \in Handlers : g = h
  PROVE  CSpec => []OneSnapshot
  <1>1. CInit => EpochInv /\ CutInv /\ ListInv /\ ExecInv
    BY CInitInv
  <1>2. EpochInv /\ CutInv /\ ListInv /\ ExecInv /\ [CNext]_allVars
          => (EpochInv /\ CutInv /\ ListInv /\ ExecInv)'
    BY RunnerStep, RunnerCut, ListStep, ExecStep
  <1>3. CutInv /\ ExecInv => OneSnapshot
    <2> SUFFICES ASSUME CutInv, ExecInv, Quiet, previous # None, NEW f \in Frags \ missed
                 PROVE  executor[f] \in DOMAIN blobs[f] /\ blobs[f][executor[f]] = Cut(previous)
      BY DEF OneSnapshot
    <2>1. Shows(f)
      BY DEF ExecInv, Quiet
    <2>2. QED
      BY <2>1 DEF Shows, CutInv, CutSound
  <1>4. QED
    BY <1>1, <1>2, <1>3, PTL DEF CSpec

=============================================================================
