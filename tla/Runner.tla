------------------------------- MODULE Runner -------------------------------
(***************************************************************************)
(* The writers of all fragments as consumers of the unified log, the etcd  *)
(* keys through which they publish epochs, and the readers that pick an    *)
(* epoch from those keys.                                                  *)
(*                                                                         *)
(* Without threads (the default build) a writer applies a log itself; with *)
(* threads (USE_MULTI_THREADS) it queues logs for them and, before it      *)
(* publishes or lets a delete or update through, waits at a barrier.       *)
(* Applying a log is one step that records its index: what it does to the  *)
(* graph is the subject of GraphStore.                                     *)
(***************************************************************************)
EXTENDS Integers, Sequences, FiniteSets, FiniteSetsExt

CONSTANTS
  NumFrags,     \* fragments are 1 .. NumFrags
  NumThreads,   \* FLAGS_num_threads; 0: built without USE_MULTI_THREADS
  Readers,
  LogOps,       \* operations of the log: "add", "delete" (or update), "bulkload_end"
  UINT64_MAX,   \* value of the latest-epoch key before the first publication
  MaxLogs,      \* bound: length of the unified log
  MaxEpoch,     \* bound: epochs of the unified log
  MaxCrashes    \* bound: writer crashes

Frags   == 1 .. NumFrags
Threads == 1 .. NumThreads

ASSUME RunnerAssumption ==
  /\ {NumFrags, NumThreads, MaxLogs, MaxEpoch, MaxCrashes} \subseteq Nat
  /\ LogOps \subseteq {"add", "delete", "bulkload_end"}
  /\ UINT64_MAX \in Nat /\ UINT64_MAX > MaxEpoch

VARIABLES
  log,       \* the unified log, in Kafka
  run,       \* per fragment, the consuming thread of its writer
  queue,     \* logs_: indices of queued logs
  working,   \* is_working_: one bit per thread, all in one machine word
  thr,       \* per fragment, the state of process_log_thread of each thread
  applied,   \* indices of the logs applied to the graph store
  blobs,     \* etcd: epoch -> logs its snapshot contains
  latest,    \* etcd: gart_latest_epoch_p<f>; NoKey before put_schema
  crashes,
  reader

vars == <<log, run, queue, working, thr, applied, blobs, latest, crashes, reader>>

NoKey == UINT64_MAX + 1

Down == [pc |-> "down", pos |-> 0, epoch |-> 0, parallel |-> TRUE,
         idx |-> 0, then |-> "publish", snap |-> {}]

IdleThread == [pc |-> "pop", cur |-> 0, word |-> [t \in Threads |-> TRUE]]

IdleReader == [pc |-> "latest", vals |-> << >>, epoch |-> 0, found |-> << >>]

Init ==
  /\ log = << >>
  /\ run = [f \in Frags |-> Down]
  /\ queue = [f \in Frags |-> << >>]
  /\ working = [f \in Frags |-> [t \in Threads |-> TRUE]]
  /\ thr = [f \in Frags |-> [t \in Threads |-> IdleThread]]
  /\ applied = [f \in Frags |-> {}]
  /\ blobs = [f \in Frags |-> << >>]
  /\ latest = [f \in Frags |-> NoKey]
  /\ crashes = 0
  /\ reader = [r \in Readers |-> IdleReader]

etcd    == <<blobs, latest>>
threads == <<queue, working, thr>>

-----------------------------------------------------------------------------
(* The converter appends to the unified log; epochs never decrease. *)

LastEpoch == IF log = << >> THEN 0 ELSE log[Len(log)].epoch

Emit(op, e) ==
  /\ Len(log) < MaxLogs
  /\ e >= LastEpoch
  /\ log' = Append(log, [op |-> op, epoch |-> e])
  /\ UNCHANGED <<run, threads, applied, etcd, crashes, reader>>

-----------------------------------------------------------------------------
(* The consuming thread *)

Cur(f) == log[run[f].pos + 1]

Goto(f, pc) == [run EXCEPT ![f].pc = pc]

(* The log is dealt with: consume the next one. *)
Done(f, r) == [run EXCEPT ![f] = [r EXCEPT !.pc = "consume", !.pos = @ + 1]]

(* A new writer process: put_schema, then the log from its beginning. *)
Start(f) ==
  /\ run[f].pc = "down"
  /\ latest' = [latest EXCEPT ![f] = UINT64_MAX]
  /\ run' = Goto(f, "consume")
  /\ UNCHANGED <<log, threads, applied, blobs, crashes, reader>>

(* The consuming thread waits for the others, if there are any. *)
Barrier(f, then) ==
  IF NumThreads = 0 THEN Goto(f, then)
  ELSE [run EXCEPT ![f].pc = "barrier", ![f].idx = 0, ![f].then = then]

(* Mutant: the first log of an epoch is applied before the one before it is *)
(* published.                                                               *)
ApplyFirst(f) ==
  /\ run[f].pc = "consume"
  /\ run[f].pos < Len(log)
  /\ run' = IF Cur(f).epoch > run[f].epoch THEN Barrier(f, "publish")
            ELSE Goto(f, "dispatch")
  /\ applied' = [applied EXCEPT ![f] = @ \cup {run[f].pos + 1}]
  /\ UNCHANGED <<log, threads, etcd, crashes, reader>>

Consume(f) ==
  /\ run[f].pc = "consume"
  /\ run[f].pos < Len(log)
  /\ run' = IF Cur(f).epoch > run[f].epoch THEN Barrier(f, "publish")
            ELSE Goto(f, "dispatch")
  /\ UNCHANGED <<log, threads, applied, etcd, crashes, reader>>

(* First the queue has to be empty... *)
WaitEmpty(f) ==
  /\ run[f].pc = "barrier" /\ run[f].idx = 0
  /\ queue[f] = << >>
  /\ run' = [run EXCEPT ![f].idx = 1]
  /\ UNCHANGED <<log, threads, applied, etcd, crashes, reader>>

(* ...then one thread after another has to be seen idle. *)
WaitIdle(f) ==
  /\ run[f].pc = "barrier" /\ run[f].idx \in Threads
  /\ ~working[f][run[f].idx]
  /\ run' = IF run[f].idx = NumThreads THEN Goto(f, run[f].then)
            ELSE [run EXCEPT ![f].idx = @ + 1]
  /\ UNCHANGED <<log, threads, applied, etcd, crashes, reader>>

(* update_blob, insert_blob_schema *)
UpdateBlob(f) ==
  /\ run[f].pc = "publish"
  /\ run' = [run EXCEPT ![f].pc = "put_blob", ![f].snap = applied[f]]
  /\ UNCHANGED <<log, threads, applied, etcd, crashes, reader>>

(* Mutant: the latest-epoch key first, the blob's key after it. *)
PutLatestFirst(f) ==
  /\ run[f].pc = "put_blob"
  /\ latest' = [latest EXCEPT ![f] = run[f].epoch]
  /\ run' = Goto(f, "put_latest")
  /\ UNCHANGED <<log, threads, applied, blobs, crashes, reader>>

(* put_blob_json_etcd: the blob's key first... *)
PutBlob(f) ==
  /\ run[f].pc = "put_blob"
  /\ LET e == run[f].epoch IN
     blobs' = [blobs EXCEPT ![f] = [x \in DOMAIN @ \cup {e} |->
                                      IF x = e THEN run[f].snap ELSE @[x]]]
  /\ run' = Goto(f, "put_latest")
  /\ UNCHANGED <<log, threads, applied, latest, crashes, reader>>

(* Mutant: the epoch that begins is announced, not the one that ended. *)
PutLatestNew(f) ==
  /\ run[f].pc = "put_latest"
  /\ latest' = [latest EXCEPT ![f] = Cur(f).epoch]
  /\ run' = [run EXCEPT ![f].pc = "dispatch", ![f].epoch = Cur(f).epoch]
  /\ UNCHANGED <<log, threads, applied, blobs, crashes, reader>>

(* ...then the latest-epoch key. *)
PutLatest(f) ==
  /\ run[f].pc = "put_latest"
  /\ latest' = [latest EXCEPT ![f] = run[f].epoch]
  /\ run' = [run EXCEPT ![f].pc = "dispatch", ![f].epoch = Cur(f).epoch]
  /\ UNCHANGED <<log, threads, applied, blobs, crashes, reader>>

(* bulkload_end only moves the epoch. *)
BulkLoadEnd(f) ==
  /\ run[f].pc = "dispatch" /\ Cur(f).op = "bulkload_end"
  /\ run' = Done(f, run[f])
  /\ UNCHANGED <<log, threads, applied, etcd, crashes, reader>>

(* Without threads the consuming thread runs the operation. *)
ApplyHere(f) ==
  /\ NumThreads = 0
  /\ run[f].pc = "dispatch" /\ Cur(f).op # "bulkload_end"
  /\ applied' = [applied EXCEPT ![f] = @ \cup {run[f].pos + 1}]
  /\ run' = Done(f, run[f])
  /\ UNCHANGED <<log, threads, etcd, crashes, reader>>

(* Adds run in parallel with each other, deletes and updates with nothing. *)
Dispatch(f) ==
  /\ NumThreads > 0
  /\ run[f].pc = "dispatch" /\ Cur(f).op # "bulkload_end"
  /\ run' = CASE Cur(f).op = "add" /\ run[f].parallel -> Goto(f, "push")
              [] Cur(f).op = "add" /\ ~run[f].parallel -> Barrier(f, "push")
              [] OTHER -> [Barrier(f, "push") EXCEPT ![f].parallel = FALSE]
  /\ UNCHANGED <<log, threads, applied, etcd, crashes, reader>>

Push(f) ==
  /\ run[f].pc = "push"
  /\ queue' = [queue EXCEPT ![f] = Append(@, run[f].pos + 1)]
  /\ run' = Done(f, [run[f] EXCEPT !.parallel = @ \/ Cur(f).op = "add"])
  /\ UNCHANGED <<log, working, thr, applied, etcd, crashes, reader>>

(* The writer dies with all it holds in memory; etcd and Kafka keep theirs. *)
Crash(f) ==
  /\ crashes < MaxCrashes
  /\ run[f].pc # "down"
  /\ crashes' = crashes + 1
  /\ run' = [run EXCEPT ![f] = Down]
  /\ queue' = [queue EXCEPT ![f] = << >>]
  /\ working' = [working EXCEPT ![f] = [t \in Threads |-> TRUE]]
  /\ thr' = [thr EXCEPT ![f] = [t \in Threads |-> IdleThread]]
  /\ applied' = [applied EXCEPT ![f] = {}]
  /\ UNCHANGED <<log, etcd, reader>>

-----------------------------------------------------------------------------
(* process_log_thread.  The bits of is_working_ are packed into one word:   *)
(* to set one is to load the word and to store it, and the mutex of the     *)
(* thread does not keep the other threads from doing the same between.      *)

SetThread(f, t, x) == thr' = [thr EXCEPT ![f][t] = x]

(* Mutant: the log stays in the queue. *)
PopKeep(f, t) ==
  /\ thr[f][t].pc = "pop"
  /\ queue[f] # << >>
  /\ SetThread(f, t, [thr[f][t] EXCEPT !.pc = "popped", !.cur = Head(queue[f])])
  /\ UNCHANGED <<log, run, queue, working, applied, etcd, crashes, reader>>

Pop(f, t) ==
  /\ run[f].pc # "down"
  /\ thr[f][t].pc = "pop"
  /\ queue[f] # << >>
  /\ SetThread(f, t, [thr[f][t] EXCEPT !.pc = "popped", !.cur = Head(queue[f])])
  /\ queue' = [queue EXCEPT ![f] = Tail(@)]
  /\ UNCHANGED <<log, run, working, applied, etcd, crashes, reader>>

(* Mutant: a thread that never had a log does not clear its bit. *)
ClearAfterWork(f, t) ==
  /\ thr[f][t].pc = "pop"
  /\ queue[f] = << >>
  /\ applied[f] # {}
  /\ working[f][t]
  /\ SetThread(f, t, [thr[f][t] EXCEPT !.pc = "clear", !.word = working[f]])
  /\ UNCHANGED <<log, run, queue, working, applied, etcd, crashes, reader>>

(* No log to take: the thread's bit is cleared unless it is clear already. *)
LoadToClear(f, t) ==
  /\ run[f].pc # "down"
  /\ thr[f][t].pc = "pop"
  /\ queue[f] = << >>
  /\ working[f][t]
  /\ SetThread(f, t, [thr[f][t] EXCEPT !.pc = "clear", !.word = working[f]])
  /\ UNCHANGED <<log, run, queue, working, applied, etcd, crashes, reader>>

LoadToSet(f, t) ==
  /\ thr[f][t].pc = "popped"
  /\ SetThread(f, t, IF working[f][t] THEN [thr[f][t] EXCEPT !.pc = "apply"]
                     ELSE [thr[f][t] EXCEPT !.pc = "set", !.word = working[f]])
  /\ UNCHANGED <<log, run, queue, working, applied, etcd, crashes, reader>>

StoreWord(f, t) ==
  /\ thr[f][t].pc \in {"clear", "set"}
  /\ working' = [working EXCEPT ![f] =
                   [thr[f][t].word EXCEPT ![t] = (thr[f][t].pc = "set")]]
  /\ SetThread(f, t, [thr[f][t] EXCEPT !.word = [u \in Threads |-> TRUE],
                        !.pc = IF @ = "set" THEN "apply" ELSE "pop"])
  /\ UNCHANGED <<log, run, queue, applied, etcd, crashes, reader>>

ApplyInThread(f, t) ==
  /\ thr[f][t].pc = "apply"
  /\ applied' = [applied EXCEPT ![f] = @ \cup {thr[f][t].cur}]
  /\ SetThread(f, t, [thr[f][t] EXCEPT !.pc = "pop", !.cur = 0])
  /\ UNCHANGED <<log, run, queue, working, etcd, crashes, reader>>

-----------------------------------------------------------------------------
(* A reader: get_latest_epoch asks every fragment's key in turn and takes   *)
(* the least answer; then each worker gets the blob of its own fragment.    *)

SetReader(r, x) ==
  /\ reader' = [reader EXCEPT ![r] = x]
  /\ UNCHANGED <<log, run, threads, applied, etcd, crashes>>

ReadLatest(r) ==
  LET n == Len(reader[r].vals) + 1 IN
  /\ reader[r].pc = "latest" /\ n \in Frags
  /\ latest[n] # NoKey
  /\ SetReader(r, [reader[r] EXCEPT !.vals = Append(@, latest[n])])

ChooseEpoch(r) ==
  LET least == Min({UINT64_MAX} \cup {reader[r].vals[f] : f \in Frags}) IN
  /\ reader[r].pc = "latest" /\ Len(reader[r].vals) = NumFrags
  /\ SetReader(r, IF least = UINT64_MAX THEN IdleReader   \* "No valid epoch"
                  ELSE [reader[r] EXCEPT !.pc = "blobs", !.epoch = least,
                          !.found = [f \in Frags |-> "not read"]])

ReadBlob(r, f) ==
  /\ reader[r].pc = "blobs" /\ reader[r].found[f] = "not read"
  /\ SetReader(r, [reader[r] EXCEPT !.found[f] =
       IF reader[r].epoch \in DOMAIN blobs[f] THEN "blob" ELSE "missing"])

EndRead(r) ==
  /\ reader[r].pc = "blobs"
  /\ \A f \in Frags : reader[r].found[f] # "not read"
  /\ SetReader(r, IdleReader)

-----------------------------------------------------------------------------
ConsumerStep(f) ==
  \/ Start(f) \/ Consume(f) \/ WaitEmpty(f) \/ WaitIdle(f)
  \/ UpdateBlob(f) \/ PutBlob(f) \/ PutLatest(f)
  \/ BulkLoadEnd(f) \/ ApplyHere(f) \/ Dispatch(f) \/ Push(f)

ThreadStep(f, t) ==
  \/ Pop(f, t) \/ LoadToClear(f, t) \/ LoadToSet(f, t)
  \/ StoreWord(f, t) \/ ApplyInThread(f, t)

ReaderStep(r) ==
  \/ ReadLatest(r) \/ ChooseEpoch(r) \/ EndRead(r)
  \/ \E f \in Frags : ReadBlob(r, f)

Next ==
  \/ \E op \in LogOps, e \in 0 .. MaxEpoch : Emit(op, e)
  \/ \E f \in Frags : \/ ConsumerStep(f) \/ Crash(f)
                      \/ \E t \in Threads : ThreadStep(f, t)
  \/ \E r \in Readers : ReaderStep(r)

Spec == Init /\ [][Next]_vars

(* A writer process and its threads keep running, and a dead one is started *)
(* again.  The database may stop changing; readers may stop reading.        *)
FairSpec ==
  /\ Spec
  /\ \A f \in Frags : WF_vars(ConsumerStep(f))
  /\ \A f \in Frags : \A t \in Threads : WF_vars(ThreadStep(f, t))

-----------------------------------------------------------------------------
(* Types: positions are inside the log, the queue holds consumed logs, and  *)
(* a fragment's keys name epochs.                                           *)
Epochs == 0 .. MaxEpoch

RunType == [pc : {"down", "consume", "barrier", "publish", "put_blob",
                  "put_latest", "dispatch", "push"},
            pos : Nat, epoch : Epochs, parallel : BOOLEAN,
            idx : Nat, then : {"publish", "push"}, snap : SUBSET Nat]

ThreadType == [pc : {"pop", "popped", "clear", "set", "apply"}, cur : Nat,
               word : [Threads -> BOOLEAN]]

Answers == Epochs \cup {UINT64_MAX}

Found == [Frags -> {"not read", "blob", "missing"}]

ReaderType == [pc : {"latest", "blobs"}, vals : Seq(Answers), epoch : Epochs,
               found : Found \cup {<< >>}]

Types ==
  /\ log \in Seq([op : LogOps, epoch : Epochs])
  /\ run \in [Frags -> RunType]
  /\ queue \in [Frags -> Seq(Nat)]
  /\ working \in [Frags -> [Threads -> BOOLEAN]]
  /\ thr \in [Frags -> [Threads -> ThreadType]]
  /\ applied \in [Frags -> SUBSET Nat]
  /\ DOMAIN blobs = Frags /\ \A f \in Frags : DOMAIN blobs[f] \subseteq Epochs
  /\ latest \in [Frags -> Answers \cup {NoKey}]
  /\ reader \in [Readers -> ReaderType]
  /\ \A r \in Readers : reader[r].pc = "blobs" => reader[r].found \in Found

Positions(f) ==
  /\ run[f].pos <= Len(log) /\ run[f].idx <= NumThreads
  /\ run[f].pc = "barrier" => NumThreads > 0
  /\ run[f].pc \in {"consume", "down"} \/ run[f].pos < Len(log)
  /\ Range(queue[f]) \subseteq 1 .. run[f].pos
  /\ applied[f] \subseteq 1 .. run[f].pos
  /\ \A t \in Threads : /\ thr[f][t].cur <= run[f].pos
                        /\ thr[f][t].cur = 0 <=> thr[f][t].pc \in {"pop", "clear"}

TypeOK == Types /\ \A f \in Frags : Positions(f)

Ops(n) == {i \in 1 .. n : log[i].op # "bulkload_end"}

(* The logs of epochs up to e. *)
Cut(e) == {i \in Ops(Len(log)) : log[i].epoch <= e}

(* What is published for an epoch, by this writer process or by one that    *)
(* crashed, is exactly the logs of that epoch and of the ones before        *)
(* (apply_log_to_store_ publishes before it applies the first later log).   *)
PublishedCut ==
  \A f \in Frags : \A e \in DOMAIN blobs[f] : blobs[f][e] = Cut(e)

(* A reader for which every fragment had published some epoch finds the     *)
(* blob of the epoch it chose in every fragment, although it reads the keys *)
(* one by one while writers publish, crash and start again.                 *)
ReaderFindsBlobs ==
  \A r \in Readers :
    reader[r].pc = "blobs" /\ UINT64_MAX \notin Range(reader[r].vals)
      => \A f \in Frags : reader[r].found[f] # "missing"

(* get_latest_epoch's answer is an epoch all fragments have published:      *)
(* assert(response.is_ok()) after each worker asks for its blob.            *)
BlobPresent ==
  \A r \in Readers : reader[r].pc = "blobs" =>
    \A f \in Frags : reader[r].found[f] # "missing"

(* The epoch before the last log's one. *)
Target == {e \in 0 .. MaxEpoch : /\ e < LastEpoch
                                 /\ e = 0 \/ \E i \in DOMAIN log : log[i].epoch = e}

(* Once the log stops growing, every fragment, started again after crashes  *)
(* as it may be, ends up announcing the last epoch that is complete.        *)
CatchesUp ==
  <>[](Target # {} => \A f \in Frags : latest[f] = Max(Target))

(* Every log is applied in the end: the barrier never waits for ever and    *)
(* the threads lose nothing, for all that their writes of the packed bits   *)
(* undo each other.                                                         *)
AllApplied == <>[](\A f \in Frags : applied[f] = Ops(Len(log)))

Held(f) == {thr[f][t].cur : t \in Threads} \ {0}

(* A log is in one place: queued once, held by one thread, or applied; when *)
(* the barrier lets the consuming thread go on, none is left in the queue.  *)
LogsAccounted ==
  \A f \in Frags :
    /\ applied[f] \cup Held(f) \cup Range(queue[f]) = Ops(run[f].pos)
    /\ Cardinality(applied[f]) + Cardinality({t \in Threads : thr[f][t].cur # 0})
         + Len(queue[f]) = Cardinality(Ops(run[f].pos))
    /\ run[f].pc = "publish" => queue[f] = << >>

(* When the barrier lets the consuming thread publish, every log of the     *)
(* epoch has been applied.                                                  *)
BarrierWaits ==
  \A f \in Frags : run[f].pc = "publish" => applied[f] = Ops(run[f].pos)
=============================================================================
