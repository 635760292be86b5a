------------------------------ MODULE Converter -----------------------------
(***************************************************************************)
(* The converter: binlog messages are dealt round-robin to parser threads  *)
(* (process_binlog_step_1) over bounded queues, collected in the same      *)
(* order by one thread (process_binlog_step_2) that numbers vertices and   *)
(* epochs, and appended to the unified log.  After a crash the binlog is   *)
(* read again from its beginning, and nothing is written until the offset  *)
(* of the last unified log is reached.                                     *)
(*                                                                         *)
(* A binlog message is abstracted to the complete entries it yields, its   *)
(* transaction and whether it is the last one of the initial snapshot; an  *)
(* entry to its operation and the external ids of its vertex or of its two *)
(* ends.  An insert of a vertex takes the next global id; "edge" is any    *)
(* entry of an edge.  Vertices have one label.                             *)
(***************************************************************************)
EXTENDS Integers, Sequences, FiniteSets, FiniteSetsExt, SequencesExt

CONSTANTS
  NumThreads,      \* parser threads are 0 .. NumThreads - 1
  Capacity,        \* max_queue_size
  UseLogsPerEpoch, \* are epochs counted in logs, or in seconds?
  LogsPerEpoch,
  SubgraphNum,     \* fragments vertices are dealt to
  EnableBulkLoad,
  TxIds,           \* do messages carry a transaction id (tx_id # -1)?
  Oids,            \* external ids of vertices
  Messages,        \* what the captured tables produce, see BinlogAppend
  MaxMessages,     \* bound: length of the binlog
  MaxTimeouts,     \* bound: consume calls that time out
  MaxCrashes       \* bound: crashes of the converter

Threads == 0 .. NumThreads - 1

Entry == [op : {"insert", "update", "delete"}, ids : [1 .. 1 -> Oids]]
           \cup [op : {"edge"}, ids : [1 .. 2 -> Oids]]

ASSUME ConverterAssumption ==
  /\ NumThreads \in Nat \ {0} /\ Capacity \in Nat \ {0}
  /\ LogsPerEpoch \in Nat \ {0} /\ SubgraphNum \in Nat \ {0}
  /\ {UseLogsPerEpoch, EnableBulkLoad, TxIds} \subseteq BOOLEAN
  /\ Messages \subseteq [ents : Seq(Entry), newtx : BOOLEAN, last : BOOLEAN]
  /\ \A m \in Messages : Len(m.ents) <= Capacity
  /\ {MaxMessages, MaxTimeouts, MaxCrashes} \subseteq Nat

VARIABLES
  binlog,     \* messages in Kafka, with their transaction
  unified,    \* the unified log in Kafka
  buffer,     \* logs in the producer's buffer, not delivered yet
  main,       \* the main thread: next message, thread it goes to
  binlogQ, entryQ, countQ,   \* binlog_queues, unified_log_queues, unified_log_counts
  step1,      \* per parser thread, entries not pushed yet and their count
  timeouts,   \* consume calls that timed out
  step2,      \* the locals of process_binlog_step_2 and the parser's numbering
  crashes

vars == <<binlog, unified, buffer, main, binlogQ, entryQ, countQ, step1, timeouts, step2, crashes>>

queues == <<binlogQ, entryQ, countQ>>

NO_MESSAGE == 0

InitStep2(last) ==
  [idx |-> 0, left |-> 0, msg |-> 0, log_count |-> 0, epoch |-> 0, last_tx_id |-> -1,
   last_log_count |-> 0, bulk_load_finished |-> FALSE, processed_count |-> 0,
   last_processed_offset |-> last, catch_up_mode |-> TRUE,
   oid2gid |-> << >>, vertex_nums |-> 0,
   vertex_nums_per_fragment |-> [f \in 0 .. SubgraphNum - 1 |-> 0]]

IdleStep1 == [pc |-> "pop", msg |-> 0, todo |-> 0, count |-> 0]

Init ==
  /\ binlog = << >> /\ unified = << >> /\ buffer = << >>
  /\ main = [next |-> 1, idx |-> 0]
  /\ binlogQ = [t \in Threads |-> << >>]
  /\ entryQ = [t \in Threads |-> << >>]
  /\ countQ = [t \in Threads |-> << >>]
  /\ step1 = [t \in Threads |-> IdleStep1]
  /\ step2 = InitStep2(0)
  /\ timeouts = 0 /\ crashes = 0

-----------------------------------------------------------------------------
(* The database: a message belongs to the transaction of the one before it  *)
(* or to a new one; the initial snapshot is one transaction, with an end.   *)
(* Its keys keep out a second row with a primary key that is in use and     *)
(* rows that refer to a vertex that is not there.                           *)

LastTx == IF binlog = << >> THEN 0 ELSE Last(binlog).tx

(* Vertices that are in the tables after the messages so far: of the last  *)
(* message that inserts or deletes one, the first entry says which.         *)
Live(o) ==
  LET about == {i \in DOMAIN binlog :
                  /\ binlog[i].ents # << >>
                  /\ binlog[i].ents[1].op \in {"insert", "delete"}
                  /\ binlog[i].ents[1].ids[1] = o}
  IN  about # {} /\ binlog[Max(about)].ents[1].op = "insert"

KeysHold(m) ==
  \A k \in DOMAIN m.ents :
    IF m.ents[k].op = "insert" THEN ~Live(m.ents[k].ids[1])
    ELSE \A j \in DOMAIN m.ents[k].ids : Live(m.ents[k].ids[j])

BinlogAppend(m) ==
  /\ Len(binlog) < MaxMessages
  /\ KeysHold(m)
  /\ m.last => ~m.newtx /\ \A i \in DOMAIN binlog : binlog[i].tx = 0 /\ ~binlog[i].last
  /\ (binlog # << >> /\ Last(binlog).last) => m.newtx
  /\ binlog' = Append(binlog, [ents |-> m.ents, last |-> m.last,
                               tx |-> LastTx + (IF m.newtx THEN 1 ELSE 0)])
  /\ UNCHANGED <<unified, buffer, main, queues, step1, timeouts, step2, crashes>>

-----------------------------------------------------------------------------
(* The main thread *)

NextThread(t) == IF t = NumThreads - 1 THEN 0 ELSE t + 1

(* The queue takes the message when it has room. *)
Deal(m) ==
  /\ Len(binlogQ[main.idx]) < Capacity
  /\ binlogQ' = [binlogQ EXCEPT ![main.idx] = Append(@, m)]
  /\ UNCHANGED <<binlog, unified, buffer, entryQ, countQ, step1, step2, crashes>>

DealMessage ==
  /\ main.next <= Len(binlog)
  /\ Deal(main.next)
  /\ main' = [next |-> main.next + 1, idx |-> NextThread(main.idx)]
  /\ UNCHANGED timeouts

(* Mutant: a timeout does not use up the thread's turn. *)
TimeoutSameThread ==
  /\ main.next > Len(binlog)
  /\ timeouts < MaxTimeouts /\ timeouts' = timeouts + 1
  /\ Deal(NO_MESSAGE)
  /\ UNCHANGED main

(* No message within the timeout: the thread whose turn it is hears of it,  *)
(* so that step 2 does not wait for it.                                     *)
DealTimeout ==
  /\ main.next > Len(binlog)
  /\ timeouts < MaxTimeouts /\ timeouts' = timeouts + 1
  /\ Deal(NO_MESSAGE)
  /\ main' = [main EXCEPT !.idx = NextThread(@)]

-----------------------------------------------------------------------------
(* A parser thread: all complete entries of a message, then their number *)

TakeMessage(t) ==
  /\ step1[t].pc = "pop" /\ binlogQ[t] # << >>
  /\ LET m == Head(binlogQ[t])
         n == IF m = NO_MESSAGE THEN 0 ELSE Len(binlog[m].ents)
     IN  step1' = [step1 EXCEPT ![t] =
                     [pc |-> "push", msg |-> m, todo |-> n, count |-> n]]
  /\ binlogQ' = [binlogQ EXCEPT ![t] = Tail(@)]
  /\ UNCHANGED <<binlog, unified, buffer, main, entryQ, countQ, timeouts, step2, crashes>>

PushEntry(t) ==
  /\ step1[t].pc = "push" /\ step1[t].todo > 0
  /\ Len(entryQ[t]) < Capacity
  /\ LET s == step1[t] IN
     entryQ' = [entryQ EXCEPT ![t] =
                  Append(@, [msg |-> s.msg, part |-> s.count - s.todo + 1])]
  /\ step1' = [step1 EXCEPT ![t] = [step1[t] EXCEPT !.todo = step1[t].todo - 1]]
  /\ UNCHANGED <<binlog, unified, buffer, main, binlogQ, countQ, timeouts, step2, crashes>>

PushCount(t) ==
  /\ step1[t].pc = "push" /\ step1[t].todo = 0
  /\ Len(countQ[t]) < Capacity
  /\ countQ' = [countQ EXCEPT ![t] = Append(@, step1[t].count)]
  /\ step1' = [step1 EXCEPT ![t] = IdleStep1]
  /\ UNCHANGED <<binlog, unified, buffer, main, binlogQ, entryQ, timeouts, step2, crashes>>

-----------------------------------------------------------------------------
(* The collecting thread *)

SetGid(map, oid, gid) ==
  [o \in DOMAIN map \cup {oid} |-> IF o = oid THEN gid ELSE map[o]]

(* One more vertex, in fragment fid. *)
Counts(s, fid, map) ==
  [s EXCEPT !.vertex_nums = s.vertex_nums + 1,
     !.vertex_nums_per_fragment =
       [s.vertex_nums_per_fragment EXCEPT ![fid] = s.vertex_nums_per_fragment[fid] + 1],
     !.oid2gid = map]

(* Mutant: the fragments' vertices share one counter. *)
GenerateGidShared(s, oid) ==
  LET fid == s.vertex_nums % SubgraphNum
      gid == [fid |-> fid, offset |-> s.vertex_nums]
  IN  [gids |-> <<gid>>,
       next |-> Counts(s, fid, SetGid(s.oid2gid, oid, gid))]

(* Mutant: an external id keeps its first global id. *)
GenerateGidFirst(s, oid) ==
  LET fid == s.vertex_nums % SubgraphNum
      gid == [fid |-> fid, offset |-> s.vertex_nums_per_fragment[fid]]
  IN  [gids |-> <<gid>>,
       next |-> Counts(s, fid, IF oid \in DOMAIN s.oid2gid THEN s.oid2gid
                               ELSE SetGid(s.oid2gid, oid, gid))]

(* A new vertex: fragments take turns, each counts its own vertices.  The   *)
(* map keeps the newest id of an external id, also after a delete.          *)
GenerateGid(s, oid) ==
  LET fid == s.vertex_nums % SubgraphNum
      gid == [fid |-> fid, offset |-> s.vertex_nums_per_fragment[fid]]
  IN  [gids |-> <<gid>>,
       next |-> Counts(s, fid, SetGid(s.oid2gid, oid, gid))]

NoGid == [fid |-> 0, offset |-> -1]

GetGid(s, oid) == IF oid \in DOMAIN s.oid2gid THEN s.oid2gid[oid] ELSE NoGid

(* An entry whose ids are not found is written all the same. *)
ParseAgain(s, e) ==
  IF e.op = "insert" THEN GenerateGid(s, e.ids[1])
  ELSE [gids |-> [k \in DOMAIN e.ids |-> GetGid(s, e.ids[k])], next |-> s]

(* Mutant: the offset itself is written once more. *)
CatchUpLate(s) == s.catch_up_mode /\ s.processed_count + 1 < s.last_processed_offset

(* catch_up_mode after its check: still before the first new log? *)
CatchUp(s) == s.catch_up_mode /\ s.processed_count < s.last_processed_offset

(* One more log, numbered and, when past the last run's, produced. *)
Produce(s, entry) ==
  buffer' = IF CatchUp(s) THEN buffer
            ELSE Append(buffer, [entry EXCEPT !.offset = s.processed_count + 1])

Counted(s) == [s EXCEPT !.catch_up_mode = CatchUp(s), !.processed_count = @ + 1]

TakeCount ==
  LET t == step2.idx IN
  /\ step2.left = 0 /\ step2.msg = 0 /\ countQ[t] # << >>
  /\ countQ' = [countQ EXCEPT ![t] = Tail(@)]
  /\ step2' = IF Head(countQ[t]) = 0 THEN [step2 EXCEPT !.idx = NextThread(t)]
              ELSE [step2 EXCEPT !.left = Head(countQ[t]), !.log_count = @ + 1]
  /\ UNCHANGED <<binlog, unified, buffer, main, binlogQ, entryQ, step1, timeouts, crashes>>

(* parse_again numbers the entry; it is written with the current epoch. *)
TakeEntry ==
  LET t == step2.idx
      e == Head(entryQ[t])
      s == [Counted(step2) EXCEPT !.left = @ - 1, !.msg = e.msg]
      numbered == ParseAgain(s, binlog[e.msg].ents[e.part])
  IN
  /\ step2.left > 0 /\ entryQ[t] # << >>
  /\ entryQ' = [entryQ EXCEPT ![t] = Tail(@)]
  /\ Produce(step2, [msg |-> e.msg, part |-> e.part, epoch |-> step2.epoch, offset |-> 0,
                     gids |-> numbered.gids])
  /\ step2' = numbered.next
  /\ UNCHANGED <<binlog, unified, main, binlogQ, countQ, step1, timeouts, crashes>>

(* Mutant: the epoch may change inside a transaction. *)
EpochAnywhere(s, tx, elapsed) ==
  IF (EnableBulkLoad /\ ~s.bulk_load_finished) \/ s.log_count - s.last_log_count < LogsPerEpoch
  THEN s
  ELSE [s EXCEPT !.last_tx_id = tx, !.epoch = @ + 1, !.last_log_count = s.log_count]

(* The epoch after a message; elapsed is what the clock says when epochs    *)
(* are counted in seconds.  With transaction ids it may change only when    *)
(* the message's transaction is not the one of the message before.          *)
EpochAfter(s, tx, elapsed) ==
  LET due == IF UseLogsPerEpoch THEN s.log_count - s.last_log_count >= LogsPerEpoch
             ELSE elapsed
      counted == IF UseLogsPerEpoch THEN s.log_count \div LogsPerEpoch
                 ELSE IF elapsed THEN s.epoch + 1 ELSE s.epoch
  IN
  IF      EnableBulkLoad /\ ~s.bulk_load_finished THEN s
  ELSE IF ~TxIds               THEN [s EXCEPT !.epoch = counted]
  ELSE IF tx = s.last_tx_id    THEN s
  ELSE IF ~due                 THEN [s EXCEPT !.last_tx_id = tx]
  ELSE [s EXCEPT !.last_tx_id = tx, !.epoch = @ + 1,
          !.last_log_count = IF UseLogsPerEpoch THEN s.log_count ELSE @]

(* Mutant: the epoch is not set. *)
EpochKept(s, tx) ==
  [Counted(s) EXCEPT !.bulk_load_finished = TRUE, !.last_tx_id = tx,
     !.last_log_count = s.log_count]

(* The last record of the initial snapshot starts epoch 1. *)
BulkLoadFinished(s, tx) ==
  [Counted(s) EXCEPT !.bulk_load_finished = TRUE, !.last_tx_id = tx,
     !.last_log_count = s.log_count, !.epoch = 1]

(* All entries of a message are written: the epoch, then the next thread. *)
EndMessage(elapsed) ==
  LET m == binlog[step2.msg]
      s == EpochAfter(step2, m.tx, elapsed)
      end == IF m.last THEN BulkLoadFinished(s, m.tx) ELSE s
  IN
  /\ step2.left = 0 /\ step2.msg # 0
  /\ IF m.last
     THEN Produce(s, [msg |-> step2.msg, part |-> 0, epoch |-> 1, offset |-> 0, gids |-> << >>])
     ELSE UNCHANGED buffer
  /\ step2' = [end EXCEPT !.msg = 0, !.idx = NextThread(@)]
  /\ UNCHANGED <<binlog, unified, main, queues, step1, timeouts, crashes>>

-----------------------------------------------------------------------------
(* Kafka takes the buffered logs in order. *)
Deliver ==
  /\ buffer # << >>
  /\ unified' = Append(unified, Head(buffer))
  /\ buffer' = Tail(buffer)
  /\ UNCHANGED <<binlog, main, queues, step1, timeouts, step2, crashes>>

(* The process dies and starts again: main reads the last unified log. *)
CrashRestart ==
  /\ crashes < MaxCrashes
  /\ crashes' = crashes + 1
  /\ buffer' = << >>
  /\ main' = [next |-> 1, idx |-> 0]
  /\ binlogQ' = [t \in Threads |-> << >>]
  /\ entryQ' = [t \in Threads |-> << >>]
  /\ countQ' = [t \in Threads |-> << >>]
  /\ step1' = [t \in Threads |-> IdleStep1]
  /\ step2' = InitStep2(IF unified = << >> THEN 0 ELSE Last(unified).offset)
  /\ UNCHANGED <<binlog, unified, timeouts>>

(* Without a clock there is one outcome. *)
Clock == IF UseLogsPerEpoch THEN {FALSE} ELSE BOOLEAN

Next ==
  \/ \E m \in Messages : BinlogAppend(m)
  \/ DealMessage \/ DealTimeout
  \/ \E t \in Threads : TakeMessage(t) \/ PushEntry(t) \/ PushCount(t)
  \/ TakeCount \/ TakeEntry
  \/ \E elapsed \in Clock : EndMessage(elapsed)
  \/ Deliver \/ CrashRestart

Spec == Init /\ [][Next]_vars

(* Every thread keeps running and Kafka delivers.  The database may stop    *)
(* changing: then consume calls time out, until their bound is reached.     *)
FairSpec ==
  /\ Spec
  /\ WF_vars(DealMessage \/ DealTimeout)
  /\ \A t \in Threads : WF_vars(TakeMessage(t) \/ PushEntry(t) \/ PushCount(t))
  /\ WF_vars(TakeCount \/ TakeEntry \/ \E elapsed \in Clock : EndMessage(elapsed))
  /\ WF_vars(Deliver)

-----------------------------------------------------------------------------
(* Types: queues within their capacity, counters natural. *)
TypeOK ==
  /\ \A t \in Threads :
       /\ binlogQ[t] \in Seq(0 .. Len(binlog)) /\ Len(binlogQ[t]) <= Capacity
       /\ Len(entryQ[t]) <= Capacity /\ Len(countQ[t]) <= Capacity
       /\ step1[t].todo \in 0 .. step1[t].count
  /\ main.next \in 1 .. Len(binlog) + 1 /\ main.idx \in Threads
  /\ step2.idx \in Threads /\ step2.left \in 0 .. Capacity
  /\ step2.log_count \in 0 .. Len(binlog) /\ step2.epoch \in 0 .. Len(binlog)

(* What one thread converting the binlog once would write, without epochs. *)
EntriesOf(m) ==
  [k \in 1 .. Len(binlog[m].ents) |-> <<m, k>>]
    \o (IF binlog[m].last /\ binlog[m].ents # << >> THEN << <<m, 0>> >> ELSE << >>)

Sequential == FlattenSeq([m \in 1 .. Len(binlog) |-> EntriesOf(m)])

Written == unified \o buffer

(* Every entry of the binlog is written exactly once and in binlog order,   *)
(* whatever the parser threads, the timeouts and the restarts do, and the   *)
(* logs carry consecutive offsets.                                          *)
InOrderOnce ==
  /\ Len(Written) <= Len(Sequential)
  /\ \A i \in DOMAIN Written :
       /\ <<Written[i].msg, Written[i].part>> = Sequential[i]
       /\ Written[i].offset = i

IsOp(u) == u.part > 0

EntryOf(u) == binlog[u.msg].ents[u.part]

IsInsert(u) == IsOp(u) /\ EntryOf(u).op = "insert"

(* Global ids are handed out once: inserts before and after a restart never *)
(* share one, and every fragment's offsets are consecutive from 0, as its   *)
(* writer expects of new vertices (insert_inner_vertex).                    *)
GidsDense ==
  LET inserts(n) == {j \in 1 .. n : IsInsert(Written[j])}
      gid(i) == Written[i].gids[1]
  IN  \A i \in inserts(Len(Written)) :
        /\ \A j \in inserts(i - 1) : gid(i) # gid(j)
        /\ gid(i).offset = Cardinality({j \in inserts(i - 1) : gid(j).fid = gid(i).fid})

(* An update, a delete or an edge is written with the global ids of the     *)
(* vertices its row referred to, those of the newest inserts of their keys  *)
(* before it, whichever process wrote those: a restarted converter builds   *)
(* the same map again.                                                      *)
IdsResolve ==
  \A i \in DOMAIN Written :
    IsOp(Written[i]) /\ ~IsInsert(Written[i]) =>
      \A k \in DOMAIN EntryOf(Written[i]).ids :
        LET inserts == {j \in 1 .. i - 1 :
                          IsInsert(Written[j])
                            /\ EntryOf(Written[j]).ids[1] = EntryOf(Written[i]).ids[k]}
        IN  inserts # {} /\ Written[Max(inserts)].gids[1] = Written[i].gids[k]

(* Epochs in the unified log never decrease, across restarts too: writers   *)
(* take a larger epoch for the end of the one before and never look back.   *)
EpochsMonotone ==
  \A i, j \in DOMAIN Written : i <= j => Written[i].epoch <= Written[j].epoch

(* The logs of one transaction have one epoch, so that a snapshot never     *)
(* shows half a transaction.                                                *)
TransactionWhole ==
  \A i, j \in DOMAIN Written :
    binlog[Written[i].msg].tx = binlog[Written[j].msg].tx
      => Written[i].epoch = Written[j].epoch

(* The first message of a transaction that yields entries. *)
FirstOfTx(m) ==
  \A n \in 1 .. m - 1 : binlog[n].tx = binlog[m].tx => binlog[n].ents = << >>

(* What is left of that, restarts included: a transaction after the initial *)
(* snapshot is cut at most once, behind its first message, between an epoch *)
(* and the next one.                                                        *)
TransactionCut ==
  \A i, j \in DOMAIN Written :
    LET m == Written[i].msg IN
    i < j /\ binlog[m].tx > 0 /\ binlog[m].tx = binlog[Written[j].msg].tx
      => \/ Written[j].epoch = Written[i].epoch
         \/ Written[j].epoch = Written[i].epoch + 1 /\ FirstOfTx(m)

(* Everything in the binlog is delivered in the end: no thread waits for    *)
(* ever on another one's queue.                                             *)
AllConverted == <>[](Len(unified) = Len(Sequential))
=============================================================================
