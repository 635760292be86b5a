----------------------------- MODULE Controller -----------------------------
(***************************************************************************)
(* The controller's HTTP handlers that choose epochs, on top of the        *)
(* writers, the etcd keys and the readers of Runner: change_read_epoch,    *)
(* which moves the interactive engine's executors to another epoch,        *)
(* get_all_available_read_epochs, and run_gae_task, which runs one         *)
(* analytical job (a reader of Runner) and waits for it.  A handler thread *)
(* works on one request at a time and reads the keys one by one while the  *)
(* writers publish, crash and start again.                                 *)
(*                                                                         *)
(* An executor is the handler start_gie_executor in its pod: it keeps the  *)
(* epoch it was last told and starts the engine once.                      *)
(***************************************************************************)
EXTENDS Runner

CONSTANTS
  Handlers,     \* threads of the controller's web server; each may start the
                \* reader of its own name
  None,         \* no previous_read_epoch; no epoch told yet
  MaxFaults     \* bound: etcd reads that raise an exception, failed curls

ASSUME ControllerAssumption ==
  /\ Handlers \subseteq Readers
  /\ MaxFaults \in Nat
  /\ None \notin 0 .. MaxEpoch

VARIABLES
  req,        \* per handler thread, the request it works on
  previous,   \* previous_read_epoch
  executor,   \* per fragment, the content of /tmp/read_epoch; None: not running
  missed,     \* fragments whose executor the last curl did not reach
  faults

ctl     == <<req, previous, executor, missed, faults>>
telling == <<executor, missed>>
allVars == <<vars, ctl>>

NoRequest == [pc |-> "idle", kind |-> "change", epoch |-> 0, idx |-> 1,
              latest |-> UINT64_MAX, all |-> TRUE, answer |-> ""]

CInit ==
  /\ Init
  /\ req = [h \in Handlers |-> NoRequest]
  /\ previous = None
  /\ executor = [f \in Frags |-> None]
  /\ missed = {}
  /\ faults = 0

-----------------------------------------------------------------------------
(* The writers go on.  The converter numbers epochs without gaps: with      *)
(* transaction ids it only ever adds one (EpochAfter of Converter).         *)
EmitNext(op, e) == e <= LastEpoch + 1 /\ Emit(op, e) /\ UNCHANGED ctl

WriterStep(f) == (ConsumerStep(f) \/ Crash(f)) /\ UNCHANGED ctl

-----------------------------------------------------------------------------
(* A request *)

SetReq(h, x) == req' = [req EXCEPT ![h] = x]

Begin(h, kind, e) ==
  /\ req[h].pc = "idle"
  /\ SetReq(h, [NoRequest EXCEPT !.pc = "latest", !.kind = kind, !.epoch = e])
  /\ UNCHANGED <<vars, previous, telling, faults>>

ChangeReadEpoch(h, e) == Begin(h, "change", e)

(* get_all_available_read_epochs, and get_read_epoch_by_timestamp, which    *)
(* makes the same list and looks one epoch up in it.                        *)
GetAvailableEpochs(h) == Begin(h, "list", 0)

RunGaeTask(h, e) == Begin(h, "gae", e)

(* get_latest_read_epoch: a fragment without a key, or whose key cannot be  *)
(* read, is passed over.  "all" remembers whether every fragment answered   *)
(* with an epoch it has published.                                          *)
AskLatest(h) ==
  LET q == req[h]
      got == latest[q.idx]
  IN
  /\ q.pc = "latest" /\ q.idx \in Frags
  /\ SetReq(h, [q EXCEPT !.idx = @ + 1, !.all = @ /\ got < UINT64_MAX,
                         !.latest = IF got < @ THEN got ELSE @])
  /\ UNCHANGED <<vars, previous, telling, faults>>

AskFails(h) ==
  /\ req[h].pc = "latest" /\ req[h].idx \in Frags
  /\ faults < MaxFaults
  /\ faults' = faults + 1
  /\ SetReq(h, [req[h] EXCEPT !.idx = @ + 1, !.all = FALSE])
  /\ UNCHANGED <<vars, previous, telling>>

Asked(h) == req[h].pc = "latest" /\ req[h].idx > NumFrags

Answered(q, what) == [q EXCEPT !.pc = "answered", !.answer = what]

(* Mutant: an epoch that is still being written is let through. *)
CheckedUpTo(q) ==
  IF      q.epoch > q.latest + 1  THEN Answered(q, "invalid")
  ELSE IF q.latest = UINT64_MAX   THEN Answered(q, "none")
  ELSE IF previous = q.epoch      THEN Answered(q, "changed")
  ELSE [q EXCEPT !.pc = "claim"]

(* change_read_epoch once it has the latest epoch. *)
Checked(q) ==
  IF      q.epoch > q.latest      THEN Answered(q, "invalid")
  ELSE IF q.latest = UINT64_MAX   THEN Answered(q, "none")
  ELSE IF previous = q.epoch      THEN Answered(q, "changed")
  ELSE [q EXCEPT !.pc = "claim"]

CheckEpoch(h) ==
  /\ Asked(h) /\ req[h].kind = "change"
  /\ SetReq(h, Checked(req[h]))
  /\ UNCHANGED <<vars, previous, telling, faults>>

(* Mutant: previous_read_epoch is left alone. *)
ForgetEpoch(h) ==
  /\ req[h].pc = "claim"
  /\ previous' = IF previous = None THEN req[h].epoch ELSE previous
  /\ SetReq(h, [req[h] EXCEPT !.pc = "launch", !.idx = 1])
  /\ UNCHANGED <<vars, telling, faults>>

(* The epoch counts as changed before any executor hears of it. *)
ClaimEpoch(h) ==
  /\ req[h].pc = "claim"
  /\ previous' = req[h].epoch
  /\ SetReq(h, [req[h] EXCEPT !.pc = "launch", !.idx = 1])
  /\ UNCHANGED <<vars, telling, faults>>

(* run_gae_task makes the same check of the version it is given, then runs  *)
(* run_gart_app, which is told the version and asks for the latest one.     *)
RunGae(h) ==
  /\ Asked(h) /\ req[h].kind = "gae"
  /\ SetReq(h, CASE req[h].epoch > req[h].latest   -> Answered(req[h], "invalid")
                 [] req[h].latest = UINT64_MAX    -> Answered(req[h], "none")
                 [] OTHER                         -> [req[h] EXCEPT !.pc = "gae"])
  /\ UNCHANGED <<vars, previous, telling, faults>>

(* The handler waits for the job; a missing key ends the job too. *)
GaeStep(h) ==
  /\ req[h].pc = "gae"
  /\ \/ ReaderStep(h)
     \/ /\ reader[h].pc = "latest" /\ \E f \in Frags : latest[f] = NoKey
        /\ SetReader(h, IdleReader)
  /\ req' = IF reader'[h] = IdleReader THEN [req EXCEPT ![h] = Answered(@, "gae")] ELSE req
  /\ UNCHANGED <<previous, telling, faults>>

(* Wait for the fragment's blob of the epoch, then tell its executor by     *)
(* curl, of which only the output is printed: the handler goes on to the    *)
(* next fragment whether or not the executor heard of the epoch.            *)
CanTell(h) ==
  /\ req[h].pc = "launch" /\ req[h].idx \in Frags
  /\ req[h].epoch \in DOMAIN blobs[req[h].idx]
  /\ SetReq(h, [req[h] EXCEPT !.idx = @ + 1])

LaunchExecutor(h) ==
  LET q == req[h] IN
  /\ CanTell(h)
  /\ executor' = [executor EXCEPT ![q.idx] = q.epoch]
  /\ missed' = missed \ {q.idx}
  /\ UNCHANGED <<vars, previous, faults>>

(* An executor that runs stays at the epoch it had, one that does not run   *)
(* is not started.                                                          *)
LaunchFails(h) ==
  /\ CanTell(h)
  /\ faults < MaxFaults
  /\ faults' = faults + 1
  /\ missed' = missed \cup {req[h].idx}
  /\ UNCHANGED <<vars, previous, executor>>

(* All executors' ports, and the frontend's, answer. *)
AwaitPorts(h) ==
  /\ req[h].pc = "launch" /\ req[h].idx > NumFrags
  /\ \A f \in Frags : executor[f] # None
  /\ SetReq(h, Answered(req[h], "changed"))
  /\ UNCHANGED <<vars, previous, telling, faults>>

(* get_all_available_read_epochs_internal walks the epochs from 0 to the    *)
(* latest, and for each the fragments; a missing blob raises an exception.  *)
(* Without an epoch it returns a list its caller cannot index.              *)
StartList(h) ==
  /\ Asked(h) /\ req[h].kind = "list"
  /\ SetReq(h, IF req[h].latest = UINT64_MAX THEN Answered(req[h], "error")
               ELSE [req[h] EXCEPT !.pc = "list", !.idx = 1])
  /\ UNCHANGED <<vars, previous, telling, faults>>

(* Mutant: the epoch after the latest one is listed too. *)
ListedOneMore(q) ==
  IF      q.idx < NumFrags     THEN [q EXCEPT !.idx = @ + 1]
  ELSE IF q.epoch <= q.latest  THEN [q EXCEPT !.idx = 1, !.epoch = @ + 1]
  ELSE Answered(q, "listed")

Listed(q) ==
  IF      q.idx < NumFrags     THEN [q EXCEPT !.idx = @ + 1]
  ELSE IF q.epoch < q.latest   THEN [q EXCEPT !.idx = 1, !.epoch = @ + 1]
  ELSE Answered(q, "listed")

ListBlob(h) ==
  LET q == req[h] IN
  /\ q.pc = "list"
  /\ SetReq(h, IF q.epoch \in DOMAIN blobs[q.idx] THEN Listed(q) ELSE Answered(q, "error"))
  /\ UNCHANGED <<vars, previous, telling, faults>>

Respond(h) ==
  /\ req[h].pc = "answered"
  /\ SetReq(h, NoRequest)
  /\ UNCHANGED <<vars, previous, telling, faults>>

-----------------------------------------------------------------------------
HandlerStep(h) ==
  \/ AskLatest(h) \/ CheckEpoch(h) \/ ClaimEpoch(h) \/ LaunchExecutor(h)
  \/ AwaitPorts(h) \/ StartList(h) \/ ListBlob(h) \/ RunGae(h) \/ GaeStep(h)
  \/ Respond(h)

CNext ==
  \/ \E op \in LogOps, e \in 0 .. MaxEpoch : EmitNext(op, e)
  \/ \E f \in Frags : WriterStep(f)
  \/ \E h \in Handlers : \/ HandlerStep(h) \/ AskFails(h) \/ LaunchFails(h)
                         \/ GetAvailableEpochs(h)
                         \/ \E e \in 0 .. MaxEpoch : ChangeReadEpoch(h, e) \/ RunGaeTask(h, e)

CSpec == CInit /\ [][CNext]_allVars

(* Handlers and writers keep running, dead writers are started again; no    *)
(* new request has to come, and the log need not grow.                      *)
CFairSpec ==
  /\ CSpec
  /\ \A f \in Frags : WF_allVars(ConsumerStep(f) /\ UNCHANGED ctl)
  /\ \A h \in Handlers : WF_allVars(HandlerStep(h))

-----------------------------------------------------------------------------
(* The handler waits for the port of an executor that no curl reached, and  *)
(* that nobody else starts: the loop over the ports has no way out.         *)
Stranded(h) ==
  /\ req[h].pc = "launch" /\ req[h].idx > NumFrags
  /\ \E f \in missed : executor[f] = None

(* Every request is answered, but for one that is stranded by a failed curl *)
(* to an executor that does not run: the loop that waits for a fragment's   *)
(* blob ends, although the latest epoch may come from other fragments only, *)
(* for an epoch one fragment has published all fragments publish; and a     *)
(* failed curl to an executor that runs stops nobody.                       *)
RequestAnswered ==
  \A h \in Handlers : req[h].pc # "idle" ~> req[h].pc = "answered" \/ Stranded(h)

Quiet == \A h \in Handlers : req[h].pc \in {"idle", "answered"}

(* Between requests the executors show one snapshot of the tables, the same *)
(* prefix of the log in every fragment, and it is that of the epoch the     *)
(* controller answered with: all executors but those that the last curl to  *)
(* them did not reach, after whatever requests and failures there were      *)
(* before.                                                                  *)
OneSnapshot ==
  Quiet /\ previous # None =>
    \A f \in Frags \ missed :
      /\ executor[f] \in DOMAIN blobs[f]
      /\ blobs[f][executor[f]] = Cut(previous)

(* "check if all gie executors are launched successfully": an answer that   *)
(* the epoch was changed means that all executors show it.                  *)
ChangedEverywhere ==
  \A h \in Handlers :
    req[h].answer = "changed" => \A f \in Frags : executor[f] = previous

(* A listing fails only if some fragment had no epoch to show when its key  *)
(* was read: no epoch up to the latest one is missing in any fragment, also *)
(* after a writer starts again.                                             *)
ListComplete ==
  \A h \in Handlers :
    req[h].kind = "list" /\ req[h].answer = "error" => ~req[h].all

(* A job reads the version it was run for (read_epoch, "read epoch for      *)
(* graph reader.").                                                         *)
GaeReadsVersion ==
  \A h \in Handlers : reader[h].pc = "blobs" => reader[h].epoch = req[h].epoch
=============================================================================
