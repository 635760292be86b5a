---------------------------- MODULE MessageManager ----------------------------
(***************************************************************************)
(* The rounds of an analytical query: ParallelPropertyMessageManager, its  *)
(* thread local channels and the Query loop of ParallelPropertyWorker      *)
(* (apps/analytical_engine/core/parallel and core/worker).                 *)
(*                                                                         *)
(* Each worker runs three threads.  The main thread evaluates rounds: it   *)
(* fills the channels, takes the messages of the round before out of one   *)
(* of two receive queues (by the parity of the round), and closes a round  *)
(* with an all-reduce that decides whether the query ends.  A send thread, *)
(* one per round, empties the sending queue into MPI and then tells every  *)
(* other worker that the round is complete; it is joined at the start of   *)
(* the next round.  A receive thread puts what arrives into the queue of   *)
(* the parity of its tag.  MPI (external) keeps the order of one sender,   *)
(* interleaves senders freely, and may complete a send before or after the *)
(* message is received.                                                    *)
(***************************************************************************)
EXTENDS Naturals, Sequences, FiniteSets, SequencesExt

CONSTANTS
    Workers,     \* the workers, one fragment each
    Channels,    \* thread local buffers of a worker (InitChannels)
    BlockSize,   \* messages a channel holds for a fragment before it flushes
    MaxSends,    \* bound: messages sent in a query
    MaxRounds    \* bound: the application has converged after these rounds

ASSUME MessageAssumption ==
    /\ Workers # {} /\ IsFiniteSet(Workers)
    /\ Channels # {} /\ IsFiniteSet(Channels)
    /\ BlockSize \in Nat /\ MaxSends \in Nat /\ MaxRounds \in Nat \ {0}

fnum == Cardinality(Workers)

VARIABLES
    pc,         \* where the main thread of a worker is
    round,      \* round_
    channels,   \* channels_: to_send_ of each channel, by destination
    sent_size,  \* sent_size_: what the vote of this round will be based on
    force,      \* force_continue_ and force_terminate_
    sending,    \* sending_queue_: its blocks and whether its producer is done
    sender,     \* the send thread: "none", "run" or "ended"
    to_self,    \* to_self_
    recv,       \* recv_queues_: blocks and producers of each parity
    recvAlive,  \* the receive thread runs
    net,        \* blocks in flight between two workers, in sending order
    ballots,    \* contributions to the all-reduce of each round
    \* history of what the application did
    sent,       \* every message sent
    overflowed, \* the messages that left in a full block
    got         \* the messages a worker took out of its queue this round

manager == <<channels, sent_size, force, sending, to_self>>
vars == <<pc, round, manager, sender, recv, recvAlive, net, ballots,
          sent, overflowed, got>>

\* A message carries the round it was sent in, only so that the properties
\* can tell rounds apart.
Message == [from : Workers, to : Workers, round : 0 .. MaxRounds,
            n : 1 .. MaxSends]

EndOfRound == <<>>      \* the empty MPI message that closes a round
StopRecv == "stop"      \* the message a worker sends itself in Finalize

SentIn(r) == {m \in sent : m.round = r}
Parity(r) == r % 2
NoMessages == [c \in Channels |-> [d \in Workers |-> <<>>]]
FullQueue == [blocks |-> <<>>, producers |-> fnum]

Init ==
    /\ pc = [w \in Workers |-> "start"]
    /\ round = [w \in Workers |-> 0]
    /\ channels = [w \in Workers |-> NoMessages]
    /\ sent_size = [w \in Workers |-> 0]
    /\ force = [w \in Workers |-> [continue |-> FALSE, terminate |-> FALSE]]
    /\ sending = [w \in Workers |-> [blocks |-> <<>>, open |-> FALSE]]
    /\ sender = [w \in Workers |-> "none"]
    /\ to_self = [w \in Workers |-> <<>>]
    /\ recv = [w \in Workers |-> [p \in 0 .. 1 |-> FullQueue]]
    /\ recvAlive = [w \in Workers |-> TRUE]
    /\ net = [w \in Workers |-> [d \in Workers |-> <<>>]]
    /\ ballots = {}
    /\ sent = {} /\ overflowed = {} /\ got = [w \in Workers |-> {}]

(***************************************************************************)
(* The blocking queue of libgrape-lite (external).  A reader waits until   *)
(* there is a block; once every producer is done and the queue is empty    *)
(* its Get fails.                                                          *)
(***************************************************************************)
QPut(q, b) == [q EXCEPT !.blocks = Append(@, b)]
QDec(q) == [q EXCEPT !.producers = @ - 1]
QHas(q) == q.blocks # <<>>
QClosed(q) == q.blocks = <<>> /\ q.producers = 0

CurrentQueue(w) == recv[w][Parity(round[w])]

-----------------------------------------------------------------------------
(***************************************************************************)
(* The main thread.                                                        *)
(***************************************************************************)

\* Mutant: to_self_ is delivered but the worker does not count itself done.
SelfUncounted(q, w) == [q EXCEPT !.blocks = @ \o to_self[w]]

\* What StartARound moves into the receive queue of round r: the blocks the
\* last round sent to this very worker, and the worker's own production.
SelfDelivered(q, w) == QDec([q EXCEPT !.blocks = @ \o to_self[w]])

\* StartARound: join the send thread of the round before, deliver to_self_,
\* clear the size and the continue flag, and start a new send thread.
StartARound(w) ==
    /\ pc[w] = "start"
    /\ IF round[w] # 0
       THEN /\ sender[w] = "ended"
            /\ recv' = [recv EXCEPT ![w][Parity(round[w])] =
                                        SelfDelivered(@, w)]
            /\ to_self' = [to_self EXCEPT ![w] = <<>>]
       ELSE UNCHANGED <<recv, to_self>>
    /\ sent_size' = [sent_size EXCEPT ![w] = 0]
    /\ force' = [force EXCEPT ![w].continue = FALSE]
    /\ sending' = [sending EXCEPT ![w].open = TRUE]
    /\ sender' = [sender EXCEPT ![w] = "run"]
    /\ got' = [got EXCEPT ![w] = {}]
    /\ pc' = [pc EXCEPT ![w] = "eval"]
    /\ UNCHANGED <<round, channels, recvAlive, net, ballots, sent, overflowed>>

NewMessage(w, d) ==
    LET same == {m \in SentIn(round[w]) : m.from = w /\ m.to = d}
    IN  [from |-> w, to |-> d, round |-> round[w], n |-> Cardinality(same) + 1]
MayPost(w) == round[w] < MaxRounds /\ Cardinality(sent) < MaxSends

\* SyncStateOnOuterVertex, SendMsgThrough(I|O)Edges: add a message to the
\* block of a fragment and flush the block when it has grown past BlockSize.
\* A flush of a full block does not add to the sent size.
SyncState(w, c, d) ==
    LET m == NewMessage(w, d)
        block == Append(channels[w][c][d], m)
    IN  /\ pc[w] = "eval" /\ d # w /\ MayPost(w)
        /\ sent' = sent \cup {m}
        /\ IF Len(block) > BlockSize
           THEN /\ sending' = [sending EXCEPT ![w].blocks =
                                                  Append(@, <<d, block>>)]
                /\ channels' = [channels EXCEPT ![w][c][d] = <<>>]
                /\ overflowed' = overflowed \cup ToSet(block)
           ELSE /\ channels' = [channels EXCEPT ![w][c][d] = block]
                /\ UNCHANGED <<sending, overflowed>>
        /\ UNCHANGED <<pc, round, sent_size, force, to_self, sender, recv,
                       recvAlive, net, ballots, got>>

\* SendToFragment: add a message for any fragment, this one too, without
\* looking at the size of the block.
SendToFragment(w, c) ==
    LET m == NewMessage(w, w)
    IN  /\ pc[w] = "eval" /\ MayPost(w)
        /\ sent' = sent \cup {m}
        /\ channels' = [channels EXCEPT ![w][c][w] = Append(@, m)]
        /\ UNCHANGED <<pc, round, sent_size, force, sending, to_self, sender,
                       recv, recvAlive, net, ballots, overflowed, got>>

\* GetMessages, and the loop of ParallelProcess: take a block of the round
\* before; nothing is sent to the evaluation of round 0.
GetMessages(w) ==
    /\ pc[w] = "eval" /\ round[w] # 0 /\ QHas(CurrentQueue(w))
    /\ got' = [got EXCEPT ![w] = @ \cup ToSet(Head(CurrentQueue(w).blocks))]
    /\ recv' = [recv EXCEPT ![w][Parity(round[w])].blocks = Tail(@)]
    /\ UNCHANGED <<pc, round, manager, sender, recvAlive, net, ballots, sent,
                   overflowed>>

\* ForceContinue and ForceTerminate set flags that nobody reads before the
\* round is over: the calls an evaluation makes are taken when it ends.
ForceContinue(f) == [f EXCEPT !.continue = TRUE]
ForceTerminate(f) == [f EXCEPT !.terminate = TRUE]

\* The blocks FlushMessages finds in the channels, one after the other.
Filled(w) == {cd \in Channels \X Workers : channels[w][cd[1]][cd[2]] # <<>>}
LeftBlocks(w) ==
    LET order == SetToSeq(Filled(w))
    IN  [i \in DOMAIN order |->
            <<order[i][2], channels[w][order[i][1]][order[i][2]]>>]

\* The size finishMsgFilling returns: what FlushMessages flushed.
InChannels(w) == UNION {ToSet(channels[w][cd[1]][cd[2]]) : cd \in Filled(w)}
FlushedSize(w) == Cardinality(InChannels(w))

\* The evaluation ends, and FinishARound up to resetRecvQueue: flush every
\* channel, sum their sizes, and close the sending queue.
FinishMsgFilling(w) ==
    /\ pc[w] = "eval"
    /\ sending' = [sending EXCEPT ![w] =
                     [blocks |-> @.blocks \o LeftBlocks(w), open |-> FALSE]]
    /\ sent_size' = [sent_size EXCEPT ![w] = FlushedSize(w)]
    /\ channels' = [channels EXCEPT ![w] = NoMessages]
    /\ \/ UNCHANGED force
       \/ /\ round[w] < MaxRounds
          /\ force' = [force EXCEPT ![w] = ForceContinue(@)]
       \/ force' = [force EXCEPT ![w] = ForceTerminate(@)]
    /\ pc' = [pc EXCEPT ![w] = "drain"]
    /\ UNCHANGED <<round, to_self, sender, recv, recvAlive, net, ballots,
                   sent, overflowed, got>>

\* resetRecvQueue, its loop: whatever the evaluation left in the queue of
\* this round is thrown away, until every producer of the round is done.
DrainOne(w) ==
    /\ pc[w] = "drain" /\ round[w] # 0 /\ QHas(CurrentQueue(w))
    /\ got' = [got EXCEPT ![w] = @ \cup ToSet(Head(CurrentQueue(w).blocks))]
    /\ recv' = [recv EXCEPT ![w][Parity(round[w])].blocks = Tail(@)]
    /\ UNCHANGED <<pc, round, manager, sender, recvAlive, net, ballots, sent,
                   overflowed>>

\* Mutant: the queue is drained of what is there, without waiting for producers.
DrainedNow(w) == ~QHas(CurrentQueue(w))

Drained(w) == round[w] # 0 => QClosed(CurrentQueue(w))

\* SetProducerNum(fnum_): the queue is ready for the round after the next.
Reopened(q) == [q EXCEPT !.producers = fnum]

\* The end of resetRecvQueue and of FinishARound; the worker's contribution
\* to the all-reduce of ToTerminate is on its way.
FinishARound(w) ==
    /\ pc[w] = "drain" /\ Drained(w)
    /\ recv' = [recv EXCEPT ![w][Parity(round[w])] = Reopened(@)]
    /\ ballots' = ballots \cup
         {[by |-> w, round |-> round[w],
           goOn |-> sent_size[w] # 0 \/ force[w].continue,
           stop |-> force[w].terminate]}
    /\ round' = [round EXCEPT ![w] = @ + 1]
    /\ pc' = [pc EXCEPT ![w] = "vote"]
    /\ UNCHANGED <<manager, sender, recvAlive, net, sent, overflowed, got>>

\* The outcome of the all-reduce of round r, known once all have contributed.
Contributed(r) == {b.by : b \in {x \in ballots : x.round = r}}

\* Mutant: one worker without messages is enough to end the query.
EndsEarly(r) == \E b \in ballots : b.round = r /\ (b.stop \/ ~b.goOn)

Ends(r) ==
    LET votes == {b \in ballots : b.round = r}
    IN  (\E b \in votes : b.stop) \/ (\A b \in votes : ~b.goOn)

\* ToTerminate returns, to each worker in its own time.
ToTerminate(w) ==
    LET r == round[w] - 1
    IN  /\ pc[w] = "vote" /\ Contributed(r) = Workers
        /\ pc' = [pc EXCEPT ![w] = IF Ends(r) THEN "finalize" ELSE "start"]
        /\ UNCHANGED <<round, manager, sender, recv, recvAlive, net, ballots,
                       sent, overflowed, got>>

\* Past the barrier at the end of Query, Finalize joins the send thread and
\* enters its own barrier.
WaitSend(w) ==
    /\ pc[w] = "finalize" /\ sender[w] = "ended"
    /\ \A v \in Workers : pc[v] \in {"finalize", "barrier", "join"}
    /\ pc' = [pc EXCEPT ![w] = "barrier"]
    /\ UNCHANGED <<round, manager, sender, recv, recvAlive, net, ballots,
                   sent, overflowed, got>>

\* Past the barrier: stopRecvThread sends the empty message to itself and
\* joins the receive thread.
StopRecvThread(w) ==
    /\ pc[w] = "barrier"
    /\ \A v \in Workers : pc[v] \in {"barrier", "join"}
    /\ net' = [net EXCEPT ![w][w] = Append(@, StopRecv)]
    /\ pc' = [pc EXCEPT ![w] = "join"]
    /\ UNCHANGED <<round, manager, sender, recv, recvAlive, ballots, sent,
                   overflowed, got>>

-----------------------------------------------------------------------------
(***************************************************************************)
(* The send thread of the current round: its tag is round + 1.             *)
(***************************************************************************)
Tag(w) == IF pc[w] \in {"eval", "drain"} THEN round[w] + 1 ELSE round[w]

SendBlock(w) ==
    /\ sender[w] = "run" /\ sending[w].blocks # <<>>
    /\ LET d == Head(sending[w].blocks)[1]
           b == Head(sending[w].blocks)[2]
       IN  IF d = w
           THEN /\ to_self' = [to_self EXCEPT ![w] = Append(@, b)]
                /\ UNCHANGED net
           ELSE /\ net' = [net EXCEPT ![w][d] =
                             Append(@, [tag |-> Tag(w), block |-> b])]
                /\ UNCHANGED to_self
    /\ sending' = [sending EXCEPT ![w].blocks = Tail(@)]
    /\ UNCHANGED <<pc, round, channels, sent_size, force, sender, recv,
                   recvAlive, ballots, sent, overflowed, got>>

\* The sending queue is closed and empty: an empty message to every other
\* worker, then MPI_Waitall, which MPI may let return before the messages
\* are received: from here on the thread may have ended.
SendEnds(w) ==
    /\ sender[w] = "run" /\ sending[w] = [blocks |-> <<>>, open |-> FALSE]
    /\ net' = [net EXCEPT ![w] =
                 [d \in Workers |->
                    IF d = w THEN @[d]
                    ELSE Append(@[d], [tag |-> Tag(w), block |-> EndOfRound])]]
    /\ sender' = [sender EXCEPT ![w] = "ended"]
    /\ UNCHANGED <<pc, round, manager, recv, recvAlive, ballots, sent,
                   overflowed, got>>

\* When a send thread can be joined at the latest: MPI_Waitall returns once
\* everything it sent is received.
AllReceived(w) == \A d \in Workers : net[w][d] = <<>>

-----------------------------------------------------------------------------
(***************************************************************************)
(* The receive thread: probeAllIncomingMessages.                           *)
(***************************************************************************)
Received(q, b) == IF b = EndOfRound THEN QDec(q) ELSE QPut(q, b)

Receive(w, v) ==
    /\ recvAlive[w] /\ v # w /\ net[v][w] # <<>>
    /\ LET x == Head(net[v][w])
       IN  recv' = [recv EXCEPT ![w][Parity(x.tag)] = Received(@, x.block)]
    /\ net' = [net EXCEPT ![v][w] = Tail(@)]
    /\ UNCHANGED <<pc, round, manager, sender, recvAlive, ballots, sent,
                   overflowed, got>>

ReceiveStop(w) ==
    /\ recvAlive[w] /\ net[w][w] # <<>>
    /\ net' = [net EXCEPT ![w][w] = Tail(@)]
    /\ recvAlive' = [recvAlive EXCEPT ![w] = FALSE]
    /\ UNCHANGED <<pc, round, manager, sender, recv, ballots, sent,
                   overflowed, got>>

-----------------------------------------------------------------------------
\* Every worker has joined its receive thread: Query returns everywhere.
Done == \A w \in Workers : pc[w] = "join" /\ ~recvAlive[w]

Sends(w) == \E c \in Channels : SendToFragment(w, c)
                                \/ \E d \in Workers : SyncState(w, c, d)

Next ==
    \E w \in Workers :
        \/ StartARound(w) \/ Sends(w) \/ GetMessages(w)
        \/ FinishMsgFilling(w) \/ DrainOne(w) \/ FinishARound(w)
        \/ ToTerminate(w) \/ WaitSend(w) \/ StopRecvThread(w)
        \/ SendBlock(w) \/ SendEnds(w)
        \/ ReceiveStop(w) \/ \E v \in Workers : Receive(w, v)

Spec == Init /\ [][Next]_vars

\* Every thread is scheduled; an evaluation ends by itself; MPI delivers, and
\* a wait for sends that have all been received returns.
Fairness ==
    \A w \in Workers :
        /\ WF_vars(AllReceived(w) /\ (StartARound(w) \/ WaitSend(w)))
        /\ WF_vars(FinishMsgFilling(w) \/ DrainOne(w) \/ FinishARound(w)
                   \/ ToTerminate(w) \/ StopRecvThread(w))
        /\ WF_vars(SendBlock(w) \/ SendEnds(w))
        /\ WF_vars(ReceiveStop(w))
        /\ \A v \in Workers : WF_vars(Receive(w, v))

FairSpec == Spec /\ Fairness

-----------------------------------------------------------------------------
(***************************************************************************)
(* Properties.                                                             *)
(***************************************************************************)
\* Types; in particular a queue never has fewer than no producers, and a
\* sending queue is empty whenever no send thread serves it (the CHECK_EQ of
\* startSendThread).
TypeOK ==
    /\ round \in [Workers -> 0 .. MaxRounds + 1]
    /\ sent \subseteq Message /\ overflowed \subseteq sent
    /\ \A w \in Workers :
        /\ \A p \in 0 .. 1 : recv[w][p].producers \in 0 .. fnum
        /\ sender[w] \notin {"run"} => sending[w].blocks = <<>>

\* Round isolation: when a worker has finished a round, what it took out of
\* its queue in that round is exactly what was sent to it in the round before,
\* although the queue of that parity is shared with every second round, the
\* fast workers are a round ahead, and nothing but the order of the reset, the
\* all-reduce and the join keeps the rounds apart.
RoundIsolation ==
    \A w \in Workers :
        /\ got[w] \subseteq {m \in sent : m.to = w}
        /\ pc[w] \in {"vote", "finalize", "barrier", "join"} =>
             LET r == round[w] - 1
             IN  got[w] = {m \in sent : m.to = w /\ m.round + 1 = r}

\* A query that nobody forced to terminate ends at a fixed point: no message
\* sent in its last round is left unread, but for messages that left in a full
\* block, which the sent size does not count.
EndsUncounted ==
    \A w \in Workers :
        LET r == round[w] - 1
        IN  pc[w] \in {"finalize", "barrier", "join"} =>
              \/ \E b \in ballots : b.round = r /\ b.stop
              \/ SentIn(r) \subseteq overflowed

\* "After a round of evaluation, there is a global barrier to determine
\* whether the fixed point is reached": an unforced end leaves no message of
\* the last round behind.  Holds only as long as no block overflows.
EndsAtFixedPoint ==
    \A w \in Workers :
        LET r == round[w] - 1
        IN  pc[w] \in {"finalize", "barrier", "join"} =>
              (\E b \in ballots : b.round = r /\ b.stop) \/ SentIn(r) = {}

\* Once the application stops sending and forcing rounds (after MaxRounds
\* rounds), every worker returns from Query: nobody waits for a message, a
\* producer, a thread or a vote that never comes.
QueryReturns == <>Done

=============================================================================
