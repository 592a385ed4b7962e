----------------------------- MODULE ShipStream -----------------------------
(***************************************************************************)
(* One block reader between a SHIP server and RabbitMQ                     *)
(* (src/indexer/workers/state-reader.ts over connections/state-history.ts).*)
(*                                                                         *)
(* The server pushes messages over a websocket; they wait in               *)
(* blockReadingQueue, a cargo that hands them over in batches, and each    *)
(* block waits in stageOneDistQueue until it is sent on the confirm        *)
(* channel.  Both connections may drop at any point between two of these   *)
(* steps.  After a reconnect the first message, the server's ABI, is meant *)
(* to trigger the request that resumes the stream (the recovery flag).     *)
(*                                                                         *)
(* A range reader reads one range [First, Last).  The live reader starts   *)
(* at First and follows the chain, whose head is taken to stop at          *)
(* Last - 1.                                                               *)
(***************************************************************************)
EXTENDS Integers, Sequences, FiniteSets

CONSTANTS
    Roles,       \* values of live to consider
    First,       \* first_block, or worker_last_processed_block when live
    Last,        \* last_block, or one past the chain's head when live
    FirstOnShip, \* first block the server sends, whatever its status reports
                 \* (block 2 on a chain whose block log begins at 1)
    Bares,       \* values of bare to consider
    Prefetch,    \* prefetch.read: batch size and max_messages_in_flight
    MaxDrops,    \* bound: websocket closes and failed connections
    MaxMqDrops   \* bound: AMQP connection losses

ASSUME StreamAssumption ==
    /\ Roles \subseteq BOOLEAN
    /\ First \in Nat \ {0} /\ Last \in Nat /\ First < Last
    /\ FirstOnShip \in Nat
    /\ Bares \subseteq SUBSET (2 .. Last - 1)
    /\ Prefetch \in Nat \ {0}
    /\ MaxDrops \in Nat /\ MaxMqDrops \in Nat

Abi == [type |-> "abi"]
Status == [type |-> "get_status_result_v0"]
Block(n) == [type |-> "get_blocks_result_v0", num |-> n]
IsBlock(msg) == msg.type = "get_blocks_result_v0"

NoBlock == 0
NoRequest == [next |-> 0, end |-> 0]

VARIABLES
    live,      \* worker_role is continuous_reader, from the environment
    bare,      \* blocks the server sends a range reader without a block, traces and deltas
    \* SHIP server's side of the session
    link,       \* "offline", "connecting" or "online"
    owed,       \* answers the server still has to send
    request,    \* the blocks it was asked for and has not sent: [next, end)
    credit,     \* block messages it may send before an acknowledgement
    \* reader process
    inbox,      \* blockReadingQueue, messages no worker has taken
    batch,      \* messages of the batch being processed
    batchSize,  \* block_array.length, 0 when no batch is being processed
    hasABI,     \* shipABI is loaded
    recovery,
    received,   \* receivedFirstBlock
    local,      \* local_block_num
    staged,     \* the block waiting in stageOneDistQueue, or NoBlock
    count,      \* local_distributed_count
    signaled,   \* completionSignaled
    completed,  \* 'completed' was sent to the master
    \* broker
    mqReady,    \* cch_ready, and stageOneDistQueue not paused
    unconf,     \* blocks sent and not confirmed
    published,  \* blocks the broker has
    \* bounds and history
    drops, mqDrops, exits,
    stale,      \* a websocket closed with unprocessed messages in memory, which
                \* a range reader that has its first block can tell from new ones
    sent        \* every block this process has sent to the broker

serverVars == <<link, owed, request, credit>>
readerVars == <<inbox, batch, batchSize, hasABI, recovery, received, local, staged,
                count, signaled, completed>>
brokerVars == <<mqReady, unconf, published>>
historyVars == <<drops, mqDrops, exits, stale, sent>>
vars == <<live, bare, serverVars, readerVars, brokerVars, historyVars>>

RangeSize == Last - First

\* State of a newly forked process; the live reader's local_block_num and the
\* range reader's both start one below the first block.
FreshProcess ==
    /\ link' = "offline" /\ owed' = <<>> /\ request' = NoRequest /\ credit' = 0
    /\ inbox' = <<>> /\ batch' = <<>> /\ batchSize' = 0
    /\ hasABI' = FALSE /\ recovery' = FALSE /\ received' = FALSE
    /\ local' = First - 1 /\ staged' = NoBlock /\ count' = 0
    /\ signaled' = FALSE /\ completed' = FALSE

Init ==
    /\ live \in Roles /\ bare \in IF live THEN {{}} ELSE Bares
    /\ link = "offline" /\ owed = <<>> /\ request = NoRequest /\ credit = 0
    /\ inbox = <<>> /\ batch = <<>> /\ batchSize = 0
    /\ hasABI = FALSE /\ recovery = FALSE /\ received = FALSE
    /\ local = First - 1 /\ staged = NoBlock /\ count = 0
    /\ signaled = FALSE /\ completed = FALSE
    /\ mqReady = TRUE /\ unconf = {} /\ published = {}
    /\ drops = 0 /\ mqDrops = 0 /\ exits = 0 /\ stale = FALSE /\ sent = {}

-----------------------------------------------------------------------------
(* The websocket *)

\* startWS, at start-up or 5 s after a lost connection.
StartWS ==
    /\ link = "offline"
    /\ link' = "connecting"
    /\ UNCHANGED <<live, bare, owed, request, credit, readerVars, brokerVars, historyVars>>

\* 'open': a new session, which the server begins with its ABI.
Open ==
    /\ link = "connecting"
    /\ link' = "online"
    /\ owed' = <<Abi>>
    /\ request' = NoRequest
    /\ credit' = 0
    /\ UNCHANGED <<live, bare, readerVars, brokerVars, historyVars>>

\* 'close' -> handleLostConnection; messages already received stay in memory.
LoseConnection ==
    /\ link # "offline"
    /\ drops < MaxDrops
    /\ drops' = drops + 1
    /\ link' = "offline"
    /\ recovery' = TRUE
    /\ owed' = <<>>
    /\ request' = NoRequest
    /\ credit' = 0
    /\ stale' = (stale \/ (inbox \o batch # <<>> /\ (live \/ ~received)))
    /\ UNCHANGED <<live, bare, inbox, batch, batchSize, hasABI, received, local, staged, count, signaled,
                   completed, brokerVars, mqDrops, exits, sent>>

ServerAnswers ==
    /\ link = "online"
    /\ owed # <<>>
    /\ inbox' = Append(inbox, Head(owed))
    /\ owed' = Tail(owed)
    /\ UNCHANGED <<live, bare, link, request, credit, batch, batchSize, hasABI, recovery, received, local,
                   staged, count, signaled, completed, brokerVars, historyVars>>

ServerSendsBlock ==
    /\ link = "online"
    /\ owed = <<>>
    /\ request.next < request.end
    /\ request.next < Last \/ ~live
    /\ credit > 0
    /\ inbox' = Append(inbox, Block(request.next))
    /\ request' = [request EXCEPT !.next = @ + 1]
    /\ credit' = credit - 1
    /\ UNCHANGED <<live, bare, link, owed, batch, batchSize, hasABI, recovery, received, local, staged,
                   count, signaled, completed, brokerVars, historyVars>>

-----------------------------------------------------------------------------
(* The reader *)

\* A get_blocks_request [from, to): sent only while the session is open.
RequestBlocks(from, to) ==
    IF link = "online"
    THEN /\ request' = [next |-> IF from < FirstOnShip THEN FirstOnShip ELSE from, end |-> to]
         /\ credit' = Prefetch
    ELSE UNCHANGED <<request, credit>>

\* The cargo hands over what has arrived, Prefetch messages at most; before the
\* ABI is known only the first of them is looked at.
TakeBatch ==
    /\ batchSize = 0
    /\ inbox # <<>>
    /\ LET n == IF Len(inbox) < Prefetch THEN Len(inbox) ELSE Prefetch
       IN /\ batch' = IF hasABI THEN SubSeq(inbox, 1, n) ELSE <<Head(inbox)>>
          /\ batchSize' = n
          /\ inbox' = SubSeq(inbox, n + 1, Len(inbox))
    /\ UNCHANGED <<live, bare, serverVars, hasABI, recovery, received, local, staged, count, signaled,
                   completed, brokerVars, historyVars>>

\* The next message of the batch, once the block before it was distributed.
NextMessage(msg) ==
    /\ batch # <<>>
    /\ staged = NoBlock
    /\ msg = Head(batch)
    /\ batch' = Tail(batch)

\* processFirstABI: load the ABI and ask for SHIP's status.
ReadFirstABI ==
    /\ ~hasABI
    /\ NextMessage(Abi)
    /\ link # "connecting"
    /\ hasABI' = TRUE
    /\ owed' = IF link = "online" THEN Append(owed, Status) ELSE owed
    /\ UNCHANGED <<live, bare, link, request, credit, inbox, batchSize, recovery, received, local, staged,
                   count, signaled, completed, brokerVars, historyVars>>

RequestEnd == Last

\* handleStatusResult: request the environment's range, or follow the chain.
ReadStatus ==
    /\ hasABI /\ ~recovery
    /\ NextMessage(Status)
    /\ RequestBlocks(First, RequestEnd)
    /\ UNCHANGED <<live, bare, link, owed, inbox, batchSize, hasABI, recovery, received, local, staged,
                   count, signaled, completed, brokerVars, historyVars>>

\* An ABI that is not expected cannot be decoded as a result: the error is
\* logged and the message is gone.
RejectABI ==
    /\ hasABI /\ ~recovery
    /\ NextMessage(Abi)
    /\ UNCHANGED <<live, bare, serverVars, inbox, batchSize, hasABI, recovery, received, local, staged,
                   count, signaled, completed, brokerVars, historyVars>>

\* handleBlockResult, live: every block moves local_block_num and is staged.
ReadLiveBlock ==
    /\ live /\ hasABI /\ ~recovery
    /\ \E n \in 1 .. Last :
        /\ NextMessage(Block(n))
        /\ local' = n
        /\ staged' = n
    /\ UNCHANGED <<live, bare, serverVars, inbox, batchSize, hasABI, recovery, received, count, signaled,
                   completed, brokerVars, historyVars>>

\* Range readers only accept the block after local_block_num.
Follows_Unchecked(n, from) == TRUE  \* mutant
Follows(n, from) == n = from + 1

\* handleBlockResult, range: the first block of all may be ahead of the range;
\* a later block out of order is dropped, and one without data is passed over.
ReadRangeBlock ==
    /\ ~live /\ hasABI /\ ~recovery
    /\ \E n \in 1 .. Last :
        /\ NextMessage(Block(n))
        /\ LET skipped == ~received /\ n # local + 1
               from == IF skipped THEN n - 1 ELSE local
           IN /\ count' = IF skipped THEN count + 1 ELSE count
              /\ IF Follows(n, from)
                 THEN local' = n /\ staged' = IF n \in bare THEN NoBlock ELSE n
                 ELSE local' = from /\ UNCHANGED staged
        /\ received' = TRUE
    /\ UNCHANGED <<live, bare, serverVars, inbox, batchSize, hasABI, recovery, signaled, completed,
                   brokerVars, historyVars>>

\* Recovery, live: whatever message comes first is taken for the new
\* session's ABI; the stream is asked for from the block after the last one.
ResumeFrom == local + 1

StillRecovering_Kept == recovery  \* mutant
StillRecovering == FALSE

ResumeLive ==
    /\ live /\ hasABI /\ recovery
    /\ \E msg \in {Abi, Status} \cup {Block(n) : n \in 1 .. Last} : NextMessage(msg)
    /\ RequestBlocks(ResumeFrom, RequestEnd)
    /\ recovery' = StillRecovering
    /\ UNCHANGED <<live, bare, link, owed, inbox, batchSize, hasABI, received, local, staged, count,
                   signaled, completed, brokerVars, historyVars>>

\* Recovery, range: the request restarts at the last block read and ends one
\* block early; it is not made when nothing would be left of it.
ResumeRange ==
    /\ ~live /\ hasABI /\ recovery /\ ~signaled
    /\ \E msg \in {Abi, Status} \cup {Block(n) : n \in 1 .. Last} : NextMessage(msg)
    /\ LET from == IF local = 0 THEN First ELSE local
           to == IF from > Last - 1 THEN from + 1 ELSE Last - 1
       IN IF to > from
          THEN /\ RequestBlocks(from, to)
               /\ local' = from - 1
               /\ recovery' = FALSE
          ELSE UNCHANGED <<request, credit, local, recovery>>
    /\ UNCHANGED <<live, bare, link, owed, inbox, batchSize, hasABI, received, staged, count, signaled,
                   completed, brokerVars, historyVars>>

\* Recovery after the range was filled: nothing is left to ask for.
SkipResume ==
    /\ ~live /\ hasABI /\ recovery /\ signaled
    /\ \E msg \in {Abi, Status} \cup {Block(n) : n \in 1 .. Last} : NextMessage(msg)
    /\ recovery' = FALSE
    /\ UNCHANGED <<live, bare, serverVars, inbox, batchSize, hasABI, received, local, staged, count,
                   signaled, completed, brokerVars, historyVars>>

Granted == batchSize

\* ackBlockRange at the end of a batch gives the server its credit back.
AckBatch ==
    /\ batchSize > 0 /\ batch = <<>> /\ staged = NoBlock
    /\ link # "connecting"
    /\ batchSize' = 0
    /\ credit' = IF link = "online" THEN credit + Granted ELSE credit
    /\ UNCHANGED <<live, bare, link, owed, request, inbox, batch, hasABI, recovery, received, local, staged,
                   count, signaled, completed, brokerVars, historyVars>>

\* Sending on a websocket that is still connecting throws, which ends the
\* process ('FATAL ERROR READING BLOCKS').  The master forks it again with the
\* same environment; what the broker had not confirmed may have reached it.
FatalSend ==
    /\ link = "connecting"
    /\ staged = NoBlock
    /\ \/ batchSize > 0 /\ batch = <<>>
       \/ batch # <<>> /\ ~hasABI
    /\ exits' = exits + 1
    /\ \E kept \in SUBSET unconf : published' = published \cup kept
    /\ unconf' = {}
    /\ mqReady' = TRUE
    /\ sent' = {}
    /\ FreshProcess
    /\ UNCHANGED <<live, bare, drops, mqDrops, stale>>

-----------------------------------------------------------------------------
(* The broker *)

Fills_OneLate == count = RangeSize  \* mutant
Fills == count + 1 = RangeSize

\* recursiveDistribute: the staged block is sent on the confirm channel; the
\* one that fills a range starts its completion.
Distribute ==
    /\ staged # NoBlock
    /\ mqReady
    /\ unconf' = unconf \cup {staged}
    /\ sent' = sent \cup {staged}
    /\ staged' = NoBlock
    /\ IF live THEN UNCHANGED <<count, signaled>>
       ELSE IF Fills
       THEN signaled' = TRUE /\ count' = IF signaled THEN count + 1 ELSE 0
       ELSE count' = count + 1 /\ UNCHANGED signaled
    /\ UNCHANGED <<live, bare, serverVars, inbox, batch, batchSize, hasABI, recovery, received, local,
                   completed, mqReady, published, drops, mqDrops, exits, stale>>

Confirm ==
    /\ mqReady
    /\ \E n \in unconf : unconf' = unconf \ {n} /\ published' = published \cup {n}
    /\ UNCHANGED <<live, bare, serverVars, readerVars, mqReady, historyVars>>

\* The AMQP connection closes: both channels are gone and the stage-one queue
\* is paused.  Part of what was not confirmed may have reached the broker.
LoseMq ==
    /\ mqReady
    /\ mqDrops < MaxMqDrops
    /\ mqDrops' = mqDrops + 1
    /\ mqReady' = FALSE
    /\ \E kept \in SUBSET unconf : published' = published \cup kept
    /\ UNCHANGED <<live, bare, serverVars, readerVars, unconf, drops, exits, stale, sent>>

\* amqpConnect succeeded: onConnect resumes the queue on new channels, and
\* the new confirm channel has nothing outstanding.
MqBack ==
    /\ ~mqReady
    /\ mqReady' = TRUE
    /\ unconf' = {}
    /\ UNCHANGED <<live, bare, serverVars, readerVars, published, historyVars>>

AllConfirmed == unconf = {}

\* The 200 ms poll of signalReaderCompletion.
Complete ==
    /\ signaled /\ ~completed
    /\ AllConfirmed
    /\ completed' = TRUE
    /\ UNCHANGED <<live, bare, serverVars, inbox, batch, batchSize, hasABI, recovery, received, local,
                   staged, count, signaled, brokerVars, historyVars>>

-----------------------------------------------------------------------------
ReaderStep ==
    \/ TakeBatch
    \/ ReadFirstABI
    \/ ReadStatus
    \/ RejectABI
    \/ ReadLiveBlock
    \/ ReadRangeBlock
    \/ ResumeLive
    \/ ResumeRange
    \/ SkipResume
    \/ AckBatch
    \/ FatalSend

ShipStep == StartWS \/ Open \/ ServerAnswers \/ ServerSendsBlock
BrokerStep == Distribute \/ Confirm \/ MqBack \/ Complete

Next == ReaderStep \/ ShipStep \/ BrokerStep \/ LoseConnection \/ LoseMq

Spec == Init /\ [][Next]_vars

\* The process, the server and the broker keep working; connections need not
\* be lost.
FairSpec ==
    Spec /\ WF_vars(ReaderStep) /\ WF_vars(StartWS) /\ WF_vars(Open) /\ WF_vars(ServerAnswers)
         /\ WF_vars(ServerSendsBlock) /\ WF_vars(Distribute) /\ WF_vars(Confirm)
         /\ WF_vars(MqBack) /\ WF_vars(Complete)

-----------------------------------------------------------------------------
(* Properties *)

Messages == {Abi, Status} \cup {Block(n) : n \in 1 .. Last}

\* The state of the session, the reader and the broker keeps its types.
TypeOK ==
    /\ live \in Roles /\ bare \subseteq 2 .. Last - 1
    /\ link \in {"offline", "connecting", "online"}
    /\ owed \in Seq({Abi, Status})
    /\ request.next \in Nat /\ request.end \in Nat /\ credit \in Nat
    /\ inbox \in Seq(Messages) /\ batch \in Seq(Messages) /\ batchSize \in 0 .. Prefetch
    /\ {hasABI, recovery, received, signaled, completed, mqReady, stale} \subseteq BOOLEAN
    /\ local \in -1 .. Last - 1
    /\ staged = NoBlock \/ staged = local
    /\ count \in Nat
    /\ {unconf, sent, published} \subseteq SUBSET (1 .. Last - 1)
    /\ drops \in 0 .. MaxDrops /\ mqDrops \in 0 .. MaxMqDrops /\ exits \in 0 .. MaxDrops

Available == {n \in First .. Last - 1 : n >= FirstOnShip /\ n \notin bare}
ReadSoFar == {n \in Available : n <= local}
Handled == sent \cup {staged}

\* local_block_num never runs ahead of what was handed to the broker: the reader
\* has sent, or is sending, every block with data up to it, across disconnects, exits
\* and AMQP losses.  A range reader keeps this by dropping what is out of order once
\* it has its first block; the live reader takes blocks as they come, and only
\* keeps it if no websocket closed with messages left in blockReadingQueue.
NoGap == ~stale => ReadSoFar \subseteq Handled

\* A range reader that reports 'completed' has every available block with data of
\* its range in the broker ("Reader completed").
CompletedMeansPublished == completed => Available \subseteq published

\* A range reader whose websocket lasts completes its range, through losses of
\* the AMQP connection.  Excepted is a range with a block without data: it is not
\* counted, and the range never filled.
RangeCompletes == ~live => <>(drops > 0 \/ completed \/ bare \cap First .. Last - 1 # {})

\* A live reader brings the broker every block up to the head, if no websocket
\* close caught it with messages in memory and no AMQP connection was lost.
LiveCatchesUp == live => <>(stale \/ mqDrops > 0 \/ Available \subseteq published)
=============================================================================
