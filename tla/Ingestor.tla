------------------------------ MODULE Ingestor ------------------------------
(***************************************************************************)
(* One ingestor: an indexing queue of RabbitMQ, the cargo that collects    *)
(* deliveries into bulk requests, and the acknowledgements that follow     *)
(* Elasticsearch's answer (src/indexer/workers/indexer.ts and              *)
(* src/indexer/helpers/elastic-routes.ts).                                 *)
(*                                                                         *)
(* The bulk requests, the queue and the process fail independently.  An    *)
(* answer without errors acknowledges every delivery of the channel, those *)
(* still waiting in the cargo included.                                    *)
(***************************************************************************)
EXTENDS Integers, Sequences, FiniteSets, SequencesExt

CONSTANTS
    Msgs,        \* messages of the queue
    Queue,       \* their order
    DocOf,       \* document id each of them writes
    IdsMatch,    \* values of idsMatch to consider
    Prefetches,  \* values of prefetch.index, the channel's prefetch and the cargo's size
    MaxFailures, \* bound: bulk requests that fail as a whole
    MaxRejects,  \* bound: answers in which some items were rejected
    MaxLosses,   \* bound: AMQP connection losses
    MaxCrashes,  \* bound: exits of the process not caused by the model
    MaxMishaps   \* bound: all of these together

ASSUME IngestAssumption ==
    /\ Queue \in Seq(Msgs) /\ Len(Queue) = Cardinality(Msgs)
    /\ \A msg \in Msgs : \E i \in DOMAIN Queue : Queue[i] = msg
    /\ DOMAIN DocOf = Msgs
    /\ IdsMatch \subseteq BOOLEAN
    /\ Prefetches \subseteq Nat \ {0}
    /\ {MaxFailures, MaxRejects, MaxLosses, MaxCrashes, MaxMishaps} \subseteq Nat

VARIABLES
    \* broker
    ready,     \* messages not delivered, first to last
    unacked,   \* deliveries of the channel not settled: [tag, msg]
    nextTag,
    channel,   \* "open", "lost" with its connection, "closed" by the broker, or
               \* "down" with the process
    \* process
    buffer,    \* indexQueue: deliveries waiting
    batch,     \* deliveries in the bulk request
    bulk,      \* "idle", "sent", "done" or "failed"
    rejected,  \* positions of the batch Elasticsearch rejected
    idsMatch,  \* ids have the type Elasticsearch returns: FALSE for blocks, whose
               \* id is a number in messageMap and a string in the answer
    current,   \* the channel the batch was taken from is still the open one
    prefetch,  \* prefetch.index
    \* Elasticsearch
    written,   \* messages whose document was written
    reported,  \* messages whose rejection was only logged ("Indexing error")
    \* bounds
    failures, rejects, losses, crashes

brokerVars == <<ready, unacked, nextTag, channel>>
bulkVars == <<batch, bulk, rejected, current>>
bounds == <<failures, rejects, losses, crashes>>
store == <<written, reported>>
settings == <<idsMatch, prefetch>>
vars == <<settings, brokerVars, buffer, bulkVars, store, bounds>>

Init ==
    /\ idsMatch \in IdsMatch /\ prefetch \in Prefetches
    /\ ready = Queue /\ unacked = {} /\ nextTag = 1 /\ channel = "open"
    /\ buffer = <<>>
    /\ batch = <<>> /\ bulk = "idle" /\ rejected = {} /\ current = TRUE
    /\ written = {} /\ reported = {}
    /\ failures = 0 /\ rejects = 0 /\ losses = 0 /\ crashes = 0

Mishaps == failures + rejects + losses + crashes
MayFail(count, limit) == count < limit /\ Mishaps < MaxMishaps

MsgsOf(deliveries) == {deliveries[i].msg : i \in DOMAIN deliveries}

\* The broker puts deliveries back where they came from.
InTagOrder(deliveries) ==
    {s \in [1 .. Cardinality(deliveries) -> deliveries] :
        ToSet(s) = deliveries /\ \A i, j \in DOMAIN s : i < j => s[i].tag < s[j].tag}
Requeue(deliveries) ==
    \E ordered \in InTagOrder(deliveries) :
        ready' = [i \in DOMAIN ordered |-> ordered[i].msg] \o ready

-----------------------------------------------------------------------------
(* Consuming *)

Window_Unbounded == TRUE  \* mutant: no ch.prefetch
Window == Cardinality(unacked) < prefetch

Deliver ==
    /\ channel = "open"
    /\ ready # <<>>
    /\ Window
    /\ LET delivery == [tag |-> nextTag, msg |-> Head(ready)]
       IN /\ unacked' = unacked \cup {delivery}
          /\ buffer' = Append(buffer, delivery)
    /\ nextTag' = nextTag + 1
    /\ ready' = Tail(ready)
    /\ UNCHANGED <<settings, channel, bulkVars, store, bounds>>

\* The cargo hands over what is waiting; it is paused while the channel is gone.
StartBulk ==
    /\ channel = "open"
    /\ bulk = "idle"
    /\ buffer # <<>>
    /\ LET n == IF Len(buffer) < prefetch THEN Len(buffer) ELSE prefetch
       IN /\ batch' = SubSeq(buffer, 1, n)
          /\ buffer' = SubSeq(buffer, n + 1, Len(buffer))
    /\ bulk' = "sent"
    /\ current' = TRUE
    /\ UNCHANGED <<settings, brokerVars, rejected, store, bounds>>

\* Elasticsearch executes the request, item by item.
ExecuteBulk ==
    /\ bulk = "sent"
    /\ \E bad \in SUBSET DOMAIN batch :
        /\ bad # {} => MayFail(rejects, MaxRejects)
        /\ rejects' = IF bad # {} THEN rejects + 1 ELSE rejects
        /\ rejected' = bad
        /\ written' = written \cup {batch[i].msg : i \in DOMAIN batch \ bad}
    /\ bulk' = "done"
    /\ UNCHANGED <<settings, brokerVars, buffer, batch, current, reported, failures, losses, crashes>>

\* The request fails as a whole, before or after part of it was executed.
FailBulk ==
    /\ bulk = "sent"
    /\ MayFail(failures, MaxFailures)
    /\ failures' = failures + 1
    /\ \E some \in SUBSET MsgsOf(batch) : written' = written \cup some
    /\ bulk' = "failed"
    /\ UNCHANGED <<settings, brokerVars, buffer, batch, rejected, current, reported, rejects, losses, crashes>>

EndBatch == batch' = <<>> /\ bulk' = "idle" /\ rejected' = {} /\ UNCHANGED current

-----------------------------------------------------------------------------
(* Settling *)

SettledByAckAll_Forgotten == {}  \* mutant: an answer without errors is not acknowledged
SettledByAckAll == unacked

\* onResponse without errors: ackAll.
AckAll ==
    /\ bulk = "done" /\ rejected = {} /\ current
    /\ unacked' = unacked \ SettledByAckAll
    /\ EndBatch
    /\ UNCHANGED <<settings, ready, nextTag, channel, buffer, store, bounds>>

NackAll_Discarded(deliveries) == ready' = ready  \* mutant: nackAll(false)
NackAllRequeues(deliveries) == Requeue(deliveries)

\* onError: nackAll puts every unsettled delivery back, those still in the cargo
\* included; they stay in the cargo.
NackAll ==
    /\ bulk = "failed" /\ current
    /\ NackAllRequeues(unacked)
    /\ unacked' = {}
    /\ EndBatch
    /\ UNCHANGED <<settings, nextTag, channel, buffer, store, bounds>>

\* The delivery that messageMap has for an item: the last one of its id.
Target(i) == CHOOSE j \in DOMAIN batch :
                /\ DocOf[batch[j].msg] = DocOf[batch[i].msg]
                /\ \A k \in DOMAIN batch : DocOf[batch[k].msg] = DocOf[batch[i].msg] => k <= j
TagOf(i) == batch[Target(i)].tag
KnownTag(tag) == \E d \in unacked : d.tag = tag

\* ackOrNack settles items one by one; a tag that is not outstanding, or was
\* settled by an earlier item, makes the broker close the channel.
FirstBad ==
    LET bad == {i \in DOMAIN batch :
                   ~KnownTag(TagOf(i)) \/ \E k \in 1 .. i - 1 : TagOf(k) = TagOf(i)}
    IN IF bad = {} THEN Len(batch) + 1 ELSE CHOOSE i \in bad : \A k \in bad : i <= k
Settled == {d \in unacked : \E i \in 1 .. FirstBad - 1 : TagOf(i) = d.tag}
Nacked == {d \in unacked : \E i \in 1 .. FirstBad - 1 : TagOf(i) = d.tag /\ i \in rejected}

AckOrNack ==
    /\ bulk = "done" /\ rejected # {} /\ current /\ idsMatch
    /\ IF FirstBad > Len(batch)
       THEN /\ Requeue(Nacked)
            /\ unacked' = unacked \ Settled
            /\ UNCHANGED channel
       ELSE /\ Requeue(unacked \ (Settled \ Nacked))
            /\ unacked' = {}
            /\ channel' = "closed"
    /\ EndBatch
    /\ UNCHANGED <<settings, nextTag, buffer, store, bounds>>

\* No item finds its message: an error is logged for each, nothing is settled.
LogIndexingErrors ==
    /\ bulk = "done" /\ rejected # {} /\ current /\ ~idsMatch
    /\ reported' = reported \cup {batch[i].msg : i \in rejected}
    /\ EndBatch
    /\ UNCHANGED <<settings, brokerVars, buffer, written, bounds>>

-----------------------------------------------------------------------------
(* Failures *)

\* The process ends: its memory is gone, the broker takes its deliveries back.
Stop ==
    /\ Requeue(unacked)
    /\ unacked' = {}
    /\ channel' = "down"
    /\ buffer' = <<>>
    /\ batch' = <<>> /\ bulk' = "idle" /\ rejected' = {} /\ current' = TRUE
    /\ UNCHANGED <<nextTag, store>>

Crash ==
    /\ channel # "down"
    /\ MayFail(crashes, MaxCrashes)
    /\ crashes' = crashes + 1
    /\ Stop
    /\ UNCHANGED <<settings, failures, rejects, losses>>

\* Settling on a channel that is gone throws, in the handler of that error again:
\* an unhandled rejection, which ends the process.
SettleOnLostChannel ==
    /\ bulk \in {"done", "failed"} /\ ~current
    /\ Stop
    /\ UNCHANGED <<settings, bounds>>

\* The connection closes: the cargo is paused until amqpConnect succeeded.
LoseConnection ==
    /\ channel = "open"
    /\ MayFail(losses, MaxLosses)
    /\ losses' = losses + 1
    /\ Requeue(unacked)
    /\ unacked' = {}
    /\ channel' = "lost"
    /\ current' = FALSE
    /\ UNCHANGED <<settings, nextTag, buffer, batch, bulk, rejected, store, failures,
                   rejects, crashes>>

\* A new channel, whose tags start again at 1.
Reconnect ==
    /\ channel = "lost"
    /\ channel' = "open"
    /\ nextTag' = 1
    /\ UNCHANGED <<settings, ready, unacked, buffer, bulkVars, store, bounds>>

\* A channel the broker closed is not reopened.  Nothing handles its error event;
\* the process may end of it.
DieOfChannelError ==
    /\ channel = "closed"
    /\ Stop
    /\ UNCHANGED <<settings, bounds>>

\* handleWorkerDisconnect of the master forks the worker again.
Relaunch ==
    /\ channel = "down"
    /\ channel' = "open"
    /\ nextTag' = 1
    /\ UNCHANGED <<settings, ready, unacked, buffer, bulkVars, store, bounds>>

-----------------------------------------------------------------------------
Settle == AckAll \/ NackAll \/ AckOrNack \/ LogIndexingErrors \/ SettleOnLostChannel
Return == Reconnect \/ Relaunch

Next ==
    \/ Deliver
    \/ StartBulk
    \/ ExecuteBulk
    \/ FailBulk
    \/ Settle
    \/ Crash
    \/ LoseConnection
    \/ DieOfChannelError
    \/ Return

Spec == Init /\ [][Next]_vars

FairSpec ==
    Spec /\ WF_vars(Deliver) /\ WF_vars(StartBulk) /\ WF_vars(ExecuteBulk) /\ WF_vars(Settle)
         /\ WF_vars(Return)

-----------------------------------------------------------------------------
(* Properties *)

Deliveries == [tag : Nat \ {0}, msg : Msgs]

\* Broker and process state keep their types.
TypeOK ==
    /\ ready \in Seq(Msgs)
    /\ unacked \subseteq Deliveries /\ nextTag \in Nat \ {0}
    /\ channel \in {"open", "lost", "closed", "down"}
    /\ buffer \in Seq(Deliveries) /\ batch \in Seq(Deliveries)
    /\ bulk \in {"idle", "sent", "done", "failed"}
    /\ (bulk = "idle") <=> (batch = <<>>)
    /\ rejected \subseteq DOMAIN batch /\ current \in BOOLEAN
    /\ written \subseteq Msgs /\ reported \subseteq Msgs
    /\ idsMatch \in IdsMatch /\ prefetch \in Prefetches
    /\ failures \in 0 .. MaxFailures /\ rejects \in 0 .. MaxRejects
    /\ losses \in 0 .. MaxLosses /\ crashes \in 0 .. MaxCrashes

Held == ToSet(ready) \cup {d.msg : d \in unacked}
InMemory == MsgsOf(buffer) \cup MsgsOf(batch)
Lost == Msgs \ (Held \cup InMemory \cup written)

\* Without failures the early acknowledgements do no harm.  With them, each
\* failure loses no more than a prefetch of messages: what ackAll had settled
\* before it was written.
LossBounded == Cardinality(Lost) <= prefetch * Mishaps

\* Unless the process ends, a bulk request that fails or is rejected in part loses
\* nothing: what was not written is put back ("NackAll", "nack id").
NothingLost == crashes = 0 => Lost = {}

\* Every message that is not lost is written, unless the broker closed the channel,
\* or the answer to a request for blocks had errors and settled nothing.
AllWritten ==
    <>(channel = "closed" \/ (~idsMatch /\ rejects > 0) \/ Msgs = written \cup Lost)

\* An item of the answer would settle the delivery of another message, whose tag its
\* own delivery of an earlier channel had, or which writes the same document.
Misdirected == \E i \in DOMAIN batch, d \in unacked : TagOf(i) = d.tag /\ d.msg # batch[i].msg
SharedDocument == \E m, n \in Msgs : m # n /\ DocOf[m] = DocOf[n]

\* The ingestor implements the contract of its queue: a message only leaves it when
\* it was written, is still in the ingestor's memory or its rejection was logged, and
\* never returns; unless an answer is misdirected, which takes the loss of a connection
\* with deliveries in the cargo, or messages of the same document.
Contract == INSTANCE IngestContract WITH pending <- Held, held <- InMemory, misdirected <- Misdirected
ContractKept == Contract!Spec /\ [](Misdirected => losses > 0 \/ SharedDocument)
=============================================================================
