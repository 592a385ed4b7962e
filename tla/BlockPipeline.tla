--------------------------- MODULE BlockPipeline ---------------------------
(***************************************************************************)
(* The two workers between the readers' block queue and the ingestors'     *)
(* index queues.  The deserializer (src/indexer/workers/deserializer.ts)   *)
(* takes a block, publishes its delta documents, routes its transaction    *)
(* traces to a ds_pool queue, publishes the light block and acknowledges.  *)
(* A pool worker (src/indexer/workers/ds-pool.ts) turns a trace into       *)
(* action documents.                                                       *)
(*                                                                         *)
(* A block stands for one document of each kind and one trace.  Each       *)
(* worker has one AMQP channel; what it writes reaches the broker in       *)
(* order, and is lost with the connection.  A channel's delivery tags      *)
(* start at 1, so a delivery that outlives its channel is acknowledged     *)
(* under a tag that means something else, or nothing, on the next one.     *)
(***************************************************************************)
EXTENDS Integers, SequencesExt, FiniteSets

CONSTANTS
    NumBlocks,   \* blocks the readers published
    Prefetch,    \* prefetch.block
    TxCache,     \* values of ~api.disable_tx_cache to consider
    MaxMishaps,  \* bound: lost connections, and crashes not caused by a closed channel
    MaxFulls     \* bound: how often the deserializer's write buffer fills

ASSUME PipelineAssumption ==
    /\ NumBlocks \in Nat /\ Prefetch \in Nat \ {0} /\ TxCache \subseteq BOOLEAN
    /\ MaxMishaps \in Nat /\ MaxFulls \in Nat

Blocks == 1 .. NumBlocks
Workers == {"ds", "pool"}
Docs == {"delta", "action", "block"} \X Blocks

VARIABLES
    \* broker
    ready,        \* block queue and ds_pool queue, by the worker that consumes it
    unacked,      \* deliveries of each worker that are not settled
    nextTag,      \* next delivery tag of each channel
    docs,         \* documents that reached an index queue
    \* channels
    chan,         \* "open", "lost" (reconnecting), "closed" by the broker, "down"
    wire,         \* what each worker wrote and the broker has not read
    \* both workers
    memory,       \* consumerQueue: deliveries not processed, the current one first
    step,         \* what the current delivery waits for
    \* deserializer
    waitToSend, backpressure,
    full,         \* the channel's write buffer is full: it owes a 'drain'
    dropped,      \* history: traces routeToPool gave up
    \* pool worker
    jammed,       \* the current task of preIndexingQueue never called back
    txCache,
    losses, crashes, fulls

brokerVars == <<ready, unacked, nextTag, docs>>
dsVars == <<waitToSend, backpressure, full, dropped>>
bounds == <<losses, crashes, fulls>>
vars == <<brokerVars, chan, wire, memory, step, dsVars, jammed, txCache, bounds>>

Doc(kind, b) == [op |-> "doc", doc |-> <<kind, b>>]
Trace(b) == [op |-> "trace", block |-> b]
Ack(d) == [op |-> "ack", tag |-> d.tag]

Init ==
    /\ ready = [w \in Workers |-> IF w = "ds" THEN [b \in Blocks |-> b] ELSE <<>>]
    /\ unacked = [w \in Workers |-> {}]
    /\ nextTag = [w \in Workers |-> 1]
    /\ docs = {}
    /\ chan = [w \in Workers |-> "open"]
    /\ wire = [w \in Workers |-> <<>>]
    /\ memory = [w \in Workers |-> <<>>]
    /\ step = [w \in Workers |-> "idle"]
    /\ waitToSend = FALSE /\ backpressure = <<>> /\ full = FALSE /\ dropped = {}
    /\ jammed = FALSE
    /\ txCache \in TxCache
    /\ losses = 0 /\ crashes = 0 /\ fulls = 0

Write(w, ops) == wire' = [wire EXCEPT ![w] = @ \o ops]
Current(w) == Head(memory[w])

NextDelivery(w) ==
    /\ memory' = [memory EXCEPT ![w] = Tail(@)]
    /\ step' = [step EXCEPT ![w] = "idle"]

-----------------------------------------------------------------------------
(* Deserializer *)

\* processDeltas awaits each document's turn in preIndexingQueue, which is paused
\* while there is no channel; rows that follow may await an ABI lookup.
PublishDeltas ==
    /\ memory["ds"] # <<>> /\ step["ds"] = "idle"
    /\ chan["ds"] = "open"
    /\ Write("ds", <<Doc("delta", Current("ds").block)>>)
    /\ step' = [step EXCEPT !["ds"] = "traces"]
    /\ UNCHANGED <<brokerVars, chan, memory, dsVars, jammed, txCache, bounds>>

Backpressure_Dropped(b) == backpressure  \* mutant: no backpressureQueue
Backpressure(b) == Append(backpressure, b)

\* routeToPool.
RouteTrace ==
    /\ step["ds"] = "traces"
    /\ LET b == Current("ds").block
       IN \/ /\ waitToSend
             /\ backpressure' = Backpressure(b)
             /\ UNCHANGED <<wire, waitToSend, dropped>>
          \/ /\ ~waitToSend /\ chan["ds"] = "open"
             /\ Write("ds", <<Trace(b)>>)
             /\ waitToSend' = full
             /\ UNCHANGED <<backpressure, dropped>>
          \/ /\ ~waitToSend /\ chan["ds"] # "open"
             /\ dropped' = dropped \cup {b}
             /\ UNCHANGED <<wire, waitToSend, backpressure>>
    /\ step' = [step EXCEPT !["ds"] = "block"]
    /\ UNCHANGED <<brokerVars, chan, memory, full, jammed, txCache, bounds>>

BlockOps_AckFirst(d) == <<Ack(d), Doc("block", d.block)>>  \* mutant: ack, then push
BlockOps(d) == <<Doc("block", d.block), Ack(d)>>

\* pushToBlocksQueue, and the acknowledgement in parseMessage that its callback
\* leads to before the process does anything else.
FinishBlock ==
    /\ step["ds"] = "block"
    /\ chan["ds"] = "open"
    /\ Write("ds", BlockOps(Current("ds")))
    /\ NextDelivery("ds")
    /\ UNCHANGED <<brokerVars, chan, dsVars, jammed, txCache, bounds>>

FillBuffer ==
    /\ chan["ds"] = "open" /\ ~full
    /\ fulls < MaxFulls
    /\ fulls' = fulls + 1
    /\ full' = TRUE
    /\ UNCHANGED <<brokerVars, chan, wire, memory, step, waitToSend, backpressure, dropped,
                   jammed, txCache, losses, crashes>>

WaitsAfterDrain_Always(again) == TRUE  \* mutant: the handler does not reset waitToSend
WaitsAfterDrain(again) == again

\* The 'drain' handler of initConsumer sends until the buffer is full again.
Drain ==
    /\ chan["ds"] = "open" /\ full
    /\ \E k \in 0 .. Len(backpressure), again \in BOOLEAN :
        /\ again => k > 0 /\ fulls < MaxFulls
        /\ ~again => k = Len(backpressure)
        /\ Write("ds", [i \in 1 .. k |-> Trace(backpressure[i])])
        /\ backpressure' = SubSeq(backpressure, k + 1, Len(backpressure))
        /\ waitToSend' = WaitsAfterDrain(again)
        /\ full' = again
        /\ fulls' = IF again THEN fulls + 1 ELSE fulls
    /\ UNCHANGED <<brokerVars, chan, memory, step, dropped, jammed, txCache, losses, crashes>>

-----------------------------------------------------------------------------
(* Pool worker *)

\* What is written for a delivery before the process waits again: the acknowledgement,
\* if that does not wait for Redis, and what preIndexingQueue has its turn for in the same
\* round of the event loop.  A task of preIndexingQueue that finds no channel never calls
\* back, so no other task follows it, on the next channel either.
AckOps(d) == IF txCache THEN <<>> ELSE <<Ack(d)>>
ActionOps(d) == IF jammed THEN <<>> ELSE <<Doc("action", d.block)>>
Written(d) == AckOps(d) \o ActionOps(d)

ProcessTrace ==
    /\ memory["pool"] # <<>> /\ step["pool"] = "idle"
    /\ IF chan["pool"] = "open"
       THEN Write("pool", Written(Current("pool"))) /\ UNCHANGED jammed
       ELSE jammed' = TRUE /\ UNCHANGED wire
    /\ IF txCache
       THEN step' = [step EXCEPT !["pool"] = "redis"] /\ UNCHANGED memory
       ELSE NextDelivery("pool")
    /\ UNCHANGED <<brokerVars, chan, dsVars, txCache, bounds>>

\* Redis has answered.
AckTrace ==
    /\ step["pool"] = "redis"
    /\ IF chan["pool"] = "open"
       THEN Write("pool", <<Ack(Current("pool"))>>)
       ELSE UNCHANGED wire
    /\ NextDelivery("pool")
    /\ UNCHANGED <<brokerVars, chan, dsVars, jammed, txCache, bounds>>

-----------------------------------------------------------------------------
(* Broker *)

Window(w) == Cardinality(unacked[w]) < Prefetch

Deliver(w) ==
    /\ chan[w] = "open"
    /\ ready[w] # <<>>
    /\ Window(w)
    /\ LET d == [tag |-> nextTag[w], block |-> Head(ready[w])]
       IN /\ unacked' = [unacked EXCEPT ![w] = @ \cup {d}]
          /\ memory' = [memory EXCEPT ![w] = Append(@, d)]
    /\ ready' = [ready EXCEPT ![w] = Tail(@)]
    /\ nextTag' = [nextTag EXCEPT ![w] = @ + 1]
    /\ UNCHANGED <<docs, chan, wire, step, dsVars, jammed, txCache, bounds>>

\* What is not settled goes back to the front of the queue, in the order of the tags.
Requeue(w) ==
    /\ \E ordered \in Surjection(1 .. Cardinality(unacked[w]), unacked[w]) :
        /\ \A i, j \in DOMAIN ordered : i < j => ordered[i].tag < ordered[j].tag
        /\ ready' = [ready EXCEPT ![w] = [i \in DOMAIN ordered |-> ordered[i].block] \o @]
    /\ unacked' = [unacked EXCEPT ![w] = {}]

Reads(w, op) == wire[w] # <<>> /\ Head(wire[w]).op = op
TakeOp(w) == wire' = [wire EXCEPT ![w] = Tail(@)]
Acked(w) == {d \in unacked[w] : d.tag = Head(wire[w]).tag}

StoreDoc(w) ==
    /\ Reads(w, "doc")
    /\ TakeOp(w)
    /\ docs' = docs \cup {Head(wire[w]).doc}
    /\ UNCHANGED <<ready, unacked, nextTag, chan, memory, step, dsVars, jammed, txCache, bounds>>

QueueTrace(w) ==
    /\ Reads(w, "trace")
    /\ TakeOp(w)
    /\ ready' = [ready EXCEPT !["pool"] = Append(@, Head(wire[w]).block)]
    /\ UNCHANGED <<unacked, nextTag, docs, chan, memory, step, dsVars, jammed, txCache, bounds>>

Settle(w) ==
    /\ Reads(w, "ack")
    /\ Acked(w) # {}
    /\ TakeOp(w)
    /\ unacked' = [unacked EXCEPT ![w] = @ \ Acked(w)]
    /\ UNCHANGED <<ready, nextTag, docs, chan, memory, step, dsVars, jammed, txCache, bounds>>

\* A tag that is not outstanding: the broker closes the channel.
RefuseAck(w) ==
    /\ Reads(w, "ack")
    /\ Acked(w) = {}
    /\ Requeue(w)
    /\ chan' = [chan EXCEPT ![w] = "closed"]
    /\ wire' = [wire EXCEPT ![w] = <<>>]
    /\ full' = (full /\ w # "ds")
    /\ UNCHANGED <<nextTag, docs, memory, step, waitToSend, backpressure, dropped, jammed,
                   txCache, bounds>>

LoseConnection(w) ==
    /\ chan[w] = "open"
    /\ losses + crashes < MaxMishaps
    /\ losses' = losses + 1
    /\ Requeue(w)
    /\ chan' = [chan EXCEPT ![w] = "lost"]
    /\ wire' = [wire EXCEPT ![w] = <<>>]
    /\ full' = (full /\ w # "ds")
    /\ UNCHANGED <<nextTag, docs, memory, step, waitToSend, backpressure, dropped, jammed,
                   txCache, crashes, fulls>>

\* amqpConnect has new channels; the worker keeps everything it had in memory.
Reconnect(w) ==
    /\ chan[w] = "lost"
    /\ chan' = [chan EXCEPT ![w] = "open"]
    /\ nextTag' = [nextTag EXCEPT ![w] = 1]
    /\ UNCHANGED <<ready, unacked, docs, wire, memory, step, dsVars, jammed, txCache, bounds>>

-----------------------------------------------------------------------------
(* Processes *)

Stop(w) ==
    /\ Requeue(w)
    /\ chan' = [chan EXCEPT ![w] = "down"]
    /\ wire' = [wire EXCEPT ![w] = <<>>]
    /\ memory' = [memory EXCEPT ![w] = <<>>]
    /\ step' = [step EXCEPT ![w] = "idle"]
    /\ \/ /\ w = "ds"
          /\ waitToSend' = FALSE /\ backpressure' = <<>> /\ full' = FALSE
          /\ UNCHANGED jammed
       \/ /\ w = "pool"
          /\ jammed' = FALSE
          /\ UNCHANGED <<waitToSend, backpressure, full>>
    /\ UNCHANGED <<nextTag, docs, dropped, txCache>>

Crash(w) ==
    /\ chan[w] # "down"
    /\ losses + crashes < MaxMishaps
    /\ crashes' = crashes + 1
    /\ Stop(w)
    /\ UNCHANGED <<losses, fulls>>

\* Nothing listens to the error of a closed channel; the process may end of it.
DieOfChannelError(w) ==
    /\ chan[w] = "closed"
    /\ crashes' = crashes + 1
    /\ Stop(w)
    /\ UNCHANGED <<losses, fulls>>

Relaunch(w) ==
    /\ chan[w] = "down"
    /\ chan' = [chan EXCEPT ![w] = "open"]
    /\ nextTag' = [nextTag EXCEPT ![w] = 1]
    /\ UNCHANGED <<ready, unacked, docs, wire, memory, step, dsVars, jammed, txCache, bounds>>

-----------------------------------------------------------------------------
DsStep == PublishDeltas \/ RouteTrace \/ FinishBlock
PoolStep == ProcessTrace \/ AckTrace
BrokerStep(w) == Deliver(w) \/ StoreDoc(w) \/ QueueTrace(w) \/ Settle(w) \/ RefuseAck(w)
Return(w) == Reconnect(w) \/ Relaunch(w)

Next ==
    \/ DsStep
    \/ FillBuffer
    \/ Drain
    \/ PoolStep
    \/ \E w \in Workers :
        \/ BrokerStep(w)
        \/ LoseConnection(w)
        \/ Crash(w)
        \/ DieOfChannelError(w)
        \/ Return(w)

Spec == Init /\ [][Next]_vars

\* Workers and broker go on, buffers empty, connections and processes come back.
FairSpec ==
    /\ Spec
    /\ WF_vars(DsStep) /\ WF_vars(Drain) /\ WF_vars(PoolStep)
    /\ \A w \in Workers :
        /\ WF_vars(Deliver(w))
        /\ WF_vars(StoreDoc(w) \/ QueueTrace(w) \/ Settle(w) \/ RefuseAck(w))
        /\ WF_vars(Return(w))

-----------------------------------------------------------------------------
(* Properties *)

Deliveries == [tag : Nat \ {0}, block : Blocks]
Ops == [op : {"doc"}, doc : Docs] \cup [op : {"trace"}, block : Blocks] \cup
       [op : {"ack"}, tag : Nat \ {0}]

\* Broker, channels and both processes keep their types.
TypeOK ==
    /\ ready \in [Workers -> Seq(Blocks)]
    /\ unacked \in [Workers -> SUBSET Deliveries]
    /\ nextTag \in [Workers -> Nat \ {0}]
    /\ docs \subseteq Docs
    /\ chan \in [Workers -> {"open", "lost", "closed", "down"}]
    /\ wire \in [Workers -> Seq(Ops)]
    /\ memory \in [Workers -> Seq(Deliveries)]
    /\ step["ds"] \in {"idle", "traces", "block"} /\ step["pool"] \in {"idle", "redis"}
    /\ \A w \in Workers : step[w] # "idle" => memory[w] # <<>>
    /\ waitToSend \in BOOLEAN /\ full \in BOOLEAN /\ jammed \in BOOLEAN
    /\ backpressure \in Seq(Blocks)
    /\ dropped \subseteq Blocks /\ txCache \in TxCache
    /\ losses \in 0 .. MaxMishaps /\ crashes \in 0 .. 2 * MaxMishaps
    /\ fulls \in 0 .. MaxFulls

\* The broker will deliver block b, or its trace, to w (again).
Owed(w, b) == b \in ToSet(ready[w]) \/ \E d \in unacked[w] : d.block = b
InMemory(w, b) == \E i \in DOMAIN memory[w] : memory[w][i].block = b
Published(kind, b) ==
    <<kind, b>> \in docs \/ \E w \in Workers : Doc(kind, b) \in ToSet(wire[w])

\* A block that left its queue left its documents behind, whatever process
\* crashes: its acknowledgement follows them on the same channel.  A lost connection
\* alone does not break it either, while the block is in memory; with another mishap
\* (a crash, a channel closed over a stale tag) the stale tag has settled too much.
BlockAccounted ==
    losses = 0 \/ (losses + crashes = 1 /\ chan["ds"] # "closed") =>
        \A b \in Blocks :
            \/ Owed("ds", b) \/ InMemory("ds", b)
            \/ Published("delta", b) /\ Published("block", b)

TraceAhead(b) ==
    \/ Owed("ds", b) \/ InMemory("ds", b)
    \/ Trace(b) \in ToSet(wire["ds"]) \/ b \in ToSet(backpressure)
    \/ Owed("pool", b)

\* No trace is lost between the two workers while connections hold: until its
\* action documents are published it is on its way to the pool.  A crash takes
\* what backpressureQueue holds, whose blocks are settled already, and without
\* the transaction cache what the pool acknowledged before it was published.
TraceAccounted ==
    losses = 0 /\ (crashes = 0 \/ (fulls = 0 /\ txCache)) =>
        \A b \in Blocks : TraceAhead(b) \/ Published("action", b)

\* Everything reaches the index queues, or one of the known traps was sprung: a
\* trace given up without a channel, a pool worker that stopped publishing, a
\* channel the broker closed, a stale tag before a crash, or a mishap that met work
\* settled too early: traces behind a full write buffer (which then wait for a
\* 'drain' that the next channel does not owe), and without the transaction cache
\* actions not published yet.
AllIndexed ==
    <>(\/ docs = Docs
       \/ dropped # {} \/ jammed
       \/ \E w \in Workers : chan[w] = "closed"
       \/ losses > 0 /\ crashes > 0
       \/ losses + crashes > 0 /\ (fulls > 0 \/ ~txCache))
=============================================================================
