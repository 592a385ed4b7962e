# Hyperion History API: a verification project

TLA+ models of the Hyperion indexer, its tools and its API, configurations that check
them with TLC, and theorems that TLAPS proves about them. Everything here was written
from the TypeScript sources under `src/src/`; line numbers refer to them.
`PROJECT.json` is the index: components, runs, the source lines every definition stands
for, mutants, findings, hazards and theorems.

Contents

1. The system and its components
2. How the project is laid out
3. Modules and how they correspond to the code
4. Runs, bounds and what they show
5. Fairness
6. What is proved
7. Disagreements with the code's own statements, and other observations
8. What is not modelled

## 1. The system and its components

Hyperion reads blocks of an Antelope chain from a state-history server (SHIP), indexes
them into Elasticsearch and MongoDB, and answers queries and live streams over an API.

    nodeos SHIP --websocket--> readers --RabbitMQ--> deserializers --RabbitMQ--> ds_pool
                                  ^                        |                        |
                                  | IPC                    +-------- RabbitMQ ------+
                               master                                   |
                                  | IPC                                  v
                          queue monitor, controller         ingestors --> Elasticsearch, MongoDB
                                  |                                           |
                               router <--websocket (relay)--> API process <---+--> clients

The processes share nothing but messages: Node's IPC between the master and each worker,
RabbitMQ queues between the workers, websockets at the edges. Each process is one event
loop, so what is atomic is the code between two awaits or two callbacks.

### The path of a block

**Range readers and their assignment** (`indexer/modules/master.ts` setupReaders,
`completed`, `update_last_assigned_block`, handleWorkerDisconnect;
`indexer/workers/state-reader.ts` newRange, signalReaderCompletion).
State: `lastAssignedBlock`, `activeReadersCount`, the worker map; in a reader its range,
`local_block_num`, `local_distributed_count`, `allowRequests`, `pendingRequest`.
Hard: completions, crashes, pauses and relaunches in any order; a message to a dead
process is lost, its own messages are not. Correct when no block is read by two readers,
none is forgotten, nothing past the head is assigned, and the back-fill ends.

**SHIP reader session** (`state-reader.ts`, `connections/state-history.ts`,
`connections/amqp.ts`). State: two cargo queues, the ABI, the recovery flag,
`local_block_num`, the confirm channel with its unconfirmed list. Hard: both connections
drop between any two steps; messages of the old websocket are still in memory. Correct
when there is no gap, `completed` is only sent when published, and it makes progress.

**Fork handling** (`state-reader.ts` registerReversibleBlock, handleForkedBlocks,
removeForkedBlocks, cleanReversibleBlocks). State: `reversibleBlockMap`, `forkedBlocks`,
`forkHandlingMode`, `forkHandlingTimeout`. Hard: every await of a pass interleaves with
new blocks, timers and other passes. Correct when no fork is forgotten and no block of
the chain is deleted.

**Deserializer and ds_pool workers** (`indexer/workers/deserializer.ts`, `ds-pool.ts`,
`indexer/modules/parsers/*`). State: the channel, `waitToSend`, `backpressureQueue`, the
pool worker's document queues. Hard: what is written to a channel is lost with its
connection, acknowledgements refer to tags of a channel that may be gone. Correct when
what leaves a queue has left its documents.

**Routing of contracts** (`deserializer.ts` routeToPool, `ds-pool.ts` contract_usage,
`master.ts` updateWorkerAssignments) and **ABI retrieval** (`hyperionWorker.ts`, the two
workers): which pool worker gets a trace, with which ABI it is decoded. Hard: maps and
counters of three processes are updated at different times; four caches hold an ABI.

**Ingestor** (`indexer/workers/indexer.ts`, `helpers/elastic-routes.ts`). State: the
channel's unsettled deliveries, the cargo, the bulk request, `messageMap`. Hard:
requests, connection and process fail independently; `ackAll` settles what has not been
sent yet. Correct when a message leaves the queue only if written.

**Tables of deltas** (`deserializer.ts` delta handlers, `helpers/mongo-routes.ts`, the
generic route of `elastic-routes.ts`). Hard: rows spread over queues and workers arrive in
any order, and only Elasticsearch compares block numbers. Correct when a document ends
with the values of the last block that changed it.

**Index lifecycle** (`modules/lifecycleManager.ts`). Hard: it decides by counts of
documents that a search may not see yet. Correct when it removes nothing it must retain.

### Control

**Master** (`master.ts` runMaster, `indexerMonitor.ts`): start-up in stages, launch and
relaunch of workers, cycles of five seconds that count idleness, shutdown timers, the
switch of modes, the graceful stop; **live blocks and schedules** (onLiveBlock): missed
blocks and rounds per producer.

**Control commands** (`modules/controller.ts`, `cli/hyp-control.ts`, `cli/hyp-config.ts`):
pause and resume of ingestors, reload of contracts' configuration, reports of workers.
Hard: conversations of a tool, the master and several workers, each of which may end, with
timeouts on one side only.

**State tables and synchronizers** (`cli/sync-modules/*`): pause the workers of a table,
copy it from the chain, resume. Correct when a row ends up with what its last delta says,
and workers resume.

**Repair** (`cli/repair-cli/*`, `master.ts` fillMissingBlocks, sendPendingRepairRanges):
scans by bisection and by page, deletion of forks, fill requests in chunks through one
repair reader. Correct when every missing block is asked for and a stop half-way leaves
what the next scan needs.

### The API

**Live streaming** (`indexer/workers/ws-router.ts`, `api/socketManager.ts`). State: the
subscription maps, kept twice: by relay in the router and by client in the API process.
Hard: the two sides change at different times. Correct when they agree on who gets what,
and every request is answered. **Streaming of past data** (`socketManager.ts`
processStreamRequest, `api/helpers/functions.ts`): a scroll over an index that grows,
joined to the live stream without a gap.

**Queries** (`api/routes/v1-history`, `v2-history`, `api/helpers`): get_actions,
get_transaction, the proxied chain API, their caches. Correct when an answer is the page
that was asked for, no older than its cache allows.

What is not modelled is in section 8.

## 2. How the project is laid out

| component | module | composed in, refines |
|---|---|---|
| range readers | ReaderRanges | MCReaderRanges; SHIP and RabbitMQ taken as reliable |
| one reader's session | ShipStream | SHIP and RabbitMQ both unreliable |
| forks | ForkHandling | StoreWriters |
| ingestor | Ingestor | implements IngestContract; StoreWriters |
| pruning | IndexLifecycle | StoreWriters |
| deserializer and pool worker | BlockPipeline | |
| a MongoDB table and its synchronization | StateTables | |
| live streaming | Streaming | |
| missed rounds | LiveSchedule | |
| the master's life | MasterLifecycle | Operations |
| repair | RepairScan, Repair | Operations |
| routing to pool workers | ContractRouting | Operations |
| ABI retrieval | AbiCache | Operations |
| past data | PastStream | Operations |
| get_transaction | TransactionLookup, Ranks | Operations |
| get_actions and caches | HistoryApi, Ranks | Operations |
| deltas to documents | DeltaTables | Operations |
| reloads and reports | ConfigReload | Operations |
| synchronizers | Synchronizers | Operations |

StoreWriters and Operations put components side by side that share no variable in these
models; a behaviour moves one of them (`writer`, `part`), and the properties of each are
checked in one run. They do not claim anything about interactions between them.

The proofs are in ReaderRanges_proofs, ShipStream_proofs, BlockPipeline_proofs,
StateTables_proofs, Streaming_proofs, Documents_proofs (repair, the history API, lookups of
transactions), StoreWriters_proofs (the ingestor, forks, index lifecycle) and Operations_proofs (the master, the ABI cache, reloads, past data,
routing, the deltas' documents); in the last three each component has a part of its own, under its own constants' assumption. MC modules only define
values of constants.

*Mutants.* A definition `X_What` beside a definition `X` (`Idle_NotStopping` beside `Idle`)
is `X` with a bug that this code could plausibly have; no specification uses it.
`PROJECT.json` pairs each with a property, and TLC finds the property violated when `X` is
replaced by it. Every property of every passing run has one.

## 3. Modules and how they correspond to the code

The `map` of PROJECT.json gives the source lines of every definition. In outline:

**ReaderRanges.** One variable per piece of master and reader state. The IPC channels
`toMaster[r]`, `toReader[r]` are sequences. AssignNextRange, FinishReaders and RetireReader
are the branches of the master's `completed` handler; MoveAssignment is
`update_last_assigned_block`; HandleDisconnect and Relaunch are the worker's disconnect
and the five-second relaunch. TakeRange is newRange, RequestFirstRange and SkipToShipBegin
the status handler's, DistributeBlock and ConfirmBlock the publication of a block,
ReportCompletion signalReaderCompletion. PauseReaders and ResumeReaders are the queue
monitor's, GracefulStop the operator's. `ship` is SHIP's status, so that a range may start
before SHIP's first block. ConfirmBlock is the broker's answer to one block, a confirm or a
refusal: `settled` are the blocks that were answered or reached the broker before an exit,
`nacked` those it refused, of which the code only logs.

**ShipStream.** The server side is three variables (what it owes, the blocks requested,
the credit of `max_messages_in_flight`); the reader side follows onMessage,
processIncomingBlocks, handleBlockResult and recursiveDistribute, one message at a time.
`live` chooses between continuous reader and range reader. A process that exits starts
afresh with its environment. `Bares` are explored: blocks that come without block, traces and
deltas, which a range reader neither publishes nor counts (`bare`). `stale` remembers that a websocket closed while messages of
it were in memory.

**ForkHandling.** The chain has two branches and switches between them; SHIP sends a block
when it is adopted. A removal pass is a record with a step for each await of
removeForkedBlocks and handleForkedBlocks. `armed` is the timer forkHandlingTimeout refers
to, `loose` counts timers no variable refers to any more. Indexing takes as long as it likes.
`spared` is history: the ids that a pass gave up for one of three named reasons - the lib
passed the block between the chain's answer and the look at it, its deletion failed, or it was
deleted while its documents were on their way.

**IngestContract, Ingestor.** IngestContract says what any ingestor owes its queue: a
message leaves it only written, held in memory or reported, and never returns, until an
answer is misdirected. Ingestor has the broker's view (ready, unacked, tags), the process
(buffer, batch, bulk) and Elasticsearch's (written, reported). Its settlement follows
onResponse and onError of elastic-routes.ts: ackAll after an answer without errors, one by
one after an answer with errors, nackAll after a failed request. `idsMatch` is FALSE for
blocks, whose ids are numbers in messageMap and strings in the answer. `Misdirected` says
that an answer settles a delivery that is not the message's own.

**BlockPipeline.** `wire[w]` is what a worker has written to its socket and the broker has
not read; it is lost with the connection. Delivery tags restart with every channel, so an
acknowledgement of an older delivery may settle another, or close the channel. The
deserializer's `waitToSend` and `backpressureQueue` are modelled with the broker's full
buffer; the pool worker's queue of concurrency one may jam.

**StateTables.** Deltas of rows spread round-robin over the queues of the table; each
worker's cargo becomes an unordered bulk write whose operations execute in any order. The
command asks the master to pause, which tells all workers of the table; the first answer
counts. Reading a row from the chain and writing it are two steps. History variables name
what a property excepts: `excused` deltas, `escaped` and `strayed` workers.

**Streaming.** `entries` and `index` are the API process's maps, `links` and `tracked` the
router's. `toRouter` and `toApi` are the two directions of the relay, lost with its
connection; what is emitted while it is down waits, as socket.io does. A topic stands for
one table, one action, or one account. ProcessStreamRequest is validateRequest and what
follows it: a valid request is filed and sent to the router, one that is turned down is
answered ERROR (`rejected`), and one whose validation throws is only logged and never
answered (`failed`). Reconnect carries requests over or tells the client
to ask again; LeaveForGood is the five-second timer. History: `cutOff`, `untimely`, `late`.

**IndexLifecycle.** `documents` are the blocks with documents per type, `refreshed` those a
search sees. A check is a sequence of steps (prune actions, prune deltas, prune blocks,
allocate), each with its own look at the index; delete_by_query is a task that completes
later. `fib` is the first indexed block that health.ts keeps in Redis.

**LiveSchedule.** The chain gives each producer its slots; a slot may be missed. QueueRun is
what the worker of liveBlockQueue does to all the blocks queued when it runs, as a fold;
LoopTurn is one turn of the missed-round loop, which blocks the event loop.

**MasterLifecycle.** `stage` goes through runMaster's awaits; retried services have
`attempt`. The back-fill readers are several, each with what it has still to read of its range;
one live reader and one deserializer stand for their roles; each has a state in the worker map.
A reader that is relaunched reads the range of its environment, its first, again, so that what it
had left of a later one (`onLater`) is lost, and the first completion that finds nothing to
assign kills all readers: history `abandoned` are the readers that lost blocks in these ways. Cycle is the monitor's five-second tick with the
counters of the last second, the idle count, auto-stop and the shutdown timers (all of them,
though the code keeps one handle); SwitchMode kills and sets up again; `late` is a history
variable: readers launched after a stop.

**RepairScan, Repair.** RepairScan computes the four scans as functions of the block index
(a fold over pages, bisections as recursive functions, as in scan.ts). Repair
follows the tool (chunks, the state file, SIGINT), the controller's one remembered asker, the
master's pending ranges and busy flag, and the reader with its internal queue of pieces.

**ContractRouting.** Shares and capacities are kept exact by multiplying instead of dividing.
Proposed and Balanced are the three phases of updateWorkerAssignments. **AbiCache.** Row and
ProcessAction are the chains of fallbacks for rows and actions; `loaded` is the native
library's one ABI per contract, without its range of blocks.

**PastStream.** Search, Page and Decide are the awaits of streamPastCommon and its callers;
RabbitMQ's and the index's delays are AnnounceBlock, SendTraces, IndexBlock. `wish` is the
request as it came, `ask` as the code changes it. **TransactionLookup.** Execute is
processTraces: a transaction is executed once on each of two branches, and since the new branch
counts its global sequences anew from where they part, and a document's key is its sequence
(elastic-routes.ts:58, ds-pool.ts:519), documents of the two branches may overwrite each other
in the cache and in the index (SameKey), and actions of other transactions those of the first
(IndexOther); `cacheTorn` and `indexTorn` remember which execution lost one. GroupActionTraces
and RegroupActions are the two grouping functions: Heads are the actions that a group begins
with, Receipts the fold that collects a group's receipts; the properties
compare them with what was executed. **Ranks.** Sorted and Selected say what sorting by
sequence number and filtering leave: a number has the place of its rank. They stand for the
store's sort and the loops that push what they keep, and are written so that theorems can
be proved of them. **HistoryApi.** Query is the query v2 builds or the
window v1 computes, Reference what the request describes; a value of v2 is a range (`-`), a list
(`,`, `!`) or words, a memo's words being alternatives. `kept` is Redis, `chainKept` the
map of chain answers. Key is what timedQuery files an answer under: the name of the route, which
is get_actions for v1 and v2, and the JSON of the body (v1) or of the query (v2); `clients` are
requests made side by side. Its header names the parameters that are left out. **DeltaTables.** HandleDelta is a deserializer's handler (filters,
counters, queue); GenericRoute, DeltaRoute, StateRoute and TableRoute write a cargo. Its
ChainAssumption is what nodeos and SHIP give: a block has one delta of a permission and of a link,
and no permission is gone at the end of a block while an action is still linked to it (`deleteauth` is
refused as long as one is). Nothing is assumed of the order of the deltas within a block.

**ConfigReload.** A tool's write of the file has two steps (a reader in between finds it
torn); orders and replies are IPC channels; `pendingReloadPromises` and `waits` are the
master's promises. **Synchronizers.** One command: requests, the cargo, bulk writes, and the
five ways the tools end.

## 4. Runs, bounds and what they show

| run | module | expectation |
|---|---|---|
| ranges | MCReaderRanges | pass |
| ranges_kill | MCReaderRanges | FinishedMeansPublished violated |
| stream | ShipStream | pass |
| stream_reconnect | ShipStream | CompletedMeansPublished violated |
| writers | MCStoreWriters | pass |
| forks_reapplied | ForkHandling | KeepsCanonical violated |
| ingest_nackall | MCIngestor | NothingLost violated |
| pipeline | BlockPipeline | pass |
| tables | StateTables | pass |
| streaming | Streaming | pass |
| missed_round | LiveSchedule | RoundMissedOnce violated |
| operations | MCOperations | pass |

*ranges.* Two readers, five blocks in batches of two, one crash, one pause, and three
statuses of SHIP: it has everything, it begins in the middle of the first reader's range, or
after it. Ranges stay disjoint (NoSharedBlock) and below the head (NothingPastHead); an
assigned block is settled with the broker or some reader is on its way to it, after a crash as
far as a first range and an armed relaunch are concerned (NoBlockForgotten; a block that the broker
refuses, one at a time, is only logged by the code and counts as settled); the back-fill ends
(BackfillEnds). Five blocks give an uneven last range, a second assignment for one reader
and a reader that is dismissed; one crash and one pause suffice for every handler to meet
both, and the theorems of section 6 lift its three safety properties to all values.

*stream.* Four blocks, the first absent, with and without one that comes bare, both roles, two websocket losses, one AMQP loss.
NoGap, RangeCompletes, LiveCatchesUp; RangeCompletes excepts a range with a bare block, whose
count is never reached. Two websocket losses let messages of two old sessions
meet a third; the first block is missing because a chain's block log may begin there. NoGap is
a theorem for all values.

*writers.* **Ingestor**: four messages, a prefetch of two or three, ids that match and that
do not, any two of a failed request, a rejected item, a lost connection and a crash:
LossBounded, ContractKept (the refinement of IngestContract), IngestorWrites. Four messages
are two full requests with a prefetch of two, so that a request, a cargo that waits and a
queue coexist; a prefetch of three gives requests of different sizes. Mishaps in pairs cover
a loss whose old answer meets the new channel. **ForkHandling**: four blocks, a fork at the
second, two changes of branch, two passes, one failed call, two messages in flight, a lib that
goes up to the fork: NoForkForgotten, KeepsCanonicalOnce,
MapFollowsChain, ForksCleaned. Two changes bring a branch back, two passes overlap, and the lib
passes the fork before, during and after a pass. ForksCleaned excepts blocks by their ids, never a
behaviour: every other block of a fork is gone in the end, wherever the lib is.
**IndexLifecycle**: five blocks in partitions of two, no retention and one that is rounded up,
a block without actions and a partition without deltas, one failed deletion: RetainedKept.

*pipeline.* Two blocks, prefetch two, one mishap, one full buffer, both cache settings:
BlockAccounted, TraceAccounted, AllIndexed. Two blocks suffice for a stale tag to name the
other block; the first two are theorems for any number of blocks, mishaps and full buffers.

*tables.* One or two queues; queues, deltas and commands together bounded by MaxLoad, so that
two workers with one command, and one worker with two commands, are both there; one mishap:
RowsFollowChain, AnsweredWorkerIsQuiet, WorkersResume. One row: bulk writes and copies treat
rows alike and never look at two. The first two are theorems for any number of rows, queues,
deltas, commands and mishaps.

*streaming.* Two sockets, two requests of any topics, valid, invalid or with a validation that
throws, one loss of the relay:
AnsweredIsServed, RequestsAnswered. Who asks is answered, with OK or with ERROR, but for the request
whose validation threw and those under way when the relay was lost. Two sockets are one client that comes back, or two
clients; two requests cover the pairs of topics, including two for one account, of which the
API process keeps the last.

*operations.* One component at a time:

| component | bounds | properties |
|---|---|---|
| repair | scans of every index of 7 blocks whose first is stored, with pages of 5; step by step: 4 damaged indexes, tool batches of 3, indexer batches of 2, 1 crash, 1 interrupt, 1 other session | ScansExact, NoOrphans, DoneMeansRead, ChunkAnswered |
| master | 5 configurations (back-fill by one reader and by two; live only with preview; ABI scan with switch; rewrite with auto-stop), 4 blocks in batches of one, backlog 1, 1 failed attempt, 1 crash | FinishedMeansRead, StopAfterIdle, StopEnds |
| routing | 3 contracts, 2 workers, 3 kinds of traces, with and without filters, 4 traces | EveryContractHasWorker |
| ABIs | 2 types, 4 histories of 2 ABIs, 2 blocks | StoredAbiDecodes |
| past data | 5 requests, 3 blocks and a fourth later, pages of 2, a limit of 3, in order and one block out of order | EndMeansDelivered |
| lookup | 4 traces of up to 3 actions, executed on one branch or on two, 2 blocks, a second execution whose sequences lie before or among those of the first, both formats, answers cut at 3 | LookupShowsOneExecution |
| queries | 14 requests of v1, v2 and the chain API alone, and 2 pairs of v1 and v2 with the same filters, of which one pair shares its key; 5 actions, answers of at most 4, 2 s | AnswersAreExact |
| deltas | 4 chains of up to 3 blocks, 3 configurations (in order; 2 queues; 2 workers), 1 failed request, 1 block handled again | ResourcesFollowChain, PermissionsFollowChain |
| reload | 2 tools (two reloads, a reload and a report), 2 deserializers, 1 exit | ReloadMeansApplied, CommandsAnswered |
| synchronizers | 5 tools, 5 shapes of a scan, bulk writes of 2 rows, 1 error | SyncEnds |

The bounds are those at which every action of a component happens; each component was also
checked alone, with TLC's coverage showing every disjunct of its next-state relation taken.
Configurations, traces, requests and scripts are chosen to meet every branch of the code they
go through, with the smallest data that tells its outcomes apart. In particular the damaged
indexes keep their first block, as the code looks for the first and last indexed block first;
the indexes of Damage are the ones whose gaps exceed a batch or whose forks have one and two
blocks, since fills treat each range alike.

The runs say CHECK_DEADLOCK FALSE because all the models may come to rest: the range is read,
the bounds of mishaps are used up, nobody asks for anything. The runs that are expected to
find a violation stop at it; LiveSchedule follows the endless loop for MaxSteps turns.

## 5. Fairness

Weak fairness, on what runs by itself once it may: event handlers of a live process with a
message to handle, timers, the retry loops of the connections, the broker's deliveries,
the answers of the external services. Never on mishaps, crashes, lost connections,
changes of branch, pauses, the operator or the clients. Specifically:

- ReaderRanges: readers, master, the relaunch timer, and the end of a pause (the queue
  monitor resumes below its threshold, and the queues drain); a reader that was sent a
  signal exits.
- ShipStream: the reader, the reconnection timers, the server's answers, the broker's
  confirms. Not the losses.
- ForkHandling: reading, indexing, the timers' passes, each pass. Not the chain.
- Ingestor, BlockPipeline: delivery, the workers' steps, bulk answers, return of a process
  or connection.
- StateTables: delivery, bulk writes, IPC, reconnection, the copy and the command's
  timeout. Not the delivery of the answer in time.
- Streaming: router, acknowledgements, the relay's reconnection, the five-second timers,
  the answer of nodeos a validation awaits.
- Repair: tool, master and reader. MasterLifecycle: reading, consuming, the monitor's cycles,
  timers, kills, the switch. ConfigReload: IPC, the answers of Elasticsearch, the ends of
  waits (Progress). Synchronizers: the command's own steps, including errors, which are
  bounded.

Strong fairness is nowhere assumed: where an action can be disabled again and again, the
bound on mishaps ends that, which is the assumption that connections fail finitely often.

## 6. What is proved

All theorems are about every value of the constants that satisfies the module's named
assumption (sizes are naturals, batches and counts positive, the start below the head): any
number of readers, workers, messages, passes, failures. They are theorems of the
specification without its fairness.

**ReaderRanges_proofs.** TypeCorrect; ReadersShareNoBlock (`NoSharedBlock`) and
ReadersStayBelowHead (`NothingPastHead`), if SHIP has every block from `starting_block` on
(ShipCoversStart). The condition is needed: a SHIP that starts later lets a reader move
`lastAssignedBlock` backwards (section 7). NoSharedBlock says nothing of where the next range
will be cut; the inductive invariant Separated has three parts: every range a reader may
read, now or after a relaunch, lies between Start and both the head and `lastAssigned`;
ranges of two readers are Apart, one ending before the other begins; only `completed` is on
its way to the master, so that nobody moves the mark. A new range begins at the mark, hence
after every claim. Lemmas: the arithmetic of setupReaders (EnvRangesApart,
EnvRangeNonEmpty), messages in flight, steps that give no claim, one step per action.

NoBlockIsForgotten (`NoBlockForgotten`), of any SHIP and any number
of crashes and pauses. The inductive invariant CoverageInv adds to the property what makes a
completion trustworthy: a reader that said `completed`, or is being sent a new range, has
nothing left of its last one (Sound, Spent), says it last, and is given one range at a time, so
that neither a new range nor a restart ever replaces blocks it still owes. One lemma per
handler says which reader it moves and that what this reader still has to publish shrinks only
by blocks that are settled (or by its death, which the property excepts); generic lemmas
carry the parts of the invariant over.

**ShipStream_proofs.** NoBlockIsSkipped (`NoGap`). The property says nothing of what is on its
way; the inductive invariant follows the session: while all messages in memory are of this
session (Tracked), it is either before the request for blocks (Greeting: an ABI or a status and
nothing else) or after it (Flowing: the batch, the inbox and the server's next block are
consecutive numbers, and none that SHIP has lies between the last one read and the first of
them), and nothing at all without a connection (Quiet). A range reader that has its first block
no longer needs this, as it checks each number (OnlySession, NothingRead); the live reader does,
and once a websocket closed with messages left in memory it has neither: hence `stale`.

**BlockPipeline_proofs.** BlocksAreAccounted (`BlockAccounted`) and TracesAreAccounted
(`TraceAccounted`). Both rest on Clean: while a worker has had only this channel, the deliveries
in its memory and the acknowledgements on its wire name unsettled deliveries of this channel,
each once, so that an acknowledgement settles what it is meant for and the broker refuses none.
BlockInv then says of the deserializer that the documents of a block are ahead of its
acknowledgement on the wire (SettledIsStored), whatever crashes; and after one lost connection,
when Clean fails and a stale tag may settle another block, that each block that was unsettled
waits in memory and will have both documents written (KeptInMemory), but for the one in
processing, whose first document was written on the old channel. TraceInv adds what becomes of a
trace: ahead of its block's acknowledgement on the wire, in backpressureQueue (only once a write
buffer was full), with the pool, or written as actions (TracesFollow, ActionsFollow). Both are
the argument for the exceptions the properties name: a crash takes backpressureQueue, and
without the cache what was acknowledged first.

**StateTables_proofs.** AnsweredIsQuiet (`AnsweredWorkerIsQuiet`): CalmInv bounds, for each
worker that never escaped, its consumers by what it was told and what is on its way: at most
a pause and a resume in that order, none missing while a command runs. TableFollowsChain
(`RowsFollowChain`): RowInv says of the last delta of a row, unless a named mishap happened to
it, that it is written or waits (Kept); that wherever a worker has an older delta of the row,
in its queue, among its deliveries, in the cargo or in a bulk write, the last one comes after
it there or waits with another worker (Newest, Follows); and that what the command read is not
older (ReadInTime). So an older value never replaces the last one for good. The lemmas on
Behind say what "comes after" becomes when a delta is delivered, a batch leaves the cargo, or
the broker puts unsettled deliveries back at the front of the queue: an older delta that is
delivered again is followed by the last one again.

**Streaming_proofs.** AnsweredAreServed (`AnsweredIsServed`). ServedInv says of the API process that
each request that got past its validation is in the map of the socket that holds it, unless that
socket left (Located), and that the topic maps have it, but for the earlier of two requests for an
account (EntriesAgree); of what is under way that a request has at most one message, which fits
its phase (MailIsTrue, MailIsOnce); and of the router that whoever was answered with OK, or will
be, is linked (AnsweredIsLinked). That a closed socket takes no other client's requests with it
needs RouterKnows: the router has a request under the socket that made it, and if another holds
it, having come back in time, the timer of the first was disarmed and it never leaves.

**StoreWriters_proofs.** Of the ingestor, TypeCorrect and
ContractIsKept: `Spec => ContractKept`, the refinement of
IngestContract. Accounted says that an unsettled delivery is in memory or its message is
written or reported, and that what an answer is about to acknowledge is written; TagsOnce
that tags are unique until a connection is lost, which makes an answer settle its own
delivery; that an answer settles everything up to its first bad item is shown by taking the
least counterexample (well-foundedness of `<` on the naturals), as the first bad item is
defined by CHOOSE over positions.

LossIsBounded (`LossBounded`) pays for losses from a budget of one prefetch per mishap (a failed
request, an answer with errors, a lost connection, a crash). The number of lost messages is not
inductive: a message that the process dropped is not lost as long as the broker calls it
outstanding, and a delivery that waits in the cargo may have been settled by `ackAll` or belong to
a connection that is gone, so that nothing would put it back. Budget counts both. It charges
the messages that are outstanding without the process having them (Stranded), and the deliveries
at the front of the cargo that nothing vouches for; the rest of the cargo is outstanding, each
delivery once (TailOf), which with the prefetch's bound on what is outstanding limits what one
`ackAll` can settle early. While no request is out, that front may exceed the budget by a prefetch,
which the next request takes to the store, and an answer with errors has paid before its messages
are put back (Credit). Once a channel is closed, what neither the queue nor the store has (Gone) is
paid for.

Of forks, ForkTypesKept; ForksAreRemembered (`NoForkForgotten`): each id in
`forkedBlocks` has a timer that will fire or is in the hands of a pass (ForksInHands, with
what the pass has left, what it is at and what it is to reschedule). MapIsTheChain
(`MapFollowsChain`): of each number, either the last message in the inbox carries the id of
the current branch, or none carries the number and the map has it above the lib (MapInv);
by induction on steps, for any number of changes of branch. CanonicalIsKept
(`KeepsCanonicalOnce`): while the chain changes branch once, the ids that any pass may delete
are of the branch that was left (VictimInv, which needs OrderInv: once a message of the new
branch was sent for a number, none of the old branch follows), so that each block of the chain
is stored or on its way (KeptInv).

Of the index lifecycle, RetainedIsKept (`RetainedKept`): an index is pruned when its blocks
and those of all newer indices are more than the retention and a partition, and then it ends
before the retained blocks (PrunedIsOld). The newest index may show nothing to a search yet, so
that all its blocks are counted, those to come too; the argument then needs that the constructor
rounds the retention up to whole partitions. Of a delete task, LifecycleInv says that its blocks
had left the retention when it began.

WritersKeepAll: a behaviour of StoreWriters is one of each of its components, so that all of this
holds of what the run checks.

**Operations_proofs.** StopWaits (`StopAfterIdle`): a timer armed `n` ticks ago implies an
idle cycle at least as long ago, whichever handle the code kept (CountsDown). FinishedIsRead
(`FinishedMeansRead`), for any number of readers: after set-up the worker map holds each back-fill
reader as long as it has a block to read, or it is one of those that lost blocks (`abandoned`),
some reader as long as a range is left to hand out, and the live reader whenever one is configured
(MapCoversWork). The exceptions are what the code does (section 7): a relaunched reader that had a
later range, and readers killed in mid-range.
StoredIsDecoded (`StoredAbiDecodes`): an account's ABIs are in order of their blocks (AbiShapes),
so that the ABI in force at a block, if the index has it, is what a search by block number
finds (SavedIsInForce), and its JSON form, which the parser accepted, is the last resort of
every decoder (RowIsDecoded), whatever was loaded, refused or cached before.
ReloadIsApplied (`ReloadMeansApplied`). A tool hears of success when it
waits for no worker; the invariant says of every worker it no longer waits for that it loaded a
version as new as the tool's (HeardIsNew), and of a reply on its way that it will say so
truthfully (RepliesAreNew): the order was sent after the tool's version was complete, and no
reply to an older order is ahead of it, unless two reloads crossed. An exit drops the orders not
handled, and the worker that comes back reads the file anew.
HistoryIsDelivered (`EndMeansDelivered`): PastInv says that what was sent passes the filters
(SentIsWanted), that what the first search found was sent or waits in its scroll (OpeningIsSent),
which has counted what it found when it ends (PagesCount), that all after the block noted on
joining went to the client live (LiveFollows), and, where blocks are indexed in order, that what
precedes the range of the running search was sent, and of the range all that precedes the block
the scroll has reached was sent or is left in it (HistorySent), over any number of fill requests.
ContractsHaveWorkers (`EveryContractHasWorker`): phase one fills the workers from the first on, so
that after each contract their shares are a staircase (Stairs, OneStair) whose height is the hits
shared out so far; those are fewer than all while a contract is left (CountsGrow), so the next
one finds room (FilledOnTop), and the moves of phase two keep lists that are not empty.
ResourcesAreTheChains (`ResourcesFollowChain`): for every number of workers, queues and batches,
ResourceInv says that a delta that was handled waits in a queue of the generic route, or its row's
document has the values of its block or a later one, or the row was lost with a request that failed
(Accounted), and that a document has the values of a block that did change its row. The counters
stay in range, so that a message reaches a queue of its own route (EmissionDoes and its
neighbours follow the fold over a block's deltas); a bulk write takes each row to the latest block of its
batch and never back (Later), which is what Elasticsearch's script compares blocks for, and why
redelivery and the order between queues do not matter. When every queue is empty, what is left of
the three cases is the document.
PermissionsAreTheChains (`PermissionsFollowChain`): MongoDB's writes compare nothing, so this
needs one deserializer, one queue and batches of one. PermissionInv then says that the queue is in the
order of blocks and that what no longer waits is of no later block than what does (InBlockOrder),
so that of a permission, and of a link that was never moved, the newest delta that was written is the
one the document shows (DocumentsFollow). A permission that is removed takes its links with it; none
of them is still in force because of ChainAssumption.
OperationsKeepAll: a behaviour of Operations is one of each of its components, as above, so that
what is proved of Repair holds of it too.

**Documents_proofs.** NothingIsOrphaned (`NoOrphans`): the documents of a fork's range go step by
step, the blocks last, and what each step has deleted stays deleted until the tool fills
(OrphanInv). It needs a fact about the scan: every block it lists for deletion lies in the range
of its fork (IdsInRange), or a block could go whose actions were never deleted.

ScansFindDamage (`ScansExact`) is about the algorithms, for every length and state of the index
and every page size. A fold or a recursive function is a CHOOSE of a function that solves an
equation; that one exists is proved once, by induction on a bounded rank (BoundedRecursion), and
used for the folds over ranges and pages (FoldStates) and for the bisections, whose rank is the
length of the range (SearchFinds, ActionsFound). A page then falls by one step between stored blocks
(PageRuns), the pages of a run meet on one number (PagesScanned), what a fold over a page knows at
each pair is PairInv, and after each page the gaps above it are reported exactly (RunScans). That
a whole branch is reported follows it through the page that sees it (PageReportsFork) and
through the pages before and after (RunReportsFork).

DoneIsRead (`DoneMeansRead`): as long as no request met a busy reader there is one range, one answer
or one busy reader between the tool and the reader (OneToken), so that an answer means that
everything of the message was read or lost (AnswerMeansOver); until then each line of the message
is in hand: pending, sent, or being read with the pieces that wait behind it (InHand, Lines), and a
piece is not cut again (Pieces). The lines behind `line` are over, which is why a session may be
saved and resumed at any time. The proof corrected the statement: the blocks that newRange leaves
out between pieces (SkippedBySplit) are counted from where SHIP's history begins, not from the
start of the range, as the range is trimmed before it is cut; TLC shows the difference when
`RepairBegin` lies inside a range of more than `IndexerBatch` blocks.

AnswersAreThePages (`AnswersAreExact`). Sorting is by rank: of a finite set of numbers every rank
below its size is taken once (RanksAre, RankIsTaken), so that the members of a range of ranks are as
many as the range is long (BetweenRanks), keep their order (RankedAgain), and a slice of the sorted
sequence is the sorted sequence of its ranks (SliceIsSorted). A page of the store's hits is then
what the request describes (HitsAre, PagesAreExact), and for v1 the window that pos and offset are
turned into (WindowsAreExact); the clauses that v2 builds from its parameters accept an action
exactly if the request asks for it (MatchIsAsked). AnswerInv carries this through the cache: an
entry was computed, at a length the history had within its life, for a request with its key
(Computed), which is the one that gets it or one of the other version with the same filters and
nothing else (Sharing): that exception is needed, as TLC shows when it is left out.

LookupsShowOneExecution (`LookupShowsOneExecution`). A set of documents *covers* a trace (Covers)
if each of its documents is of an action of the trace, each action of its own has one that is not
after its notifications', and the receipts of an action and its notifications are together those
of its receivers. What the pool worker parses covers the trace (ParsedIs); sets that cover one trace cover it
together; grouping documents that cover a trace gives each action once with all its receivers, and
covers it again (MergeIs) - which is why an index of either format, a cache of grouped documents
and documents grouped twice all give the same answer: two documents are of one group exactly if they
are of one action (GroupKeyIs, GroupsAre). LookupInv says that of each
execution the cache has all documents or none, unless one was overwritten (KeepsDocs), and so has
the index together with what is still on its way to it; the documents of
the highest block, if they are of one execution that is not torn, then cover its trace
(LastBlockShows). The two exceptions are of the store, not of the grouping: a document's key is
its sequence, which the branches share, and blocks of two branches may have one number. As in the property, every
trace is taken to have notifications one level deep (Flat).

*Only model-checked*: all liveness (BackfillEnds, RangeCompletes, LiveCatchesUp, ForksCleaned,
IngestorWrites, AllIndexed, WorkersResume, RequestsAnswered, ChunkAnswered, StopEnds,
CommandsAnswered, SyncEnds), which is out of the prover's reach. Every invariant that a run checks
is a theorem. No module declares a RECURSIVE operator.

## 7. Disagreements with the code's own statements, and other observations

With a run and a finding:

- *ranges_kill*: "Parallel readers finished the requested range" (master.ts:400) is logged,
  and all readers are killed, when one reader completes and nothing is left to assign,
  while others still read.
- *stream_reconnect*: a range reader that lost its websocket asks for `[local_block_num,
  last - 1)`: it repeats a block, never asks for the last one, and still reports
  "Reader completed".
- *forks_reapplied*: registerReversibleBlock means to spare a block that is re-applied, but
  a pass that already awaits the deletion deletes the new documents.
- *ingest_nackall*: onError puts a failed request back with nackAll, but an earlier ackAll
  may have settled its deliveries.
- *missed_round*: the loop that reports missed rounds (master.ts:1285) resets its index when it
  arrives at the new producer, which was to end it, and never ends.

Stated in the modules, refuted by TLC, without a run of their own: `DeletedIsRefilled` of
Repair, `NoRepeatedHistory` and `StopsAtReadUntil` of PastStream, `TraceHasQueue` of
ContractRouting for one worker (see below).

Seen while modelling; the properties name most of them as exceptions.

*Readers, forks, blocks*

- state-reader.ts:770: after a lost websocket the first message in memory, of whichever
  session, is taken for the new session's ABI. If it is one of the old session, the request
  goes nowhere as the socket is closed, and the new session is never asked for blocks.
- master.ts:355, state-reader.ts:437: with several readers and a SHIP that starts late,
  `update_last_assigned_block` moves the mark back: ranges are shared and may pass the head.
- state-reader.ts:349: after an AMQP reconnection the new confirm channel has an empty
  unconfirmed list: blocks lost with the old one are not noticed.
- state-reader.ts:543: the lib may pass a forked block while nodeos is asked about it; the
  block is then dismissed and its documents stay. They stay too when a block is indexed after
  the pass that deleted it, or when one deleteByQuery fails.
- state-reader.ts:712: a block that comes without block, traces and deltas is neither published nor
  counted, so that a range with one never completes.
- state-reader.ts:153: a block the broker refuses is only logged ("Message nacked!"): the range
  completes without it.
- master.ts:949, 1065: a reader that is relaunched gets the range of its first environment; what it
  had left of a later one is read by nobody, and "No more active workers" may end the indexer with
  blocks unread.
- master.ts:309: consumed_block sets `lastProducedBlockNum` before the queue's worker compares
  with it, so blocks count only when several are queued, and missed blocks are over-reported.
- lifecycleManager.ts: blocks are retained relative to the chain's head, actions and deltas
  relative to the newest partition, so an indexer that lags far behind loses its blocks;
  health.ts:240 keeps the first indexed block without expiry.

*Workers and stores*

- deserializer.ts:668, 671, ds-pool.ts:133, 528: a trace is dropped when its channel is not
  ready; a pool worker whose document queue meets a lost channel never publishes again;
  without the transaction cache the acknowledgement may precede the documents.
- elastic-routes.ts:394: messageMap keeps one delivery per document id, so of two messages of
  a document in one request the first is never settled by its own answer and the last twice.
- Ingestor: after a lost connection, deliveries of the old channel that ackAll had settled stay
  in the cargo; their tags name other messages on the new channel, so that an answer settles
  another message, which is lost if its own item is then rejected (`misdirected`).
- mongo-routes.ts:42-49: operations of the permissions collection are built from the whole
  payload ("filter permission messages" has no effect), so a permission without a name is
  written when links share the batch; a link that moves stays in the old permission.
- MongoDB writes compare no block numbers; removed rows of voters and proposals are upserted;
  selectLeastLoadedIngestClient takes a counter of 0 for none; extractDeltaStruct keeps only
  the last table_delta of a name; a plugin's dynamic contract without a configuration entry
  raises a TypeError, so that the row is not indexed; rows that cannot be decoded are not
  indexed.
- AbiCache: a decoding that succeeds by the fallback still blacklists the table; an ABI loaded
  into the native library has no block range, so a layout that changed is decoded by the
  wrong version; `update_abi` reads `abi` where `shipABI` is sent and is never applied.
- ContractRouting: with one pool worker the heatmap mode sends an unknown contract to queue 2,
  which nobody reads; remove_contract uses a 0-based index on a map keyed from 1; a counter
  left from a longer list goes back to the first worker; the whitelist looks one action
  deeper than `max_depth`.

*Control and tools*

- hyp-control.ts:22: the first worker's answer to a pause is taken for all of them, although
  a pause is there to avoid "racing" the copy (hyp-control.ts:65); indexer.ts:84: a worker that
  reconnects consumes at once, paused or not; hyp-control.ts:24: a command that gives up
  leaves workers that pause later paused.
- amqp.ts:98-110: when RabbitMQ's management API fails, the size of a queue is taken to be
  0, so readers may be resumed; queueMonitor's checks may overlap.
- indexerMonitor.ts:183: each idle cycle arms a timer and forgets the one before it;
  `allowShutdown` is never reset; "No more active workers" ends the process one idle cycle
  after the last reader left, even with blocks in the queues. A stop during start-up, or with a
  pending relaunch or mode switch, meets readers launched afterwards that were never told;
  only the live reader obeys `stop`; with starting_block 0 a stop never completes. "Auto
  switching … in 10 seconds" has no delay.
- config.ts:100-116 ends the process on a file that does not parse, so that reloading a
  half-written file ends the master ("Failed to load configuration." is unreachable);
  concurrent tools overwrite each other's contract; a second reload replaces the promises of
  the first, which is then never answered, and a stale answer may resolve the second early;
  a worker that dies leaves the reload pending; an answer `error` counts as success; after the
  client's ten seconds the answer is sent on a closed socket inside a promise nobody catches,
  which ends the master; `timeoutSec` is in milliseconds; controller.ts:359 lacks a `break`;
  `indexer-start-failed` has no handler in the client, `indexer-already-running` no sender;
  the controller sends `result.error` where the result has `message`; kill_worker of an unknown
  worker removes the last one.
- Synchronizers: `drain()` of an idle cargo never resolves, so a command whose last request
  returned no row waits for ever with the ingestors paused; a rejected bulkWrite ends the tool
  with the ingestors paused; voters exits on an error of the scan; contract-state has its own
  database name and does not clear its two-minute timer; rows that left the chain stay.
- Repair: the range of a fork of two or more blocks starts above its end and the master drops
  it, so what was deleted is not read again ("repair forked blocks", hyp-repair.ts:42);
  newRange (state-reader.ts:271) skips the block between two pieces; an empty piece signals
  completion and is requested all the same; a crash of the repair reader loses its range; a
  second request replaces the pending ranges; another session that closes leaves the tool
  waiting; forks at a page's end and adjacent branches are not reported; rows are deleted from
  Elasticsearch while state tables are in MongoDB; the options of quick-scan are documented and
  not declared (hyp-repair.ts:23); the count of missing blocks has the wrong sign (scan.ts).

*API*

- ws-router.ts and socketManager.ts: a cancellation only reaches the router, and clients go
  on receiving a stream another client shares; a client that came back cannot cancel what
  was carried over (the router files it under the old id and answers NOT_FOUND), and its
  links outlive it; a client with action streams only is always told to ask again, and its
  old entries stay (socketManager.ts:125); account entries are looked for in the payers' map
  (socketManager.ts:396) and stay; after a reconnection of the relay no old subscription is
  served (socketManager.ts:197); an action request that also names an account matches nothing
  (socketManager.ts:421); a request with an account and an action but no contract is answered
  OK and filed nowhere; a validation that throws (socketManager.ts:693, 743, 750) is logged at
  619 and its client never answered, though the caller has a catch that would.
- PastStream: a second fill request starts behind the first result's last block and sends
  blocks again; a fill overrides `read_until`; `or` between a query filter and an on-demand
  filter is joined by AND; a client's NACK, a limit and a timeout leave the scroll open; blocks
  indexed out of order below the last one sent are missed; a date in `start_from` gives NaN.
- TransactionLookup: a notification sent by a notified contract is not merged
  (action-dedup.ts:11); a document is kept under its global sequence, so that a transaction that is
  executed again on another branch overwrites part of its first execution, and v2, which shows the
  highest block, may show what is left of that; v1 mixes actions of a fork; two executions in one block number are
  mixed; an error other than 404 with a block_hint leaves the result undefined; limits cut
  large transactions.
- HistoryApi: several values of an extended property search the unprefixed field; `*:*` beside
  other filters is ignored in v2; v1 windows that pass the limit or the end return other
  actions; without limits.get_actions every limit is refused; cached answers carry the current
  last_indexed_block; a v2 request with ignoreCache has its own key and never refreshes
  the other; the key has the route's name, which v1 and v2 share: POST {"filter": ..} of v1 and GET
  ?filter=.. of v2, or both without parameters, are given each other's answers; a node's error is cached and answered with status 200.

## 8. What is not modelled

Components: *alerts* (fire and forget notifications with a cooldown), *plugins and action
modules* (loading of code, stateless transformations of action data), *snapshots and queue
manager* (front ends of mongodump and of RabbitMQ's management API), *explorer metadata and
query hub* (published, read by nobody here).

Within the modelled components:

- the contents of blocks, traces, deltas, documents and queries; their serialization;
- configuration that only delays (set_delay, back-off times) and the choice of a SHIP
  server (next_server);
- the thresholds of the queue monitor and its extra ingestors: when it pauses is left open;
- the generic route's parallel requests in Ingestor (they are in DeltaTables, without
  connection losses), publication to the stream queue, reports to the master;
- IndexLifecycle: max_age_days, a partitioned block index, forks of the blocks that trigger a
  check;
- MasterLifecycle: index templates and mappings, prompts, rates and log lines;
- Repair: restoring rows of state tables, the monitor of a run in progress, views of a file;
- ConfigReload: the commands of hyp-config that edit and print files for one user;
- Synchronizers: a write to Elasticsearch in place of MongoDB, the choice of token contracts
  (scanABIs), the two-minute limit of contract-state;
- Streaming: events in flight and their filters, replayOnReconnect, the counting of clients,
  several API processes behind Redis;
- the API's other routes, which are single queries whose answers are passed on, and
  export_actions;
- RabbitMQ, Elasticsearch, MongoDB, Redis and nodeos, which appear as the code uses them
  (definitions marked external in the map).
