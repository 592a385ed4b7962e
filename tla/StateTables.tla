----------------------------- MODULE StateTables -----------------------------
(***************************************************************************)
(* The state tables MongoDB keeps of the chain: the 'table-accounts' route *)
(* of the ingestors (src/indexer/helpers/mongo-routes.ts), and the command *)
(* that copies a table from the chain's HTTP API while the ingestors of    *)
(* the table are paused (src/cli/hyp-control.ts,                           *)
(* src/cli/sync-modules/sync-accounts.ts).                                 *)
(*                                                                         *)
(* The deserializer spreads the deltas over the queues of the table, one   *)
(* worker consumes each.  A bulk write is unordered and compares no block  *)
(* numbers: what is written last stays.                                    *)
(***************************************************************************)
EXTENDS Integers, Sequences, FiniteSets, SequencesExt

CONSTANTS
    Rows,
    NumQueues,   \* values of scaling.indexing_queues to consider
    Prefetch,    \* prefetch.index: channel prefetch and cargo size
    MaxLoad,     \* bound: queues, blocks (one delta each) and sync commands together
    MaxMishaps   \* bound: failed bulk writes, AMQP connection losses and exits of a
                 \* worker not caused by the model

ASSUME TablesAssumption ==
    /\ NumQueues \subseteq Nat \ {0} /\ Prefetch \in Nat \ {0}
    /\ {MaxLoad, MaxMishaps} \subseteq Nat

VARIABLES
    queues,    \* number of queues, and of workers
    log,       \* the chain: log[b] is the delta [row, present] of block b
    emitIdx,   \* tbl_acc_emit_idx
    table,     \* for each row the block whose value it has, 0 when absent
    \* each queue and its worker
    ready,     \* messages of the queue, as block numbers
    unacked,   \* its unsettled deliveries, in order
    consumers, \* consumers the worker has on its channel
    channel,   \* "open", "lost" with its connection, or "down" with the process
    inbox,     \* IPC messages of the master to the worker
    buffer,    \* indexQueue
    todo,      \* deltas of the bulk write that are not executed
    bulk,      \* "idle", "sent" or "wedged": its callback never came
    drainAck,  \* the pause is answered when indexQueue drains
    \* the sync command
    sync,      \* "idle", "pausing" or "copying"
    answered,  \* an 'indexer_paused' is under way to the command
    resumes,   \* shouldResume
    copied,    \* rows read
    doc,       \* the document read and not written: a set of at most one [row, at]
    \* history
    quiet,     \* workers that answered the pause and were not resumed since
    escaped,   \* workers that came back on a new channel while they were to be paused
    excused,   \* deltas a mishap the property names happened to
    strayed,   \* workers left paused by a command that failed or gave up
    mishaps, syncs

Workers == 1 .. queues
Blocks == 1 .. MaxLoad

queueVars == <<ready, unacked>>
cargoVars == <<buffer, todo, bulk>>
syncVars == <<sync, answered, resumes, copied, doc, syncs>>
vars == <<queues, log, emitIdx, table, queueVars, consumers, channel, inbox, cargoVars, drainAck,
          syncVars, quiet, escaped, excused, strayed, mishaps>>

Init ==
    /\ queues \in NumQueues
    /\ log = <<>> /\ emitIdx = 1 /\ table = [r \in Rows |-> 0]
    /\ ready = [w \in Workers |-> <<>>] /\ unacked = [w \in Workers |-> <<>>]
    /\ consumers = [w \in Workers |-> 1] /\ channel = [w \in Workers |-> "open"]
    /\ inbox = [w \in Workers |-> <<>>]
    /\ buffer = [w \in Workers |-> <<>>] /\ todo = [w \in Workers |-> {}]
    /\ bulk = [w \in Workers |-> "idle"] /\ drainAck = [w \in Workers |-> FALSE]
    /\ sync = "idle" /\ answered = FALSE /\ resumes = FALSE /\ copied = {} /\ doc = {}
    /\ quiet = {} /\ escaped = {} /\ excused = {} /\ strayed = {}
    /\ mishaps = 0 /\ syncs = 0

Room == queues + Len(log) + syncs < MaxLoad

-----------------------------------------------------------------------------
(* The chain, and the rows it has *)

DeltasOf(r) == {b \in DOMAIN log : log[b].row = r}
LastDelta(r) == IF DeltasOf(r) = {} THEN 0 ELSE CHOOSE b \in DeltasOf(r) : \A c \in DeltasOf(r) : c <= b
OnChain(r) == IF LastDelta(r) # 0 /\ log[LastDelta(r)].present THEN LastDelta(r) ELSE 0

NextIdx == IF emitIdx + 1 > queues THEN 1 ELSE emitIdx + 1

\* A block sets or removes one row; its delta goes to the queues in turn.
StoreAccount ==
    /\ Room
    /\ \E r \in Rows, present \in BOOLEAN :
        /\ present \/ OnChain(r) # 0
        /\ log' = Append(log, [row |-> r, present |-> present])
    /\ ready' = [ready EXCEPT ![emitIdx] = Append(@, Len(log) + 1)]
    /\ emitIdx' = NextIdx
    /\ UNCHANGED <<queues, table, unacked, consumers, channel, inbox, cargoVars, drainAck, syncVars,
                   quiet, escaped, excused, strayed, mishaps>>

-----------------------------------------------------------------------------
(* A worker *)

\* The prefetch is per consumer.
Deliver(w) ==
    /\ ready[w] # <<>>
    /\ Len(unacked[w]) < Prefetch * consumers[w]
    /\ ready' = [ready EXCEPT ![w] = Tail(@)]
    /\ unacked' = [unacked EXCEPT ![w] = Append(@, Head(ready[w]))]
    /\ buffer' = [buffer EXCEPT ![w] = Append(@, Head(ready[w]))]
    /\ UNCHANGED <<queues, log, emitIdx, table, consumers, channel, inbox, todo, bulk, drainAck, syncVars,
                   quiet, escaped, excused, strayed, mishaps>>

Mishap == mishaps < MaxMishaps /\ mishaps' = mishaps + 1
SameRow(b, c) == b # c /\ log[b].row = log[c].row

\* The cargo hands over what waits.  Of two deltas of one row in an unordered bulk
\* write either may come last.
StartBulk(w) ==
    /\ channel[w] = "open" /\ bulk[w] = "idle" /\ buffer[w] # <<>>
    /\ LET n == IF Len(buffer[w]) < Prefetch THEN Len(buffer[w]) ELSE Prefetch
           batch == ToSet(SubSeq(buffer[w], 1, n))
       IN /\ buffer' = [buffer EXCEPT ![w] = SubSeq(@, n + 1, Len(@))]
          /\ todo' = [todo EXCEPT ![w] = batch]
          /\ excused' = excused \cup {b \in batch : \E c \in batch : SameRow(b, c)}
    /\ bulk' = [bulk EXCEPT ![w] = "sent"]
    /\ UNCHANGED <<queues, log, emitIdx, table, queueVars, consumers, channel, inbox, drainAck, syncVars,
                   quiet, escaped, strayed, mishaps>>

InHands(w) == ToSet(ready[w]) \cup ToSet(unacked[w]) \cup ToSet(buffer[w]) \cup todo[w]

\* present: an upsert of the row, otherwise its removal.
Operation_Upsert(b) == b  \* mutant: present is not looked at
Operation(b) == IF log[b].present THEN b ELSE 0

\* MongoDB executes one operation.  A delta that overtakes an older one in another
\* queue, or lands between the reading and the writing of a synchronized row, is
\* overwritten by what is older.
Write(w) ==
    /\ bulk[w] = "sent"
    /\ \E b \in todo[w] :
        /\ table' = [table EXCEPT ![log[b].row] = Operation(b)]
        /\ todo' = [todo EXCEPT ![w] = @ \ {b}]
        /\ excused' =
             IF \/ \E d \in doc : d.row = log[b].row /\ d.at < b
                \/ \E v \in Workers \ {w} : \E c \in InHands(v) : SameRow(b, c) /\ c < b
             THEN excused \cup {b}
             ELSE excused
    /\ UNCHANGED <<queues, log, emitIdx, queueVars, consumers, channel, inbox, buffer, bulk, drainAck,
                   syncVars, quiet, escaped, strayed, mishaps>>

\* An operation fails, a duplicate key or a lost connection: logged, and acknowledged.
FailWrite(w) ==
    /\ bulk[w] = "sent"
    /\ Mishap
    /\ \E some \in SUBSET todo[w] \ {{}} :
        /\ todo' = [todo EXCEPT ![w] = @ \ some]
        /\ excused' = excused \cup some
    /\ UNCHANGED <<queues, log, emitIdx, table, queueVars, consumers, channel, inbox, buffer, bulk,
                   drainAck, syncVars, quiet, escaped, strayed>>

\* 'indexer_paused', through the master to the command.
AnswerPause(w) ==
    /\ answered' = TRUE
    /\ quiet' = quiet \cup {w}
    /\ drainAck' = [drainAck EXCEPT ![w] = FALSE]

\* The callback acknowledges every delivery of the channel, those in the cargo
\* included.  When the channel is gone ackAll throws before the cargo is called back.
FinishBulk(w) ==
    /\ bulk[w] = "sent" /\ todo[w] = {}
    /\ IF channel[w] = "open"
       THEN /\ unacked' = [unacked EXCEPT ![w] = <<>>]
            /\ bulk' = [bulk EXCEPT ![w] = "idle"]
            /\ IF drainAck[w] /\ buffer[w] = <<>>
               THEN AnswerPause(w)
               ELSE UNCHANGED <<answered, quiet, drainAck>>
       ELSE /\ bulk' = [bulk EXCEPT ![w] = "wedged"]
            /\ UNCHANGED <<unacked, answered, quiet, drainAck>>
    /\ UNCHANGED <<queues, log, emitIdx, table, ready, consumers, channel, inbox, buffer, todo,
                   sync, resumes, copied, doc, syncs, escaped, excused, strayed, mishaps>>

-----------------------------------------------------------------------------
(* Failures of a worker *)

\* The process ends; deltas it had acknowledged and not written are lost.
Stop(w) ==
    /\ channel' = [channel EXCEPT ![w] = "down"]
    /\ ready' = [ready EXCEPT ![w] = unacked[w] \o @]
    /\ unacked' = [unacked EXCEPT ![w] = <<>>]
    /\ consumers' = [consumers EXCEPT ![w] = 0]
    /\ inbox' = [inbox EXCEPT ![w] = <<>>]
    /\ buffer' = [buffer EXCEPT ![w] = <<>>]
    /\ todo' = [todo EXCEPT ![w] = {}]
    /\ bulk' = [bulk EXCEPT ![w] = "idle"]
    /\ drainAck' = [drainAck EXCEPT ![w] = FALSE]
    /\ quiet' = quiet \ {w}
    /\ excused' = excused \cup ((ToSet(buffer[w]) \cup todo[w])
                                  \ (ToSet(ready[w]) \cup ToSet(unacked[w])))
    /\ UNCHANGED <<queues, log, emitIdx, table, syncVars, escaped, strayed>>

Crash(w) ==
    /\ channel[w] # "down"
    /\ Mishap
    /\ Stop(w)

\* The connection closes: the cargo is paused, the broker takes the deliveries back.
LoseConnection(w) ==
    /\ channel[w] = "open"
    /\ Mishap
    /\ channel' = [channel EXCEPT ![w] = "lost"]
    /\ ready' = [ready EXCEPT ![w] = unacked[w] \o @]
    /\ unacked' = [unacked EXCEPT ![w] = <<>>]
    /\ consumers' = [consumers EXCEPT ![w] = 0]
    /\ UNCHANGED <<queues, log, emitIdx, table, inbox, cargoVars, drainAck, syncVars, quiet, escaped, excused,
                   strayed>>

\* assertQueues, after a reconnection or in the worker the master forks again: it
\* consumes, whether the ingestor is paused or not.
AssertQueues(w) ==
    /\ channel[w] \in {"lost", "down"}
    /\ channel' = [channel EXCEPT ![w] = "open"]
    /\ consumers' = [consumers EXCEPT ![w] = 1]
    /\ escaped' = IF \/ sync # "idle" \/ w \in quiet \cup strayed
                     \/ drainAck[w] \/ inbox[w] # <<>>
                  THEN escaped \cup {w} ELSE escaped
    /\ UNCHANGED <<queues, log, emitIdx, table, queueVars, inbox, cargoVars, drainAck, syncVars, quiet,
                   excused, strayed, mishaps>>

-----------------------------------------------------------------------------
(* Pause and resume, on the worker's side *)

\* Only the last consumer is cancelled.  The answer waits for the cargo to drain
\* unless nothing waits in it; a bulk write that is running is not waited for.
WaitsForDrain_Never(w) == FALSE  \* mutant: the pause is answered at once
WaitsForDrain(w) == buffer[w] # <<>>

PauseIndexer(w) ==
    /\ inbox[w] # <<>> /\ Head(inbox[w]) = "pause"
    /\ channel[w] = "open"
    /\ inbox' = [inbox EXCEPT ![w] = Tail(@)]
    /\ consumers' = [consumers EXCEPT ![w] = IF @ > 0 THEN @ - 1 ELSE 0]
    /\ IF WaitsForDrain(w)
       THEN drainAck' = [drainAck EXCEPT ![w] = TRUE] /\ UNCHANGED <<answered, quiet>>
       ELSE AnswerPause(w)
    /\ UNCHANGED <<queues, log, emitIdx, table, queueVars, channel, cargoVars, sync, resumes, copied, doc,
                   syncs, escaped, excused, strayed, mishaps>>

\* Cancelling on a channel that is gone rejects, and nothing handles the rejection.
PauseWithoutChannel(w) ==
    /\ inbox[w] # <<>> /\ Head(inbox[w]) = "pause"
    /\ channel[w] = "lost"
    /\ Stop(w)
    /\ UNCHANGED mishaps

\* One more consumer, or 'indexer-resume-failed', which the master does not handle.
\* A drain that is still awaited answers a command that is over.
ResumeIndexer(w) ==
    /\ inbox[w] # <<>> /\ Head(inbox[w]) = "resume"
    /\ inbox' = [inbox EXCEPT ![w] = Tail(@)]
    /\ consumers' = [consumers EXCEPT ![w] = IF channel[w] = "open" THEN @ + 1 ELSE @]
    /\ quiet' = quiet \ {w}
    /\ drainAck' = [drainAck EXCEPT ![w] = FALSE]
    /\ strayed' = strayed \ {w}
    /\ UNCHANGED <<queues, log, emitIdx, table, queueVars, channel, cargoVars, syncVars,
                   escaped, excused, mishaps>>

-----------------------------------------------------------------------------
(* The sync command *)

Tell(workers, message) ==
    inbox' = [w \in Workers |-> IF w \in workers THEN Append(inbox[w], message) ELSE inbox[w]]
Running == {w \in Workers : channel[w] # "down"}
Paused == {w \in Workers : \/ "pause" \in ToSet(inbox[w]) \/ drainAck[w]
                           \/ channel[w] = "open" /\ consumers[w] = 0}

\* syncWithPauseResume begins: 'pause_indexer' goes to every worker of the type.
\* The messages of an earlier command were handled by then; what it still waited for
\* answers that command.
RequestPause ==
    /\ sync = "idle" /\ Room
    /\ \A w \in Workers : inbox[w] = <<>>
    /\ syncs' = syncs + 1
    /\ sync' = "pausing" /\ answered' = FALSE /\ resumes' = FALSE
    /\ drainAck' = [w \in Workers |-> FALSE]
    /\ Tell(Running, "pause")
    /\ UNCHANGED <<queues, log, emitIdx, table, queueVars, consumers, channel, cargoVars,
                   copied, doc, quiet, escaped, excused, strayed, mishaps>>

\* The first 'indexer_paused' that arrives is taken for all workers.
ReceivePaused ==
    /\ sync = "pausing" /\ answered
    /\ sync' = "copying" /\ resumes' = TRUE
    /\ UNCHANGED <<queues, log, emitIdx, table, queueVars, consumers, channel, inbox, cargoVars, drainAck,
                   answered, copied, doc, syncs, quiet, escaped, excused, strayed, mishaps>>

\* No answer in time: "Proceeding with synchronization without pausing".
GiveUpPause ==
    /\ sync = "pausing"
    /\ sync' = "copying"
    /\ strayed' = strayed \cup Paused
    /\ UNCHANGED <<queues, log, emitIdx, table, queueVars, consumers, channel, inbox, cargoVars, drainAck,
                   answered, resumes, copied, doc, syncs, quiet, escaped, excused, mishaps>>

\* processContracts: the balance of a row the chain has, at this moment.
ReadRow ==
    /\ sync = "copying" /\ doc = {}
    /\ \E r \in Rows \ copied :
        /\ copied' = copied \cup {r}
        /\ doc' = IF OnChain(r) # 0 THEN {[row |-> r, at |-> OnChain(r)]} ELSE {}
    /\ UNCHANGED <<queues, log, emitIdx, table, queueVars, consumers, channel, inbox, cargoVars, drainAck,
                   sync, answered, resumes, syncs, quiet, escaped, excused, strayed, mishaps>>

WriteRow ==
    /\ \E d \in doc : table' = [table EXCEPT ![d.row] = d.at]
    /\ doc' = {}
    /\ UNCHANGED <<queues, log, emitIdx, queueVars, consumers, channel, inbox, cargoVars, drainAck,
                   sync, answered, resumes, copied, syncs, quiet, escaped, excused, strayed, mishaps>>

ToldToResume_Answered == quiet  \* mutant: only the workers that answered
ToldToResume == Running

FinishSync ==
    /\ sync = "copying" /\ doc = {} /\ copied = Rows
    /\ sync' = "idle" /\ copied' = {}
    /\ Tell(IF resumes THEN ToldToResume ELSE {}, "resume")
    /\ UNCHANGED <<queues, log, emitIdx, table, queueVars, consumers, channel, cargoVars, drainAck,
                   answered, resumes, doc, syncs, quiet, escaped, excused, strayed, mishaps>>

\* The chain's API or a write fails: the error is logged and nobody is resumed.
FailSync ==
    /\ sync = "copying"
    /\ sync' = "idle" /\ copied' = {} /\ doc' = {}
    /\ strayed' = strayed \cup Paused
    /\ UNCHANGED <<queues, log, emitIdx, table, queueVars, consumers, channel, inbox, cargoVars, drainAck,
                   answered, resumes, syncs, quiet, escaped, excused, mishaps>>

-----------------------------------------------------------------------------
Consume(w) == Deliver(w) \/ StartBulk(w) \/ Write(w) \/ FinishBulk(w)
HandleIpc(w) == PauseIndexer(w) \/ PauseWithoutChannel(w) \/ ResumeIndexer(w)
Copy == ReceivePaused \/ ReadRow \/ WriteRow \/ FinishSync

Next ==
    \/ StoreAccount
    \/ \E w \in Workers :
        \/ Consume(w)
        \/ FailWrite(w)
        \/ HandleIpc(w)
        \/ Crash(w)
        \/ LoseConnection(w)
        \/ AssertQueues(w)
    \/ RequestPause
    \/ GiveUpPause
    \/ FailSync
    \/ Copy

Spec == Init /\ [][Next]_vars

\* The process of a worker and the command run while they can; the pause gives up
\* after ten seconds.
FairSpec ==
    /\ Spec
    /\ \A w \in UNION {1 .. n : n \in NumQueues} :
        /\ WF_vars(w \in Workers /\ Deliver(w))
        /\ WF_vars(w \in Workers /\ StartBulk(w))
        /\ WF_vars(w \in Workers /\ Write(w))
        /\ WF_vars(w \in Workers /\ FinishBulk(w))
        /\ WF_vars(w \in Workers /\ HandleIpc(w))
        /\ WF_vars(w \in Workers /\ AssertQueues(w))
    /\ WF_vars(Copy) /\ WF_vars(GiveUpPause)

-----------------------------------------------------------------------------
(* Properties *)

Delta == [row : Rows, present : BOOLEAN]

\* Chain, queues, workers and command keep their types; a second consumer on the
\* channel is the most a resumed worker has per command.
TypeOK ==
    /\ queues \in NumQueues
    /\ log \in Seq(Delta) /\ Len(log) + queues + syncs <= MaxLoad /\ emitIdx \in Workers
    /\ table \in [Rows -> 0 .. MaxLoad]
    /\ ready \in [Workers -> Seq(Blocks)] /\ unacked \in [Workers -> Seq(Blocks)]
    /\ consumers \in [Workers -> 0 .. 1 + syncs]
    /\ channel \in [Workers -> {"open", "lost", "down"}]
    /\ inbox \in [Workers -> Seq({"pause", "resume"})]
    /\ buffer \in [Workers -> Seq(Blocks)] /\ todo \in [Workers -> SUBSET Blocks]
    /\ bulk \in [Workers -> {"idle", "sent", "wedged"}] /\ drainAck \in [Workers -> BOOLEAN]
    /\ sync \in {"idle", "pausing", "copying"} /\ {answered, resumes} \subseteq BOOLEAN
    /\ copied \subseteq Rows /\ doc \subseteq [row : Rows, at : Blocks] /\ Cardinality(doc) <= 1
    /\ {quiet, escaped} \subseteq SUBSET Workers /\ excused \subseteq Blocks /\ strayed \subseteq Workers
    /\ mishaps \in 0 .. MaxMishaps /\ syncs \in 0 .. MaxLoad

AtRest ==
    /\ doc = {}
    /\ \A w \in Workers : ready[w] = <<>> /\ unacked[w] = <<>> /\ buffer[w] = <<>> /\ todo[w] = {}

\* When nothing is queued or being written, a row of the table is what the last delta
\* of the row made it, unless that delta shared a bulk write with another delta of the
\* row, failed, was acknowledged unwritten by a process that ended, overtook an older
\* one in another queue, or was written between the reading and the writing of the row
\* by the command.  A copy made while the workers were paused breaks no row, neither
\* does a bulk write still running when the pause was answered.
RowsFollowChain ==
    AtRest => \A r \in Rows : LastDelta(r) \notin excused => table[r] = OnChain(r)

\* A worker that answered the pause takes nothing from its queue and holds nothing
\* in its cargo until it is resumed, unless it lost its channel or its process while
\* it was to be paused: then it consumes at once, and has two consumers when it is
\* resumed, of which the next pause cancels one.
AnsweredWorkerIsQuiet == \A w \in quiet \ escaped : buffer[w] = <<>> /\ consumers[w] = 0

\* Pausing is temporary: every worker consumes again in the end, and its queue is
\* written, unless the command failed or gave up waiting while the worker was to
\* pause, or the worker's bulk write ended while its channel was gone.
WorkersResume ==
    <>[](\A w \in Workers :
            \/ consumers[w] > 0 /\ ready[w] = <<>> /\ buffer[w] = <<>> /\ todo[w] = {}
            \/ w \in strayed
            \/ bulk[w] = "wedged")
=============================================================================
