---------------------------- MODULE ReaderRanges ----------------------------
(***************************************************************************)
(* The back-fill of the indexer: the master process hands block ranges to  *)
(* a fixed set of range readers (src/indexer/modules/master.ts), each of   *)
(* them a worker process that reads its range from state history and       *)
(* publishes every block to RabbitMQ (src/indexer/workers/state-reader.ts).*)
(*                                                                         *)
(* A range [first, last) excludes its last block, as SHIP's                *)
(* end_block_num does.  Master and readers talk over one ordered IPC       *)
(* channel in each direction.  A reader may crash at any point; its IPC    *)
(* messages survive it, the messages sent to it do not, and the master     *)
(* relaunches it with the environment it was first forked with.            *)
(*                                                                         *)
(* The SHIP connection itself is taken as reliable here: what a dropped    *)
(* websocket does to one reader is the subject of ShipStream.              *)
(***************************************************************************)
EXTENDS Integers, Sequences, FiniteSets

CONSTANTS
    Start,        \* master.starting_block
    HeadBlock,    \* master.head: first block that is not back-filled
    BatchSize,    \* scaling.batch_size
    MaxReaders,   \* scaling.readers
    Ships,        \* explored: trace_begin_block and chain_state_begin_block of SHIP's status
    MaxCrashes,   \* bound: how many times a reader may crash on its own
    MaxPauses,    \* bound: how many times the queue monitor may pause
    MaxNacks      \* bound: how many blocks the broker may have refused at a time

ASSUME RangeAssumption ==
    /\ Start \in Nat /\ HeadBlock \in Nat /\ Start < HeadBlock
    /\ BatchSize \in Nat \ {0}
    /\ MaxReaders \in Nat \ {0}
    /\ Ships \subseteq [trace : Nat, state : Nat]
    /\ MaxCrashes \in Nat /\ MaxPauses \in Nat /\ MaxNacks \in Nat

Lesser(a, b) == IF a < b THEN a ELSE b
Greater(a, b) == IF a > b THEN a ELSE b

Ranges == [first : Nat, last : Nat]
Span(x) == x.first .. (x.last - 1)

\* Readers defined at setup: one per batch until the head, MaxReaders at most.
NumReaders == Lesser(MaxReaders, (HeadBlock - Start + BatchSize - 1) \div BatchSize)
Readers == 1 .. NumReaders

\* first_block and last_block of a reader's environment.
EnvRange(r) ==
    [first |-> Start + (r - 1) * BatchSize,
     last  |-> Lesser(Start + r * BatchSize, HeadBlock)]

NewRange(x) == [event |-> "new_range", range |-> x]
Pause == [event |-> "pause"]
Resume == [event |-> "resume"]
ReaderMsgs == [event : {"new_range"}, range : Ranges] \cup {Pause, Resume}

Completed == [event |-> "completed"]
UpdateLastAssigned(b) == [event |-> "update_last_assigned_block", block_num |-> b]
MasterMsgs == [event : {"completed"}] \cup [event : {"update_last_assigned_block"}, block_num : Nat]

VARIABLES
    \* master
    lastAssigned,  \* lastAssignedBlock
    activeReaders, \* activeReadersCount
    inMap,         \* readers still listed in workerMap
    readingPaused, \* queueMonitor.readingPaused
    stopping,      \* shutdownStarted and ~allowMoreReaders
    relaunches,    \* armed 5 s relaunch timers
    \* reader processes
    proc,          \* life cycle of each process
    job,           \* the range a reader was last given
    nextBlock,     \* local_block_num + 1
    count,         \* local_distributed_count
    unconf,        \* blocks sent to the broker and not confirmed yet
    allow,         \* allowRequests
    \* channels and environment
    toMaster, toReader,
    doomed,        \* readers the master has sent a SIGTERM
    settled,       \* blocks the broker holds, has handed on or has refused
    nacked,        \* history: the blocks it refused and was not sent again
    crashes, pauses,
    ship           \* SHIP's status, the same for every reader

masterVars == <<lastAssigned, activeReaders, inMap, readingPaused, stopping, relaunches>>
streamVars == <<job, nextBlock, count, unconf>>
ipcVars == <<toMaster, toReader>>
vars == <<masterVars, proc, streamVars, allow, ipcVars, doomed, settled, nacked, crashes, pauses, ship>>

ProcStates == {"starting",   \* forked, waiting for SHIP's status
               "streaming",  \* blocks of job requested
               "pending",    \* pendingRequest: paused before the request
               "completing", \* waiting for the broker's confirms
               "idle",       \* completion reported
               "dead",       \* exited, 'disconnect' not handled yet
               "down"}       \* wref undefined

\* The block the reader's status handler compares its range with.
BeginBlock == Greater(ship.state, ship.trace)

Alive(r) == proc[r] \notin {"dead", "down"}

Init ==
    /\ lastAssigned = Start + NumReaders * BatchSize
    /\ activeReaders = NumReaders
    /\ inMap = Readers
    /\ readingPaused = FALSE
    /\ stopping = FALSE
    /\ relaunches = 0
    /\ proc = [r \in Readers |-> "starting"]
    /\ job = [r \in Readers |-> EnvRange(r)]
    /\ nextBlock = [r \in Readers |-> EnvRange(r).first]
    /\ count = [r \in Readers |-> 0]
    /\ unconf = [r \in Readers |-> {}]
    /\ allow = [r \in Readers |-> TRUE]
    /\ toMaster = [r \in Readers |-> <<>>]
    /\ toReader = [r \in Readers |-> <<>>]
    /\ doomed = {}
    /\ settled = {}
    /\ nacked = {}
    /\ crashes = 0
    /\ pauses = 0
    /\ ship \in Ships

-----------------------------------------------------------------------------
(* Reader processes *)

Empty(x) == x.last <= x.first

\* newRange(data) of reader r, which also sends the messages in msgs before
\* anything else.  A range that trimming leaves empty is reported at once and
\* requested all the same: SHIP then sends nothing.
TakeRange(r, x, msgs) ==
    LET trimmed == [first |-> Greater(x.first, ship.trace), last |-> x.last]
        done == IF Empty(trimmed) THEN <<Completed>> ELSE <<>>
    IN  /\ toMaster' = [toMaster EXCEPT ![r] = @ \o msgs \o done]
        /\ job' = [job EXCEPT ![r] = trimmed]
        /\ count' = [count EXCEPT ![r] = 0]
        /\ IF allow[r]
           THEN /\ proc' = [proc EXCEPT ![r] = "streaming"]
                /\ nextBlock' = [nextBlock EXCEPT ![r] = trimmed.first]
           ELSE /\ proc' = [proc EXCEPT ![r] = "pending"]
                /\ UNCHANGED nextBlock

\* SHIP has every block of the reader's first range: requestBlocks(0), which
\* does not look at allowRequests.
RequestFirstRange(r) ==
    /\ proc[r] = "starting"
    /\ BeginBlock <= EnvRange(r).first
    /\ proc' = [proc EXCEPT ![r] = "streaming"]
    /\ UNCHANGED <<ship, masterVars, streamVars, allow, ipcVars, doomed, settled, nacked, crashes, pauses>>

\* SHIP begins after the reader's first block: skip to the first block it has
\* and tell the master that the assignment moved.
SkipToShipBegin(r) ==
    /\ proc[r] = "starting"
    /\ BeginBlock > EnvRange(r).first
    /\ LET capped == Lesser(BeginBlock + BatchSize, EnvRange(r).last)
           last == IF BeginBlock > capped THEN BeginBlock + BatchSize ELSE capped
       IN TakeRange(r, [first |-> BeginBlock, last |-> last],
                    <<UpdateLastAssigned(last)>>)
    /\ UNCHANGED <<ship, masterVars, unconf, allow, toReader, doomed, settled, nacked, crashes, pauses>>

\* handleBlockResult and recursiveDistribute: the next block of the range is
\* sent to the broker; the one that fills the range starts completion.
DistributeBlock(r) ==
    /\ proc[r] = "streaming"
    /\ nextBlock[r] < job[r].last
    /\ nextBlock' = [nextBlock EXCEPT ![r] = @ + 1]
    /\ unconf' = [unconf EXCEPT ![r] = @ \cup {nextBlock[r]}]
    /\ LET filled == count[r] + 1 = job[r].last - job[r].first
       IN /\ count' = [count EXCEPT ![r] = IF filled THEN 0 ELSE @ + 1]
          /\ proc' = [proc EXCEPT ![r] = IF filled THEN "completing" ELSE @]
    /\ UNCHANGED <<ship, masterVars, job, allow, ipcVars, doomed, settled, nacked, crashes, pauses>>

\* The broker confirms one block, or refuses one, which is only logged: nothing
\* sends it again unless another process reads the range again.
ConfirmBlock(r) ==
    /\ Alive(r)
    /\ \E b \in unconf[r] :
        /\ unconf' = [unconf EXCEPT ![r] = @ \ {b}]
        /\ settled' = settled \cup {b}
        /\ \/ nacked' = nacked \ {b}
           \/ /\ b \notin settled \ nacked
              /\ nacked' = nacked \cup {b}
              /\ Cardinality(nacked') <= MaxNacks
    /\ UNCHANGED <<ship, masterVars, proc, job, nextBlock, count, allow, ipcVars, doomed, crashes, pauses>>

AllConfirmed(r) == unconf[r] = {}

\* The 200 ms poll of signalReaderCompletion finds nothing unconfirmed.
ReportCompletion(r) ==
    /\ proc[r] = "completing"
    /\ AllConfirmed(r)
    /\ proc' = [proc EXCEPT ![r] = "idle"]
    /\ toMaster' = [toMaster EXCEPT ![r] = Append(@, Completed)]
    /\ UNCHANGED <<ship, masterVars, streamVars, allow, toReader, doomed, settled, nacked, crashes, pauses>>

\* onIpcMessage
ReceiveNewRange(r) ==
    /\ Alive(r)
    /\ toReader[r] # <<>>
    /\ Head(toReader[r]).event = "new_range"
    /\ TakeRange(r, Head(toReader[r]).range, <<>>)
    /\ toReader' = [toReader EXCEPT ![r] = Tail(@)]
    /\ UNCHANGED <<ship, masterVars, unconf, allow, doomed, settled, nacked, crashes, pauses>>

\* A pause only stops the next request; the range being read goes on.
ReceivePause(r) ==
    /\ Alive(r)
    /\ toReader[r] # <<>>
    /\ Head(toReader[r]).event = "pause"
    /\ allow' = [allow EXCEPT ![r] = FALSE]
    /\ toReader' = [toReader EXCEPT ![r] = Tail(@)]
    /\ UNCHANGED <<ship, masterVars, proc, streamVars, toMaster, doomed, settled, nacked, crashes, pauses>>

HoldsRequest(r) == proc[r] = "pending"

\* A resume also sends the pending request, if there is one (processPending).
ReceiveResume(r) ==
    /\ Alive(r)
    /\ toReader[r] # <<>>
    /\ Head(toReader[r]).event = "resume"
    /\ allow' = [allow EXCEPT ![r] = TRUE]
    /\ toReader' = [toReader EXCEPT ![r] = Tail(@)]
    /\ IF HoldsRequest(r)
       THEN /\ proc' = [proc EXCEPT ![r] = "streaming"]
            /\ nextBlock' = [nextBlock EXCEPT ![r] = job[r].first]
       ELSE UNCHANGED <<proc, nextBlock>>
    /\ UNCHANGED <<ship, masterVars, job, count, unconf, toMaster, doomed, settled, nacked, crashes, pauses>>

\* The process exits, killed by the master or on its own.  Any part of what
\* the broker had not confirmed may have reached it.
Exit(r) ==
    /\ Alive(r)
    /\ IF r \in doomed THEN UNCHANGED crashes
       ELSE crashes < MaxCrashes /\ crashes' = crashes + 1
    /\ \E kept \in SUBSET unconf[r] :
        /\ settled' = settled \cup kept
        /\ nacked' = nacked \ kept
    /\ unconf' = [unconf EXCEPT ![r] = {}]
    /\ proc' = [proc EXCEPT ![r] = "dead"]
    /\ toReader' = [toReader EXCEPT ![r] = <<>>]
    /\ UNCHANGED <<ship, masterVars, job, nextBlock, count, allow, toMaster, doomed, pauses>>

-----------------------------------------------------------------------------
(* Master process *)

\* messageAllWorkers and sendToRole: a process that is gone receives nothing.
SendTo(to, msg) ==
    toReader' = [r \in Readers |->
                   IF r \in to /\ Alive(r) THEN Append(toReader[r], msg) ELSE toReader[r]]

FromReader(r, event) ==
    /\ toMaster[r] # <<>>
    /\ Head(toMaster[r]).event = event
    /\ toMaster' = [toMaster EXCEPT ![r] = Tail(@)]

\* The range that follows lastAssignedBlock, cut at the head.
NextRange_Uncut == [first |-> lastAssigned, last |-> lastAssigned + BatchSize]  \* mutant
NextRange ==
    [first |-> lastAssigned, last |-> Lesser(lastAssigned + BatchSize, HeadBlock)]

MarkAssigned_Inclusive(x) == lastAssigned' = x.last - 1  \* mutant: last is taken as read
MarkAssigned(x) == lastAssigned' = x.last

CountReassigned == activeReaders' = activeReaders - 1 + 1

\* 'completed', another range is left: it goes to the same reader.
AssignNextRange(r) ==
    /\ FromReader(r, "completed")
    /\ activeReaders - 1 < MaxReaders /\ lastAssigned < HeadBlock /\ ~stopping
    /\ SendTo({r}, NewRange(NextRange))
    /\ MarkAssigned(NextRange)
    /\ CountReassigned
    /\ UNCHANGED <<ship, inMap, readingPaused, stopping, relaunches, proc, streamVars, allow,
                   doomed, settled, nacked, crashes, pauses>>

AllAssigned_Beyond == lastAssigned > HeadBlock  \* mutant: off by one
AllAssigned == lastAssigned >= HeadBlock

\* 'completed', everything is assigned: all the readers are removed and killed.
FinishReaders(r) ==
    /\ FromReader(r, "completed")
    /\ AllAssigned
    /\ activeReaders' = activeReaders - 1
    /\ inMap' = {}
    /\ doomed' = doomed \cup {q \in inMap : proc[q] # "down"}
    /\ UNCHANGED <<ship, lastAssigned, readingPaused, stopping, relaunches, proc, streamVars, allow,
                   toReader, settled, nacked, crashes, pauses>>

\* 'completed', a range is left but no reader may take it.
RetireReader(r) ==
    /\ FromReader(r, "completed")
    /\ ~(activeReaders - 1 < MaxReaders /\ ~stopping)
    /\ lastAssigned < HeadBlock
    /\ activeReaders' = activeReaders - 1
    /\ UNCHANGED <<ship, lastAssigned, inMap, readingPaused, stopping, relaunches, proc, streamVars,
                   allow, toReader, doomed, settled, nacked, crashes, pauses>>

\* 'update_last_assigned_block' overwrites the assignment mark.
MoveAssignment(r) ==
    /\ FromReader(r, "update_last_assigned_block")
    /\ lastAssigned' = Head(toMaster[r]).block_num
    /\ UNCHANGED <<ship, activeReaders, inMap, readingPaused, stopping, relaunches, proc, streamVars,
                   allow, toReader, doomed, settled, nacked, crashes, pauses>>

ArmsRelaunch(r) == ~stopping /\ r \in inMap

\* handleWorkerDisconnect, which follows every message of the process.
HandleDisconnect(r) ==
    /\ proc[r] = "dead"
    /\ toMaster[r] = <<>>
    /\ proc' = [proc EXCEPT ![r] = "down"]
    /\ relaunches' = IF ArmsRelaunch(r) THEN relaunches + 1 ELSE relaunches
    /\ UNCHANGED <<ship, lastAssigned, activeReaders, inMap, readingPaused, stopping, streamVars,
                   allow, ipcVars, doomed, settled, nacked, crashes, pauses>>

RelaunchRange_Resumed(r) ==  \* mutant: the new process goes on where the old one was
    [EnvRange(r) EXCEPT !.first = nextBlock[r]]
RelaunchRange(r) == EnvRange(r)

\* A relaunch timer fires: launchWorkers forks every reader of the map that
\* has no process, each with the environment of its definition.
Relaunch ==
    /\ relaunches > 0
    /\ relaunches' = relaunches - 1
    /\ LET fresh == {r \in inMap : proc[r] = "down"}
       IN /\ proc' = [r \in Readers |-> IF r \in fresh THEN "starting" ELSE proc[r]]
          /\ job' = [r \in Readers |-> IF r \in fresh THEN RelaunchRange(r) ELSE job[r]]
          /\ nextBlock' = [r \in Readers |->
                             IF r \in fresh THEN RelaunchRange(r).first ELSE nextBlock[r]]
          /\ count' = [r \in Readers |-> IF r \in fresh THEN 0 ELSE count[r]]
          /\ allow' = [r \in Readers |-> IF r \in fresh THEN TRUE ELSE allow[r]]
    /\ UNCHANGED <<ship, lastAssigned, activeReaders, inMap, readingPaused, stopping, unconf, ipcVars,
                   doomed, settled, nacked, crashes, pauses>>

\* checkQueues: some queue is at its limit.
PauseReaders ==
    /\ ~readingPaused
    /\ pauses < MaxPauses
    /\ pauses' = pauses + 1
    /\ readingPaused' = TRUE
    /\ SendTo(inMap, Pause)
    /\ UNCHANGED <<ship, lastAssigned, activeReaders, inMap, stopping, relaunches, proc, streamVars,
                   allow, toMaster, doomed, settled, nacked, crashes>>

\* checkQueues: every queue is below resume_trigger.
ResumeReaders ==
    /\ readingPaused
    /\ readingPaused' = FALSE
    /\ SendTo(inMap, Resume)
    /\ UNCHANGED <<ship, lastAssigned, activeReaders, inMap, stopping, relaunches, proc, streamVars,
                   allow, toMaster, doomed, settled, nacked, crashes, pauses>>

\* gracefulStop: the range readers ignore the 'stop' message it sends.
GracefulStop ==
    /\ ~stopping
    /\ stopping' = TRUE
    /\ UNCHANGED <<ship, lastAssigned, activeReaders, inMap, readingPaused, relaunches, proc,
                   streamVars, allow, ipcVars, doomed, settled, nacked, crashes, pauses>>

-----------------------------------------------------------------------------
ReaderStep(r) ==
    \/ RequestFirstRange(r)
    \/ SkipToShipBegin(r)
    \/ DistributeBlock(r)
    \/ ConfirmBlock(r)
    \/ ReportCompletion(r)
    \/ ReceiveNewRange(r)
    \/ ReceivePause(r)
    \/ ReceiveResume(r)

MasterStep(r) ==
    \/ AssignNextRange(r)
    \/ FinishReaders(r)
    \/ RetireReader(r)
    \/ MoveAssignment(r)
    \/ HandleDisconnect(r)

Next ==
    \/ \E r \in Readers : ReaderStep(r) \/ MasterStep(r) \/ Exit(r)
    \/ Relaunch
    \/ PauseReaders
    \/ ResumeReaders
    \/ GracefulStop

Spec == Init /\ [][Next]_vars

\* What runs on its own: the readers and the master's handlers and timers.
\* The queues drain sooner or later, so a pause ends.  Crashes, pauses and the
\* operator's stop need not happen.
Fairness ==
    /\ \A r \in Readers : WF_vars(ReaderStep(r)) /\ WF_vars(MasterStep(r))
    /\ \A r \in Readers : WF_vars(r \in doomed /\ Exit(r))
    /\ WF_vars(Relaunch)
    /\ WF_vars(ResumeReaders)

FairSpec == Spec /\ Fairness

-----------------------------------------------------------------------------
(* Properties *)

\* Type invariant of the master's, the readers' and the channels' state.
TypeOK ==
    /\ lastAssigned \in Nat
    /\ activeReaders \in Int
    /\ inMap \subseteq Readers /\ doomed \subseteq Readers
    /\ readingPaused \in BOOLEAN /\ stopping \in BOOLEAN
    /\ relaunches \in Nat /\ crashes \in Nat /\ pauses \in Nat
    /\ proc \in [Readers -> ProcStates]
    /\ job \in [Readers -> Ranges]
    /\ nextBlock \in [Readers -> Nat]
    /\ count \in [Readers -> Nat]
    /\ unconf \in [Readers -> SUBSET Nat]
    /\ allow \in [Readers -> BOOLEAN]
    /\ toMaster \in [Readers -> Seq(MasterMsgs)]
    /\ toReader \in [Readers -> Seq(ReaderMsgs)]
    /\ settled \subseteq Nat /\ nacked \subseteq Nat
    /\ ship \in [trace : Nat, state : Nat]

\* new_range messages on their way to a reader.
InFlight(r) ==
    {toReader[r][i].range : i \in {k \in DOMAIN toReader[r] : toReader[r][k].event = "new_range"}}

\* Every range a reader process may still read, now or after a relaunch.
Claims(r) == {EnvRange(r), job[r]} \cup InFlight(r)

\* SHIP has every block from starting_block on, so no reader skips ahead.
ShipCoversStart == BeginBlock <= Start

\* As long as SHIP has the whole range, no block belongs to two readers: whatever
\* the order of completions, crashes and relaunches, the ranges two readers may read
\* have no block in common (master.ts 'completed' and setupReaders share one
\* lastAssignedBlock).
NoSharedBlock ==
    ShipCoversStart => \A r, s \in Readers : r # s =>
        \A x \in Claims(r), y \in Claims(s) : Span(x) \cap Span(y) = {}

\* As long as SHIP has the whole range, nothing past the head is assigned, even though
\* setupReaders advances lastAssignedBlock by whole batches.
NothingPastHead ==
    ShipCoversStart => \A r \in Readers : \A x \in Claims(r) : x.last <= HeadBlock

\* What is left of the range a reader process has, or gets when it is forked again.
Unread(r) ==
    IF proc[r] \in {"starting", "pending"} THEN Span(job[r])
    ELSE IF proc[r] = "streaming" THEN nextBlock[r] .. (job[r].last - 1)
    ELSE IF proc[r] = "dead" \/ (proc[r] = "down" /\ r \in inMap /\ relaunches > 0)
    THEN Span(EnvRange(r))
    ELSE {}

\* Blocks reader r will still publish if nothing happens to it.
Remaining(r) == (UNION {Span(x) : x \in InFlight(r)}) \cup unconf[r] \cup Unread(r)

Finished == inMap = {}

\* Until the master dismisses the readers, an assigned block is settled or
\* some reader is on its way to publish it: every block as long as no reader
\* crashed, and those of a reader's first range after any number of crashes,
\* because a timer is armed to relaunch the process, which reads the range of its
\* environment again (unless the indexer is told to stop).  A block the broker refused
\* is excepted: it is settled, and the reader only logs it.
NoBlockForgotten ==
    ~Finished =>
        \A b \in Greater(Start, BeginBlock) .. (Lesser(lastAssigned, HeadBlock) - 1) :
            \/ crashes > 0 /\ (stopping \/ \A r \in Readers : b \notin Span(EnvRange(r)))
            \/ b \in settled
            \/ \E r \in Readers : b \in Remaining(r)

\* The master's "Parallel readers finished the requested range" is true when
\* it is logged: every block of the range that SHIP has was published.
FinishedMeansPublished ==
    Finished => Greater(Start, BeginBlock) .. (HeadBlock - 1) \subseteq settled \ nacked

\* Back-filling ends: with the readers and the master running, the readers
\* are dismissed, or the operator stopped the indexer.
BackfillEnds == <>(Finished \/ stopping)
=============================================================================
