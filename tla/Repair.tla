------------------------------- MODULE Repair -------------------------------
(***************************************************************************)
(* hyp-repair at work: a scan reports gaps and forks, the tool deletes the *)
(* documents of forks and sends ranges in chunks over the controller's     *)
(* websocket (src/cli/repair-cli/repair.ts); the master feeds them one at  *)
(* a time to the repair reader (src/indexer/modules/master.ts); the reader *)
(* streams each from SHIP (src/indexer/workers/state-reader.ts).           *)
(*                                                                         *)
(* The tool may be interrupted and resumed, the reader may crash, and any  *)
(* other session of the controller may close.  SHIP, Elasticsearch and the *)
(* pipeline behind the reader are reliable here: a block that is read is   *)
(* indexed.  Pauses of the queue monitor are in ReaderRanges.              *)
(***************************************************************************)
EXTENDS RepairScan

CONSTANTS
    ToolBatch,     \* scaling.batch_size as the tool reads it
    IndexerBatch,  \* scaling.batch_size the indexer was started with
    ChunkSize,     \* ranges per message
    RepairBegin,    \* trace_begin_block in SHIP's status
    Repaired,      \* the damaged indexes whose repair is explored
    MaxRepairCrashes,    \* bound: repairCrashes of the repair reader
    MaxInterrupts, \* bound: SIGINTs
    MaxCloses      \* bound: other controller sessions that close

ASSUME RepairAssumption ==
    /\ ToolBatch \in Nat \ {0} /\ IndexerBatch \in Nat \ {0} /\ ChunkSize \in Nat \ {0}
    /\ RepairBegin \in Nat /\ Repaired \subseteq Indexes
    /\ MaxRepairCrashes \in Nat /\ MaxInterrupts \in Nat /\ MaxCloses \in Nat

VARIABLES
    index,       \* the block index
    docs,        \* blocks whose actions and deltas are indexed
    accounts,    \* blocks whose changes of accounts and voters are
    rows,        \* and those of proposals, links and permissions
    \* the tool
    phase,       \* what the command is doing
    file,        \* the preprocessed ranges of its file
    line,        \* lastProcessedLine
    saved,       \* fill-state.json: line of an interrupted session, or NoSession
    deleted,     \* blocks whose documents repairChain deleted
    \* the master
    connected,   \* connectedController is the tool's socket
    pending,     \* pendingRepairRanges
    answered,    \* repair_completed is on its way to the tool
    \* the repair reader and its IPC channels
    reader,      \* life cycle of the worker
    task,         \* the range it streams, last excluded
    next,        \* local_block_num + 1
    internal,    \* internalPendingRanges
    toRepair, fromRepair,
    \* history
    fresh,       \* blocks the reader has read
    lost,        \* blocks of ranges that went to a dead reader, died with it, or were trimmed
    overlapped,  \* a fill request arrived while the reader was busy
    repairCrashes, interrupts, closes

indexVars == <<index, docs, accounts, rows>>
toolVars == <<phase, file, line, saved, deleted>>
fillVars == <<connected, pending, answered>>
readerVars == <<reader, task, next, internal, toRepair>>
history == <<fresh, lost, overlapped, repairCrashes, interrupts, closes>>
repairVars == <<indexVars, toolVars, fillVars, readerVars, fromRepair, history>>

NoSession == -1
NoJob == [first |-> 0, last |-> 0]
SpanOf(r) == r.first .. (r.last - 1)

Phases == {"fresh", "damaged", "deletingAccounts", "deletingRows", "deletingBlocks",
           "filling", "waiting", "stopped", "done"}
ReaderStates == {"none", "starting", "idle", "busy", "dead", "down"}

RepairInit ==
    /\ index = [n \in Blocks |-> "ok"] /\ docs = Blocks /\ accounts = Blocks /\ rows = Blocks
    /\ phase = "fresh" /\ file = <<>> /\ line = 0 /\ saved = NoSession /\ deleted = {}
    /\ connected = FALSE /\ pending = <<>> /\ answered = FALSE
    /\ reader = "none" /\ task = NoJob /\ next = 0 /\ internal = <<>>
    /\ toRepair = <<>> /\ fromRepair = <<>>
    /\ fresh = {} /\ lost = {} /\ overlapped = FALSE
    /\ repairCrashes = 0 /\ interrupts = 0 /\ closes = 0

\* What was indexed wrongly before the tool is started.  The scans begin at the first
\* block that has a document, here block 1.
Damage ==
    /\ phase = "fresh"
    /\ \E ix \in Indexes :
        /\ ix[1] = "ok"
        /\ index' = ix
        /\ docs' = Stored(ix)
        /\ accounts' = Stored(ix)
        /\ rows' = Stored(ix)
    /\ phase' = "damaged"
    /\ UNCHANGED <<file, line, saved, deleted, fillVars, readerVars, fromRepair, history>>

-----------------------------------------------------------------------------
(* the tool *)

\* fill-missing with the gaps of a scan or of a quick scan.
FillMissing ==
    /\ phase = "damaged" /\ index \in Repaired
    /\ \E gaps \in {ScanChain(index).missing,
                    QuickScanChain(index, FirstIndexed(index), LastIndexed(index))} :
        file' = PreprocessRanges(gaps, ToolBatch)
    /\ phase' = "filling"
    /\ UNCHANGED <<indexVars, line, saved, deleted, fillVars, readerVars, fromRepair, history>>

\* The forks the last scan wrote to the file of hyp-repair repair.
Forks == ScanChain(index).errors
ForkIds == UNION {Forks[i].ids : i \in DOMAIN Forks}
ForkRange == UNION {Forks[i].end .. Forks[i].start : i \in DOMAIN Forks}

DeleteHistory_WithBlocks ==
    /\ phase = "damaged" /\ index \in Repaired /\ Forks # <<>>
    /\ docs' = docs \ ForkRange
    /\ index' = [n \in Blocks |-> IF n \in ForkIds THEN "absent" ELSE index[n]]
    /\ phase' = "deletingAccounts"
    /\ UNCHANGED <<accounts, rows, file, line, saved, deleted, fillVars, readerVars, fromRepair, history>>

\* repairChain: the actions, deltas and ABIs of [end, start] go,
DeleteHistory ==
    /\ phase = "damaged" /\ index \in Repaired /\ Forks # <<>>
    /\ docs' = docs \ ForkRange
    /\ phase' = "deletingAccounts"
    /\ UNCHANGED <<index, accounts, rows, file, line, saved, deleted, fillVars, readerVars, fromRepair, history>>

\* then the accounts and voters,
DeleteAccounts ==
    /\ phase = "deletingAccounts"
    /\ accounts' = accounts \ ForkRange
    /\ phase' = "deletingRows"
    /\ UNCHANGED <<index, docs, rows, file, line, saved, deleted, fillVars, readerVars, fromRepair, history>>

\* the proposals, links and permissions,
DeleteRows ==
    /\ phase = "deletingRows"
    /\ rows' = rows \ ForkRange
    /\ phase' = "deletingBlocks"
    /\ UNCHANGED <<index, docs, accounts, file, line, saved, deleted, fillVars, readerVars, fromRepair, history>>

\* the blocks only by their id, last; then the file is filled as it is.
DeleteBlocks ==
    /\ phase = "deletingBlocks"
    /\ index' = [n \in Blocks |-> IF n \in ForkIds THEN "absent" ELSE index[n]]
    /\ deleted' = ForkIds \cup ForkRange
    /\ file' = PreprocessRanges(Forks, ToolBatch)
    /\ phase' = "filling"
    /\ UNCHANGED <<docs, accounts, rows, line, saved, fillVars, readerVars, fromRepair, history>>

\* A request that fails, or a SIGINT, ends the command where it is; the operator
\* scans again and repeats it.
DeleteFails ==
    /\ phase \in {"deletingAccounts", "deletingRows", "deletingBlocks"} /\ interrupts < MaxInterrupts
    /\ phase' = "damaged"
    /\ interrupts' = interrupts + 1
    /\ UNCHANGED <<indexVars, file, line, saved, deleted, fillVars, readerVars, fromRepair,
                   fresh, lost, overlapped, repairCrashes, closes>>

\* A range the master keeps.
IsRange(r) == r.end - r.start >= 0

\* The ranges of a message that are to be read, the last one first.
Backwards(chunk) == FoldLeft(LAMBDA acc, r : IF IsRange(r) THEN <<r>> \o acc ELSE acc, <<>>, chunk)

\* sendPendingRepairRanges.  worker is what the master knows of the reader; a
\* message to one that is starting may come before its handlers are there.
SendPending(ranges, before, tool) ==
    IF ranges = <<>>
    THEN /\ answered' = (before \/ tool)
         /\ pending' = <<>>
         /\ UNCHANGED <<toRepair, lost>>
    ELSE LET r == [first |-> Head(ranges).start, last |-> Head(ranges).end + 1]
         IN  /\ pending' = Tail(ranges)
             /\ answered' = before
             /\ \/ /\ reader \in {"idle", "busy"}
                   /\ toRepair' = Append(toRepair, r)
                   /\ UNCHANGED lost
                \/ /\ reader \in {"starting", "dead", "down"}
                   /\ lost' = lost \cup SpanOf(r)
                   /\ UNCHANGED toRepair

ReaderBusy == reader = "busy" \/ toRepair # <<>> \/ fromRepair # <<>>

\* sendChunk of the ranges after line l, and the master's fillMissingBlocks: the
\* sender becomes connectedController, its ranges replace the pending ones, last
\* one first.
Send(l) ==
    /\ LET rest == SubSeq(file, l + 1, Len(file))
           chunk == SubSeq(rest, 1, IF Len(rest) < ChunkSize THEN Len(rest) ELSE ChunkSize)
           ranges == Backwards(chunk)
       IN  IF reader = "none"
           THEN /\ reader' = "starting" /\ pending' = ranges /\ answered' = FALSE
                /\ UNCHANGED <<toRepair, lost>>
           ELSE SendPending(ranges, FALSE, TRUE) /\ UNCHANGED reader
    /\ connected' = TRUE
    /\ phase' = "waiting"
    /\ overlapped' = (overlapped \/ ReaderBusy)
    /\ UNCHANGED <<indexVars, file, saved, deleted, task, next, internal, fromRepair,
                   fresh, repairCrashes, interrupts, closes>>

\* The controller's socket is open: the first chunk.
FirstChunk ==
    /\ phase = "filling" /\ line < Len(file)
    /\ Send(line)
    /\ UNCHANGED line

NextChunk_SkipsLine ==
    /\ phase = "waiting" /\ answered /\ line + ChunkSize < Len(file)
    /\ line' = line + ChunkSize + 1
    /\ Send(line + ChunkSize + 1)

\* repair_completed resolves the chunk and the loop sends the next one.
NextChunk ==
    /\ phase = "waiting" /\ answered /\ line + ChunkSize < Len(file)
    /\ line' = line + ChunkSize
    /\ Send(line + ChunkSize)

LastChunk ==
    /\ phase = "waiting" /\ answered /\ line + ChunkSize >= Len(file)
    /\ line' = line + ChunkSize
    /\ answered' = FALSE
    /\ phase' = "filling"
    /\ UNCHANGED <<indexVars, file, saved, deleted, connected, pending, readerVars, fromRepair, history>>

\* All lines sent: the session is dropped from the state file, the socket closed.
Finish ==
    /\ phase = "filling" /\ line >= Len(file)
    /\ phase' = "done"
    /\ saved' = NoSession
    /\ connected' = FALSE
    /\ UNCHANGED <<indexVars, file, line, deleted, pending, answered, readerVars, fromRepair, history>>

\* SIGINT: saveState, and the process exits.
Interrupt ==
    /\ phase \in {"filling", "waiting"} /\ interrupts < MaxInterrupts
    /\ phase' = "stopped"
    /\ saved' = line
    /\ connected' = FALSE
    /\ answered' = FALSE
    /\ interrupts' = interrupts + 1
    /\ UNCHANGED <<indexVars, file, line, deleted, pending, readerVars, fromRepair,
                   fresh, lost, overlapped, repairCrashes, closes>>

\* repairMissing finds the session and resumes at its line; a session that has
\* no line left is dropped and the file filled from the start.
ResumeFill ==
    /\ phase = "stopped"
    /\ line' = IF saved < Len(file) THEN saved ELSE 0
    /\ saved' = IF saved < Len(file) THEN saved ELSE NoSession
    /\ phase' = "filling"
    /\ UNCHANGED <<indexVars, file, deleted, fillVars, readerVars, fromRepair, history>>

-----------------------------------------------------------------------------
(* the master *)

\* Any session that closes makes the controller forget the one that waits.
OtherSessionCloses ==
    /\ connected /\ closes < MaxCloses
    /\ connected' = FALSE
    /\ closes' = closes + 1
    /\ UNCHANGED <<indexVars, toolVars, pending, answered, readerVars, fromRepair,
                   fresh, lost, overlapped, repairCrashes, interrupts>>

OnReaderMessage_NoAnswer ==
    /\ fromRepair # <<>>
    /\ fromRepair' = Tail(fromRepair)
    /\ SendPending(pending, answered, FALSE)
    /\ UNCHANGED <<indexVars, toolVars, connected, reader, task, next, internal,
                   fresh, overlapped, repairCrashes, interrupts, closes>>

\* repair_reader_ready and completed, the latter of the repair reader.
OnReaderMessage ==
    /\ fromRepair # <<>>
    /\ fromRepair' = Tail(fromRepair)
    /\ SendPending(pending, answered, connected)
    /\ UNCHANGED <<indexVars, toolVars, connected, reader, task, next, internal,
                   fresh, overlapped, repairCrashes, interrupts, closes>>

\* handleWorkerDisconnect, after the messages of the dead worker.
OnDisconnect ==
    /\ reader = "dead" /\ fromRepair = <<>>
    /\ reader' = "down"
    /\ UNCHANGED <<indexVars, toolVars, fillVars, task, next, internal, toRepair, fromRepair, history>>

\* Five seconds later; an answer that is on its way has arrived by then.
RelaunchRepair ==
    /\ reader = "down" /\ ~answered
    /\ reader' = "starting"
    /\ UNCHANGED <<indexVars, toolVars, fillVars, task, next, internal, toRepair, fromRepair, history>>

-----------------------------------------------------------------------------
(* the repair reader *)

\* handleStatusResult: the reader waits for operations.
Ready ==
    /\ reader = "starting"
    /\ reader' = "idle"
    /\ fromRepair' = Append(fromRepair, "repair_reader_ready")
    /\ UNCHANGED <<indexVars, toolVars, fillVars, task, next, internal, toRepair, history>>

\* The pieces newRange cuts a large range into: each excludes its last block
\* and the next begins after it.
Split(r) ==
    [i \in 1 .. ((r.last - r.first + IndexerBatch) \div (IndexerBatch + 1)) |->
        LET s == r.first + (i - 1) * (IndexerBatch + 1)
        IN  [first |-> s, last |-> IF s + IndexerBatch > r.last THEN r.last ELSE s + IndexerBatch]]

Trim(r) == [r EXCEPT !.first = IF @ < RepairBegin THEN RepairBegin ELSE @]

\* newRange(r) with the ranges waiting inside the reader; a range that SHIP does
\* not have at all is reported completed and still requested.
StartRange(r, waiting) ==
    LET t == Trim(r)
        pieces == Split(t)
        large == t.last - t.first > IndexerBatch
    IN  /\ task' = IF large THEN pieces[1] ELSE t
        /\ next' = t.first
        /\ internal' = IF large THEN Tail(pieces) ELSE waiting
        /\ reader' = IF t.last > t.first THEN "busy" ELSE "idle"
        /\ fromRepair' = IF t.last > t.first THEN fromRepair ELSE Append(fromRepair, "completed")
        /\ lost' = lost \cup (SpanOf(r) \ SpanOf(t))

OnNewRange ==
    /\ reader \in {"idle", "busy"} /\ toRepair # <<>>
    /\ StartRange(Head(toRepair), internal)
    /\ toRepair' = Tail(toRepair)
    /\ UNCHANGED <<indexVars, toolVars, fillVars, fresh, overlapped, repairCrashes, interrupts, closes>>

RepairBlock ==
    /\ reader = "busy" /\ next < task.last
    /\ next' = next + 1
    /\ fresh' = fresh \cup {next}
    /\ index' = [index EXCEPT ![next] = "ok"]
    /\ docs' = docs \cup {next}
    /\ accounts' = accounts \cup {next}
    /\ rows' = rows \cup {next}
    /\ UNCHANGED <<toolVars, fillVars, reader, task, internal, toRepair, fromRepair,
                   lost, overlapped, repairCrashes, interrupts, closes>>

\* signalReaderCompletion: the next piece, or completed to the master.
RangeCompleted ==
    /\ reader = "busy" /\ next >= task.last
    /\ IF internal # <<>>
       THEN StartRange(Head(internal), Tail(internal))
       ELSE /\ reader' = "idle"
            /\ fromRepair' = Append(fromRepair, "completed")
            /\ UNCHANGED <<task, next, internal, lost>>
    /\ UNCHANGED <<indexVars, toolVars, fillVars, toRepair,
                   fresh, overlapped, repairCrashes, interrupts, closes>>

Crash ==
    /\ reader \in {"starting", "idle", "busy"} /\ repairCrashes < MaxRepairCrashes
    /\ reader' = "dead"
    /\ repairCrashes' = repairCrashes + 1
    /\ lost' = lost \cup (next .. (task.last - 1))
                    \cup (UNION {SpanOf(toRepair[i]) : i \in DOMAIN toRepair})
                    \cup (UNION {SpanOf(internal[i]) : i \in DOMAIN internal})
    /\ task' = NoJob /\ next' = 0 /\ internal' = <<>> /\ toRepair' = <<>>
    /\ UNCHANGED <<indexVars, toolVars, fillVars, fromRepair, fresh, overlapped, interrupts, closes>>

-----------------------------------------------------------------------------
Tool == FirstChunk \/ NextChunk \/ LastChunk \/ Finish
Master == OnReaderMessage \/ OnDisconnect \/ RelaunchRepair
Reader == Ready \/ OnNewRange \/ RepairBlock \/ RangeCompleted

RepairNext ==
    \/ Damage \/ FillMissing
    \/ DeleteHistory \/ DeleteAccounts \/ DeleteRows \/ DeleteBlocks \/ DeleteFails
    \/ Tool \/ Interrupt \/ ResumeFill
    \/ OtherSessionCloses \/ Master
    \/ Reader \/ Crash

RepairFairness == WF_repairVars(Tool) /\ WF_repairVars(Master) /\ WF_repairVars(Reader)

RepairSpec == RepairInit /\ [][RepairNext]_repairVars
RepairFairSpec == RepairSpec /\ RepairFairness

-----------------------------------------------------------------------------
RepairTypeOK ==
    /\ index \in Indexes /\ docs \subseteq Blocks /\ accounts \subseteq Blocks /\ rows \subseteq Blocks
    /\ phase \in Phases /\ line \in Nat /\ saved \in Nat \cup {NoSession}
    /\ connected \in BOOLEAN /\ answered \in BOOLEAN
    /\ reader \in ReaderStates /\ next \in Nat
    /\ fresh \subseteq Blocks /\ lost \subseteq Blocks /\ deleted \subseteq Blocks

\* Blocks that no piece of a split range covers; the pieces are counted from where
\* SHIP's history begins.
SkippedBySplit(r) ==
    LET t == Trim([first |-> r.start, last |-> r.end + 1])
    IN  IF t.last - t.first <= IndexerBatch THEN {}
        ELSE {n \in SpanOf(t) : (n - t.first + 1) % (IndexerBatch + 1) = 0}

\* When the tool is done every block of its file was read again, except those
\* between the pieces of a split range and those of ranges that a dead reader
\* took with it: the answers of the reader stand for the ranges they follow,
\* also across interruptions, as long as no request met a busy reader.
DoneMeansRead ==
    phase = "done" /\ ~overlapped =>
        \A i \in DOMAIN file : RangeOf(file[i]) \subseteq fresh \cup lost \cup SkippedBySplit(file[i])

\* The reader is given one range at a time: a range that waits is never
\* overtaken by the completion of another.
OneRangeAtATime ==
    ~overlapped => Len(toRepair) + Len(fromRepair) + (IF reader = "busy" THEN 1 ELSE 0) <= 1

\* The quick scan reports exactly the numbers without a document.
QuickScanExact ==
    phase = "damaged" =>
        LET first == FirstIndexed(index)
            last == LastIndexed(index)
        IN  Covered(QuickScanChain(index, first, last)) = (first .. last) \ Stored(index)

\* The scan by pages reports exactly the gaps although pages are cut at their
\* size and their neighbours meet on one block.
ScanGapsExact(scan) ==
    Covered(scan.missing) = (FirstIndexed(index) .. LastIndexed(index)) \ Stored(index)

\* One whole fork branch that is the only damage is reported, all of it, if one
\* page sees it with its child and two blocks of the chain below it; whatever
\* the damage, only forked blocks are listed for deletion.
ScanForks(scan) ==
    LET last == LastIndexed(index)
        ids == UNION {scan.errors[i].ids : i \in DOMAIN scan.errors}
        forked == {n \in Blocks : Forked(index, n)}
        from(i) == last - (i - 1) * ScanBatch
        seen == \E i \in 1 .. NumBlocks :
                   \A n \in forked : n + 1 <= from(i) + 1 /\ n - 2 > from(i) - ScanBatch
    IN  /\ ids \subseteq forked
        /\ /\ \E a, b \in 3 .. (NumBlocks - 1) :
                  /\ forked = a .. b
                  /\ index[a] = "branch" /\ \A n \in (a + 1) .. b : index[n] = "twig"
           /\ Stored(index) = Blocks
           /\ seen
           => forked = ids

ScanChainExact(scan) == ScanGapsExact(scan) /\ ScanForks(scan)

\* The search for missing actions reports exactly the blocks that lack some, and
\* with a minimum range size at least those.
ScanActionsExact ==
    phase = "damaged" =>
        LET first == FirstIndexed(index)
            last == LastIndexed(index)
            lacking == {n \in first .. last : Forked(index, n)}
        IN  /\ Covered(ScanActions(lacking, {}, 1, first, last)) = lacking
            /\ lacking \subseteq Covered(ScanActions(lacking, {}, 2, first, last))

\* What hyp-repair's four scans report of an index is what is wrong with it.
ScansExact ==
    QuickScanExact /\ ScanActionsExact /\ (phase = "damaged" => ScanChainExact(ScanChain(index)))

\* A block without a document has nothing else indexed: a fork repair that stops
\* half-way leaves the block that the next scan finds the fork by.
NoOrphans == \A n \in Blocks \ Stored(index) : n \notin docs \cup accounts \cup rows

\* hyp-repair repair reads again what it deleted ("repair forked blocks",
\* src/cli/hyp-repair.ts:42).  It does not: the range of a fork of two blocks
\* starts above its end, and the master drops it.
DeletedIsRefilled ==
    phase = "done" /\ repairCrashes = 0 /\ interrupts = 0 => deleted \subseteq fresh

\* A chunk that was sent is answered, unless another session's end made the
\* controller forget who asked.
ChunkAnswered == phase = "waiting" ~> (phase # "waiting" \/ closes > 0)
=============================================================================
