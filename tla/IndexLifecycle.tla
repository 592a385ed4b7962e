--------------------------- MODULE IndexLifecycle ---------------------------
(***************************************************************************)
(* Pruning of old partitions and blocks, and their allocation to other     *)
(* nodes (src/indexer/modules/lifecycleManager.ts).  The live reader's     *)
(* consumed blocks trigger a check five seconds after the first block of a *)
(* new partition; the check looks at Elasticsearch, whose searches see     *)
(* documents only after a refresh, and at the head of the chain, which the *)
(* indexer may be behind.                                                  *)
(***************************************************************************)
EXTENDS Integers, Sequences, FiniteSets, SequencesExt

CONSTANTS
    PartitionSize,      \* settings.index_partition_size
    RetentionSettings,  \* values of settings.max_retained_blocks explored
    MaxAgeBlocks,       \* tiered_index_allocation.max_age_blocks
    QuietBlocks,        \* explored: blocks without documents, per type of document
    ChainLength,        \* bound: blocks of the chain
    MaxLag,             \* bound: blocks the indexer is behind the head
    MaxDeleteErrors     \* bound: deletions of an index that fail

ASSUME LifecycleAssumption ==
    /\ PartitionSize \in Nat \ {0} /\ RetentionSettings \subseteq Int
    /\ {MaxAgeBlocks, ChainLength, MaxLag, MaxDeleteErrors} \subseteq Nat

VARIABLES
    retention,   \* maxRetainedBlocks, 0 when nothing is pruned
    silent,      \* blocks without documents of a type
    chainTip, consumedTo,
    documents,   \* blocks with documents, per type: "action", "delta", "block"
    refreshed,   \* those a search sees
    lastPruningCheckBlockNum,
    pruneTimers, \* checks due in five seconds
    checks,      \* running checks: what each has still to do
    tasks,       \* delete_by_query tasks: the blocks each found to delete
    cold,        \* partitions moved to other nodes, per type
    fib,         \* first indexed block Redis has for the API, 0 if none
    deleteErrors

lifecycleVars == <<retention, silent, chainTip, consumedTo, documents, refreshed,
                   lastPruningCheckBlockNum, pruneTimers, checks, tasks, cold, fib, deleteErrors>>

DocTypes == {"action", "delta", "block"}
Partitioned == {"action", "delta"}
CheckSteps == <<"action", "delta", "block", "tiers">>

\* The constructor: a positive multiple of the partition size, or no pruning.
Rounded(n) ==
    IF n <= 0 THEN 0
    ELSE IF n % PartitionSize = 0 THEN n ELSE n + (PartitionSize - (n % PartitionSize))

\* start() checks at once.
IndexLifecycleInit ==
    /\ retention \in {Rounded(n) : n \in RetentionSettings}
    /\ silent \in QuietBlocks
    /\ chainTip = 0 /\ consumedTo = 0
    /\ documents = [t \in DocTypes |-> {}] /\ refreshed = [t \in DocTypes |-> {}]
    /\ lastPruningCheckBlockNum = 0 /\ pruneTimers = 0
    /\ checks = IF retention > 0 THEN <<CheckSteps>> ELSE <<>>
    /\ tasks = {} /\ cold = [t \in Partitioned |-> {}] /\ fib = 0 /\ deleteErrors = 0

ProduceBlock ==
    /\ chainTip < ChainLength /\ chainTip - consumedTo < MaxLag
    /\ chainTip' = chainTip + 1
    /\ UNCHANGED <<retention, silent, consumedTo, documents, refreshed, lastPruningCheckBlockNum,
                   pruneTimers, checks, tasks, cold, fib, deleteErrors>>

\* notifyConsumedBlock, from 1-based blocks.
Crosses(n) ==
    /\ retention > 0 /\ lastPruningCheckBlockNum # 0
    /\ (n - 1) \div PartitionSize > (lastPruningCheckBlockNum - 1) \div PartitionSize

ConsumeBlock ==
    /\ consumedTo < chainTip
    /\ consumedTo' = consumedTo + 1
    /\ documents' = [t \in DocTypes |-> documents[t] \cup ({consumedTo'} \ silent[t])]
    /\ pruneTimers' = IF Crosses(consumedTo') THEN pruneTimers + 1 ELSE pruneTimers
    /\ lastPruningCheckBlockNum' = IF retention > 0 THEN consumedTo' ELSE 0
    /\ UNCHANGED <<retention, silent, chainTip, refreshed, checks, tasks, cold, fib, deleteErrors>>

Refresh ==
    /\ refreshed # documents
    /\ refreshed' = documents
    /\ UNCHANGED <<retention, silent, chainTip, consumedTo, documents, lastPruningCheckBlockNum,
                   pruneTimers, checks, tasks, cold, fib, deleteErrors>>

CheckPruning ==
    /\ pruneTimers > 0
    /\ pruneTimers' = pruneTimers - 1
    /\ checks' = Append(checks, CheckSteps)
    /\ UNCHANGED <<retention, silent, chainTip, consumedTo, documents, refreshed,
                   lastPruningCheckBlockNum, tasks, cold, fib, deleteErrors>>

-----------------------------------------------------------------------------
(* pruneIndices *)

PartitionOf(b) == (b + PartitionSize - 1) \div PartitionSize
BlocksIn(p) == (p - 1) * PartitionSize + 1 .. p * PartitionSize
Partitions(t) == {PartitionOf(b) : b \in documents[t]}

\* The blocks from startBlock to finalBlock of an index: of the newest one up to the last
\* block a search finds in it, all of them if it finds none.
BlocksOf(t, p) ==
    LET seen == refreshed[t] \cap BlocksIn(p)
    IN  {b \in BlocksIn(p) : p = Max(Partitions(t)) /\ seen # {} => b <= Max(seen)}
TotalFrom(t, p) == Cardinality(UNION {BlocksOf(t, q) : q \in {q \in Partitions(t) : q >= p}})

Exceeds_Tight(total) == total > retention  \* mutant: no partition more
Exceeds(total) == total > retention + PartitionSize
ToPrune(t) == {p \in Partitions(t) : Exceeds(TotalFrom(t, p))}

Advance(i) ==
    checks' = IF Len(checks[i]) = 1 THEN RemoveAt(checks, i)
              ELSE [checks EXCEPT ![i] = Tail(@)]

Without(bs, ps) == {b \in bs : PartitionOf(b) \notin ps}

\* A deletion that fails is logged.
PruneIndices ==
    \E i \in DOMAIN checks :
        LET t == Head(checks[i])
        IN  /\ t \in Partitioned
            /\ Advance(i)
            /\ \E failed \in SUBSET ToPrune(t) :
                /\ failed # {} => deleteErrors < MaxDeleteErrors
                /\ deleteErrors' = IF failed # {} THEN deleteErrors + 1 ELSE deleteErrors
                /\ documents' = [documents EXCEPT ![t] = Without(@, ToPrune(t) \ failed)]
                /\ refreshed' = [refreshed EXCEPT ![t] = Without(@, ToPrune(t) \ failed)]
                /\ cold' = [cold EXCEPT ![t] = @ \ (ToPrune(t) \ failed)]
    /\ UNCHANGED <<retention, silent, chainTip, consumedTo, lastPruningCheckBlockNum, pruneTimers,
                   tasks, fib>>

-----------------------------------------------------------------------------
(* pruneBlocks and its task; the API caches the first block without expiry. *)

PruneBlocks ==
    \E i \in DOMAIN checks :
        LET last == chainTip - retention
        IN  /\ Head(checks[i]) = "block"
            /\ Advance(i)
            /\ LET old == {b \in refreshed["block"] : b <= last}
               IN  tasks' = IF old # {} THEN tasks \cup {old} ELSE tasks
    /\ UNCHANGED <<retention, silent, chainTip, consumedTo, documents, refreshed,
                   lastPruningCheckBlockNum, pruneTimers, cold, fib, deleteErrors>>

\* startMonitoringDeleteTask drops the cached block when it sees the task completed.
DeleteTaskCompletes ==
    \E old \in tasks :
        /\ tasks' = tasks \ {old}
        /\ documents' = [documents EXCEPT !["block"] = @ \ old]
        /\ refreshed' = [refreshed EXCEPT !["block"] = @ \ old]
        /\ fib' = 0
        /\ UNCHANGED <<retention, silent, chainTip, consumedTo, lastPruningCheckBlockNum, pruneTimers,
                       checks, cold, deleteErrors>>

ReadHealth ==
    /\ fib = 0 /\ refreshed["block"] # {}
    /\ fib' = Min(refreshed["block"])
    /\ UNCHANGED <<retention, silent, chainTip, consumedTo, documents, refreshed,
                   lastPruningCheckBlockNum, pruneTimers, checks, tasks, cold, deleteErrors>>

\* applyTieredAllocationForType by age in blocks, by the head of the chain.
CheckTieredAllocation ==
    \E i \in DOMAIN checks :
        /\ Head(checks[i]) = "tiers"
        /\ Advance(i)
        /\ cold' = [t \in Partitioned |-> IF MaxAgeBlocks = 0 THEN cold[t] ELSE cold[t] \cup
                        {p \in Partitions(t) : chainTip - (p * PartitionSize) > MaxAgeBlocks}]
    /\ UNCHANGED <<retention, silent, chainTip, consumedTo, documents, refreshed,
                   lastPruningCheckBlockNum, pruneTimers, tasks, fib, deleteErrors>>

IndexLifecycleNext ==
    \/ ProduceBlock \/ ConsumeBlock \/ Refresh
    \/ CheckPruning \/ PruneIndices \/ PruneBlocks \/ CheckTieredAllocation
    \/ DeleteTaskCompletes \/ ReadHealth

IndexLifecycleSpec == IndexLifecycleInit /\ [][IndexLifecycleNext]_lifecycleVars

-----------------------------------------------------------------------------
\* Types; a partition that was moved is one that is there.
IndexLifecycleTypeOK ==
    /\ retention \in Nat /\ consumedTo <= chainTip /\ chainTip <= ChainLength
    /\ \A t \in DocTypes : refreshed[t] \subseteq documents[t] /\ documents[t] \subseteq 1 .. consumedTo
    /\ \A t \in Partitioned : cold[t] \subseteq Partitions(t)
    /\ pruneTimers \in Nat /\ deleteErrors \in 0 .. MaxDeleteErrors

\* Whatever a search sees and wherever the blocks without documents are, no check
\* removes actions or deltas of the last max_retained_blocks consumed blocks, or the
\* documents of the last max_retained_blocks blocks of the chain.
KeptOf(t) ==
    LET last == IF t = "block" THEN chainTip ELSE consumedTo
    IN  {b \in 1 .. consumedTo : b > last - retention} \ silent[t]
RetainedKept == \A t \in DocTypes : KeptOf(t) \subseteq documents[t]
=============================================================================
