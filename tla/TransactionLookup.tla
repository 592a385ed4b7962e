------------------------- MODULE TransactionLookup -------------------------
(***************************************************************************)
(* From the traces of a transaction to the answer of get_transaction: the  *)
(* pool worker parses and filters the traces                               *)
(* (src/indexer/modules/parsers/3.2-parser.ts), merges the receipts of     *)
(* notifications (groupActionTraces of src/indexer/helpers/action-dedup.ts)*)
(* and writes the actions to the cache in Redis and, through the indexer,  *)
(* to the index (processTraces of src/indexer/workers/ds-pool.ts); the API *)
(* reads the cache or the index and groups again, for indexes of older     *)
(* versions that hold a document per receipt (regroupActions of            *)
(* src/api/helpers/regroup-actions.ts, v1 and v2 get_transaction.ts).      *)
(*                                                                         *)
(* A trace is a sequence of actions in order of their ordinals.  After a   *)
(* fork the new branch may execute the transaction a second time, and it   *)
(* counts its global sequences anew from where the branches part: the      *)
(* sequence is the key of a document in the cache and in the index, and    *)
(* documents of both branches may have the same one.  The documents stay   *)
(* in one partition of the index.                                          *)
(***************************************************************************)
EXTENDS Integers, Sequences, FiniteSets, SequencesExt, Ranks

CONSTANTS
    TraceSet,   \* explored: sequences of [digest, creator, receiver]
    Dropped,    \* digests of actions that the filters reject
    TrxBlocks,     \* blocks the transaction may be executed in
    SeqBases,   \* explored: global sequences before the first and the second execution
    TrxSize     \* api.limits.get_trx_actions

\* An action's creator comes before it; 0 is none.
ASSUME LookupAssumption ==
    /\ TrxSize \in Nat \ {0} /\ TrxBlocks \subseteq Nat /\ SeqBases \in [1 .. 2 -> SUBSET Nat]
    /\ \A t \in TraceSet : /\ t \in Seq(ToSet(t))
                          /\ \A i \in DOMAIN t : t[i].creator \in 0 .. i - 1

VARIABLES
    runs,       \* executions so far: [trace, block, base]
    forked,     \* the block of the first one is on a branch that was left
    oldFormat,  \* the index was written before notifications were merged
    writing,    \* documents on their way to the index
    trxIndex,   \* documents of the transaction in the index
    trxCache,   \* trx_<id> of Redis
    \* history: executions with documents that were overwritten, in the index and in the
    \* cache, and the answer of the last step
    indexTorn, cacheTorn, reply

lookupVars == <<runs, forked, oldFormat, writing, trxIndex, trxCache, indexTorn, cacheTorn, reply>>

NoReply == [from |-> "none", actions |-> <<>>]

LookupInit ==
    /\ runs = <<>> /\ forked = FALSE /\ oldFormat \in BOOLEAN
    /\ writing = {} /\ trxIndex = {} /\ trxCache = {}
    /\ indexTorn = {} /\ cacheTorn = {} /\ reply = NoReply

-----------------------------------------------------------------------------
(* parseAction and groupActionTraces *)

\* The actions the filters let through, with their ordinals and global sequences; run,
\* the execution, stands for the block_id.
Parsed(trace, block, base, run) ==
    LET all == [i \in DOMAIN trace |->
                   [ordinal |-> i, digest |-> trace[i].digest, creator |-> trace[i].creator,
                    receivers |-> <<trace[i].receiver>>, block |-> block, seq |-> base + i, run |-> run]]
    IN  Selected(all, {i \in DOMAIN trace : trace[i].digest \notin Dropped})

\* A notification repeats its creator's action: it has the same digest.
Canonical_AnyCreator(actions, a) ==
    IF \E k \in DOMAIN actions : actions[k].digest = a.digest /\ actions[k].creator = a.creator
    THEN a.creator ELSE a.ordinal
Canonical(actions, a) ==
    IF \E k \in DOMAIN actions : actions[k].ordinal = a.creator /\ actions[k].digest = a.digest
    THEN a.creator ELSE a.ordinal

KeyOf(actions, a) == <<a.digest, Canonical(actions, a)>>

\* The API leaves out the receipts of a receiver it has.
Add(rs, more, distinct) ==
    rs \o (IF distinct THEN Selected(more, {i \in DOMAIN more : more[i] \notin ToSet(rs)}) ELSE more)
Receipts(actions, key, distinct) ==
    FoldLeft(LAMBDA rs, a : IF KeyOf(actions, a) = key THEN Add(rs, a.receivers, distinct) ELSE rs, <<>>, actions)

\* The first action of each group, with the receipts of all.
Heads(actions) ==
    {k \in DOMAIN actions : \A j \in 1 .. k - 1 : KeyOf(actions, actions[j]) # KeyOf(actions, actions[k])}
Merge(actions, distinct) ==
    Selected([k \in DOMAIN actions |->
                 [actions[k] EXCEPT !.receivers = Receipts(actions, KeyOf(actions, actions[k]), distinct)]],
             Heads(actions))

GroupActionTraces(actions) == IF Len(actions) <= 1 THEN actions ELSE Merge(actions, FALSE)
RegroupActions(actions) == IF Len(actions) <= 1 THEN actions ELSE Merge(actions, TRUE)

-----------------------------------------------------------------------------
(* processTraces, the indexer and the fork handler *)

\* The actions that were signed; what they send on may differ between two executions.
Signed(trace) ==
    Selected([i \in DOMAIN trace |-> trace[i].digest], {i \in DOMAIN trace : trace[i].creator = 0})

SameKey(store, docs) == {e \in store : \E d \in docs : d.seq = e.seq /\ d.run # e.run}

\* processTraces: a transaction is executed once on each branch.
Execute ==
    /\ IF forked THEN Len(runs) < 2 ELSE runs = <<>>
    /\ \E trace \in TraceSet, block \in TrxBlocks, base \in SeqBases[Len(runs) + 1] :
          LET actions == Parsed(trace, block, base, Len(runs) + 1)
              docs == ToSet(GroupActionTraces(actions))
          IN  /\ runs # <<>> => Signed(trace) = Signed(runs[1].trace)
              /\ runs' = Append(runs, [trace |-> trace, block |-> block, base |-> base])
              /\ trxCache' = (trxCache \ SameKey(trxCache, docs)) \cup docs
              /\ cacheTorn' = cacheTorn \cup {e.run : e \in SameKey(trxCache, docs)}
              /\ writing' = writing \cup (IF oldFormat THEN ToSet(actions) ELSE docs)
    /\ reply' = NoReply
    /\ UNCHANGED <<forked, oldFormat, trxIndex, indexTorn>>

\* The index queues and the indexers keep no order between documents.
IndexDocument ==
    /\ \E d \in writing :
          /\ trxIndex' = (trxIndex \ SameKey(trxIndex, {d})) \cup {d}
          /\ indexTorn' = indexTorn \cup {e.run : e \in SameKey(trxIndex, {d})}
          /\ writing' = writing \ {d}
    /\ reply' = NoReply
    /\ UNCHANGED <<runs, forked, oldFormat, trxCache, cacheTorn>>

Fork ==
    /\ runs # <<>> /\ ~forked
    /\ forked' = TRUE
    /\ reply' = NoReply
    /\ UNCHANGED <<runs, oldFormat, writing, trxIndex, trxCache, indexTorn, cacheTorn>>

\* An action of another transaction of the new branch has the sequence of a document.
IndexOther ==
    /\ forked
    /\ \E d \in trxIndex :
          /\ d.run = 1
          /\ trxIndex' = trxIndex \ {d} /\ indexTorn' = indexTorn \cup {1}
    /\ reply' = NoReply
    /\ UNCHANGED <<runs, forked, oldFormat, writing, trxCache, cacheTorn>>

\* The forked block's documents are deleted once the reader handles the fork; those that
\* are still on their way come later.
DeleteForked ==
    /\ forked
    /\ trxIndex' = {d \in trxIndex : d.run # 1}
    /\ trxIndex' # trxIndex
    /\ indexTorn' = (indexTorn \ {1}) \cup {d.run : d \in {e \in writing : e.run = 1}}
    /\ reply' = NoReply
    /\ UNCHANGED <<runs, forked, oldFormat, writing, trxCache, cacheTorn>>

ExpireCache ==
    /\ trxCache # {} /\ trxCache' = {} /\ cacheTorn' = {}
    /\ reply' = NoReply
    /\ UNCHANGED <<runs, forked, oldFormat, writing, trxIndex, indexTorn>>

-----------------------------------------------------------------------------
(* get_transaction *)

\* The sort of the cached documents compares strings and changes nothing; documents
\* grouped by the pool worker do not depend on it.
Ordered(docs) ==
    LET seqs == {d.seq : d \in docs}
        at == Sorted(seqs, "asc")
    IN  [i \in 1 .. Cardinality(seqs) |-> CHOOSE d \in docs : d.seq = at[i]]
FirstHits(docs) == {d \in docs : Cardinality({e \in docs : e.seq <= d.seq}) <= TrxSize}
Found == IF trxCache # {} THEN trxCache ELSE FirstHits(trxIndex)

\* v2 keeps the actions of the highest block, v1 those of every block.
LastBlock_Any(docs) == docs
LastBlock(docs) == {d \in docs : \A e \in docs : e.block <= d.block}

Answered(docs, version) ==
    /\ reply' = [from |-> IF trxCache # {} THEN "cache" ELSE "index", version |-> version,
                 partly |-> trxCache = {} /\ (writing # {} \/ Cardinality(trxIndex) > TrxSize),
                 of |-> {d.run : d \in docs},
                 torn |-> \E d \in docs : d.run \in IF trxCache # {} THEN cacheTorn ELSE indexTorn,
                 actions |-> RegroupActions(Ordered(docs))]
    /\ UNCHANGED <<runs, forked, oldFormat, writing, trxIndex, trxCache, indexTorn, cacheTorn>>

GetTransactionV2 == Found # {} /\ Answered(LastBlock(Found), 2)
GetTransactionV1 == Found # {} /\ Answered(Found, 1)

LookupNext ==
    \/ Execute \/ IndexDocument \/ Fork \/ IndexOther \/ DeleteForked \/ ExpireCache
    \/ GetTransactionV2 \/ GetTransactionV1

LookupSpec == LookupInit /\ [][LookupNext]_lookupVars

-----------------------------------------------------------------------------
\* Types.
LookupTypeOK ==
    /\ Len(runs) <= 2 /\ oldFormat \in BOOLEAN
    /\ \A d \in trxIndex \cup trxCache \cup writing : d.block \in TrxBlocks /\ d.run \in DOMAIN runs

\* What the nodes executed: an action of its own is not a notification of another.
IsNotice(trace, i) == trace[i].creator # 0 /\ trace[trace[i].creator].digest = trace[i].digest
Own(trace) == {i \in DOMAIN trace : trace[i].digest \notin Dropped /\ ~IsNotice(trace, i)}
Receivers(trace, i) ==
    {trace[j].receiver : j \in {i} \cup {k \in DOMAIN trace : IsNotice(trace, k) /\ trace[k].creator = i}}

\* A notification sent on by a notified contract stays apart: left out.
Flat(trace) == \A i \in DOMAIN trace : IsNotice(trace, i) => ~IsNotice(trace, trace[i].creator)

Shows(actions, run) ==
    /\ Len(actions) = Cardinality(Own(run.trace))
    /\ \A i \in Own(run.trace) :
          \E k \in DOMAIN actions :
             /\ actions[k].ordinal = i /\ actions[k].digest = run.trace[i].digest
             /\ ToSet(actions[k].receivers) = Receivers(run.trace, i)

\* A v2 answer that is not cut short and has documents of one execution shows that
\* execution: each action once with the receivers of all its notifications, whether it
\* comes from the cache or the index, from documents of either format, or while the
\* documents of a fork are still there in another block.  Where the branches meet in the
\* store it does not: executions in blocks of the same number are told apart by nothing,
\* and an execution of which the new branch, with the same sequences, overwrote documents
\* is shown in part if its block is the highest.
LookupShowsOneExecution ==
    reply.from # "none" /\ reply.version = 2 /\ ~reply.partly /\ ~reply.torn =>
        \A r \in DOMAIN runs : reply.of = {r} /\ Flat(runs[r].trace) => Shows(reply.actions, runs[r])

=============================================================================
