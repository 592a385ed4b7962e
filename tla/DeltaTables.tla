---------------------------- MODULE DeltaTables ----------------------------
(***************************************************************************)
(* From the table deltas of a block to the documents they leave: the       *)
(* deserializers' delta handlers spread messages over the indexing queues  *)
(* (src/indexer/workers/deserializer.ts), ingestors write them to          *)
(* Elasticsearch through the generic route                                 *)
(* (src/indexer/helpers/elastic-routes.ts) or to MongoDB                   *)
(* (src/indexer/helpers/mongo-routes.ts).                                  *)
(*                                                                         *)
(* Blocks of a worker are in order, those of different workers and the     *)
(* messages of different queues are not.  Elasticsearch compares block     *)
(* numbers in its update script; MongoDB writes what comes.                *)
(***************************************************************************)
EXTENDS Integers, Sequences, FiniteSets, SequencesExt

CONSTANTS
    DeltaScripts,   \* chains explored: sequences of blocks, each a sequence of deltas
    DeltaSetups,    \* configurations explored
    MaxBulkErrors,  \* bound: bulk requests of the generic route that fail
    MaxRedelivered  \* bound: blocks handled again after a crash of their worker

Counters == {"emit", "proposals", "voters", "accounts", "dynamic", "deltas"}

DeltaStructs == {"contract_row", "permission", "permission_link", "generated_transaction",
                 "resource_limits", "resource_usage", "global_property"}
DeltasOf == UNION {UNION {ToSet(s[b]) : b \in DOMAIN s} : s \in DeltaScripts}

ASSUME DeltaAssumption ==
    /\ DeltaScripts \subseteq Seq(Seq(DeltasOf)) /\ \A d \in DeltasOf : d.struct \in DeltaStructs
    /\ \A s \in DeltaSetups : /\ s.queues \in Nat \ {0} /\ s.workers \in Nat \ {0} /\ s.batch \in Nat \ {0}
                              /\ s.tables \subseteq {"proposals", "voters", "accounts"}
    /\ {MaxBulkErrors, MaxRedelivered} \subseteq Nat

\* d is the last delta of its row up to block b of s, in block c.
IsCurrent(s, b, c, d) ==
    /\ c \in 1 .. b /\ d \in ToSet(s[c])
    /\ \A a \in c + 1 .. b : \A e \in ToSet(s[a]) : e.struct = d.struct => e.key # d.key

\* What nodeos and SHIP give: a block has one delta of a row, and a permission is not
\* removed while something is linked to it.
ASSUME ChainAssumption ==
    \A s \in DeltaScripts : \A b \in DOMAIN s :
        /\ \A d \in ToSet(s[b]), e \in ToSet(s[b]) :
              d.struct \in {"permission", "permission_link"} /\ e.struct = d.struct /\ e.key = d.key => e = d
        /\ \A c1, c2 \in 1 .. b : \A d \in ToSet(s[c1]), l \in ToSet(s[c2]) :
              /\ d.struct = "permission" /\ IsCurrent(s, b, c1, d) /\ ~d.present
              /\ l.struct = "permission_link" /\ IsCurrent(s, b, c2, l) /\ l.present
              => l.to # d.key

VARIABLES
    setup, script,
    handled,     \* blocks each deserializer has handled
    emitIdx,     \* its counters: emit_idx, tbl_prop_emit_idx, ...
    indexQueue,  \* messages of each route's queues
    resources,   \* generic indices: block whose values a document has, 0 if none
    deltaIndex,  \* documents of a row or deferred transaction of a block: <<block, key>>
    permissions, \* MongoDB: [auth |-> block or 0, links], Absent if none
    collections, \* MongoDB: block of the row's values per table and row, 0 if none
    unnamed,     \* the permissions collection has a document without account and name
    nacked,      \* generic documents lost with a bulk request that failed
    redelivered, bulkErrors

deltaVars == <<setup, script, handled, emitIdx, indexQueue, resources, deltaIndex, permissions,
               collections, unnamed, nacked, redelivered, bulkErrors>>

Deserializers == 1 .. setup.workers
Routes == {"generic", "state", "proposals", "voters", "accounts", "dynamic", "deltas"}
Absent == [auth |-> -1, links |-> {}]

DeltasIn(b) == ToSet(script[b])
AllDeltas == UNION {DeltasIn(b) : b \in DOMAIN script}
KeysOf(structs) == {d.key : d \in {e \in AllDeltas : e.struct \in structs}}

\* A delta: struct, code and table of a contract_row, key of its row, permission a
\* permission_link requires (to), and whether the row is there and is decoded.
RowKeys == {<<d.table, d.key>> : d \in {e \in AllDeltas : e.struct = "contract_row"}}
PermissionKeys == KeysOf({"permission"}) \cup {d.to : d \in AllDeltas}
ResourceStructs == {"resource_limits", "resource_usage", "global_property"}

DeltaInit ==
    /\ setup \in DeltaSetups /\ script \in DeltaScripts
    /\ handled = [w \in Deserializers |-> {}]
    /\ emitIdx = [w \in Deserializers |-> [c \in Counters |-> 1]]
    /\ indexQueue = [q \in Routes \X (1 .. setup.queues) |-> <<>>]
    /\ resources = [k \in ResourceStructs \X KeysOf(ResourceStructs) |-> 0]
    /\ deltaIndex = {}
    /\ permissions = [p \in PermissionKeys |-> Absent]
    /\ collections = [r \in RowKeys |-> 0]
    /\ unnamed = FALSE /\ nacked = {} /\ redelivered = 0 /\ bulkErrors = 0

-----------------------------------------------------------------------------
(* The deserializer's handlers, on e = [idx, queue]: the counters of a worker  *)
(* and the messages of all queues.                                             *)

NextQueue(i) == IF i + 1 > setup.queues THEN 1 ELSE i + 1

EmitTo(e, route, counter, d, b) ==
    [idx |-> [e.idx EXCEPT ![counter] = NextQueue(@)],
     queue |-> [e.queue EXCEPT ![<<route, e.idx[counter]>>] = Append(@, [delta |-> d, block |-> b])]]

\* index_generic and index_state share a counter.
PushToIndex(e, d, b) == EmitTo(e, "generic", "emit", d, b)
PushToState(e, d, b) == EmitTo(e, "state", "emit", d, b)

OnList(list, d) == {<<d.code, "*">>, <<"*", d.table>>, <<d.code, d.table>>} \cap list # {}

\* The dynamic queue, for the tables the configuration names.  A contract only a
\* plugin names has no entry to look in, which throws.
Configured(code) == \E t \in setup.dynamic : t[1] = code
PushToDynamic(e, d, b) ==
    IF <<d.code, d.table>> \in setup.dynamic THEN EmitTo(e, "dynamic", "dynamic", d, b) ELSE e

\* The handlers of populateTableHandlers; the tables of the system contract and its
\* multisig contract, and balances of any contract.
TableOf(d) ==
    CASE d.code = "eosio" /\ d.table = "voters" -> "voters"
      [] d.code = "eosio.msig" /\ d.table \in {"proposal", "approvals", "approvals2"} -> "proposals"
      [] d.table = "accounts" -> "accounts"
      [] OTHER -> "none"
Handled(d) ==
    \/ TableOf(d) # "none"
    \/ d.code = "eosio" /\ d.table \in {"global", "producers", "userres", "delband"}

\* storeVoter, storeProposal, storeProposalTransaction, storeAccount: without
\* looking at present.
Store(e, d, b) ==
    IF TableOf(d) \in setup.tables /\ setup.indexing THEN EmitTo(e, TableOf(d), TableOf(d), d, b) ELSE e

\* processTableDelta and pushToDeltaQueue: rows that were not decoded stop here.
ProcessTableDelta(e, d, b) ==
    LET stored == Store(PushToDynamic(e, d, b), d, b)
    IN  IF d.present /\ setup.indexing /\ (setup.all \/ Handled(d))
        THEN EmitTo(stored, "deltas", "deltas", d, b) ELSE stored

ContractRow(e, d, b) ==
    LET wanted == setup.all \/ d.code = "eosio" \/ d.table = "accounts"
        passes == ~OnList(setup.black, d) /\ (setup.white = {} \/ OnList(setup.white, d))
        throws == d.code \in setup.plugins /\ ~Configured(d.code)
    IN  IF wanted /\ passes /\ d.decoded /\ ~throws THEN ProcessTableDelta(e, d, b) ELSE e

\* A deferred transaction passes the lists by its sender, as a contract.
GeneratedTransaction(e, d, b) ==
    IF /\ setup.deferred /\ <<d.code, "*">> \notin setup.black
       /\ setup.white # {} => <<d.code, "*">> \in setup.white
    THEN PushToIndex(e, d, b) ELSE e

\* A feature of its own for each struct of resources; a schedule of version 0 is none,
\* and the system account's usage is left out.
ResourceWanted(d) ==
    \/ d.struct = "resource_limits" /\ setup.deltas /\ setup.limits
    \/ d.struct = "resource_usage" /\ setup.deltas /\ setup.usage /\ d.key # "eosio"
    \/ d.struct = "global_property" /\ d.key # "0"

HandleDelta(e, d, b) ==
    CASE d.struct = "contract_row" -> ContractRow(e, d, b)
      [] d.struct \in {"permission", "permission_link"} ->
            IF setup.deltas THEN PushToState(e, d, b) ELSE e
      [] d.struct = "generated_transaction" ->
            IF setup.deltas THEN GeneratedTransaction(e, d, b) ELSE e
      [] d.struct \in ResourceStructs ->
            IF ResourceWanted(d) THEN PushToIndex(e, d, b) ELSE e

-----------------------------------------------------------------------------
(* Blocks *)

\* The reader gives blocks to the workers in turn.
BlocksOf(w) == {b \in DOMAIN script : (b - 1) % setup.workers = w - 1}
Waiting(w) == {b \in BlocksOf(w) \ handled[w] : \A a \in BlocksOf(w) : a < b => a \in handled[w]}

Emission(b, counters) ==
    FoldLeft(LAMBDA e, d : HandleDelta(e, d, b), [idx |-> counters, queue |-> indexQueue], script[b])

ProcessDeltas(w, b, counters) ==
    LET e == Emission(b, counters)
    IN  /\ emitIdx' = [emitIdx EXCEPT ![w] = e.idx]
        /\ indexQueue' = e.queue
        /\ handled' = [handled EXCEPT ![w] = @ \cup {b}]
        /\ UNCHANGED <<setup, script, resources, deltaIndex, permissions, collections, unnamed, nacked,
                       bulkErrors>>

HandleBlock ==
    \E w \in Deserializers : \E b \in Waiting(w) : ProcessDeltas(w, b, emitIdx[w]) /\ UNCHANGED redelivered

\* The block is delivered again because the channel was lost before its acknowledgement,
\* or the process ended, and then the counters begin anew.
HandleAgain ==
    /\ redelivered < MaxRedelivered
    /\ redelivered' = redelivered + 1
    /\ \E w \in Deserializers : handled[w] # {} /\
        LET b == CHOOSE c \in handled[w] : \A a \in handled[w] : a <= c
        IN  \E counters \in {emitIdx[w], [c \in Counters |-> 1]} : ProcessDeltas(w, b, counters)

-----------------------------------------------------------------------------
(* Ingestors *)

Cargo(q) == IF Len(indexQueue[q]) < setup.batch THEN Len(indexQueue[q]) ELSE setup.batch
Drop(q, n) == [indexQueue EXCEPT ![q] = SubSeq(@, n + 1, Len(@))]
Payload(q) == SubSeq(indexQueue[q], 1, Cargo(q))

\* updateByBlock: an older update changes nothing.
Update_Always(old, b) == b  \* mutant: the script does not compare
Update(old, b) == IF b < old THEN old ELSE b

WrittenBy(msgs, types) ==
    FoldLeft(LAMBDA r, msg : IF msg.delta.struct \in types \cap ResourceStructs
                             THEN [r EXCEPT ![<<msg.delta.struct, msg.delta.key>>] = Update(@, msg.block)]
                             ELSE r, resources, msgs)

\* A deferred transaction's document has its block in the id.
DeferredBy(msgs, types) ==
    {<<msg.block, msg.delta.key>> : msg \in {p \in ToSet(msgs) : p.delta.struct \in types \ ResourceStructs}}

\* handleGenericRoute: one bulk request per type.  The first that ends without
\* errors acknowledges all; nackAll only puts back what none has acknowledged.
GenericRoute ==
    \E i \in 1 .. setup.queues :
        LET q == <<"generic", i>>
            types == {msg.delta.struct : msg \in ToSet(Payload(q))}
        IN  /\ indexQueue[q] # <<>>
            /\ \E failed \in SUBSET types, late \in BOOLEAN :
                /\ failed # {} => bulkErrors < MaxBulkErrors
                /\ late => failed # {} /\ failed # types
                /\ bulkErrors' = IF failed # {} THEN bulkErrors + 1 ELSE bulkErrors
                /\ resources' = WrittenBy(Payload(q), types \ failed)
                /\ deltaIndex' = deltaIndex \cup DeferredBy(Payload(q), types \ failed)
                /\ LET settled == failed = {} \/ late
                   IN  /\ indexQueue' = IF settled THEN Drop(q, Cargo(q)) ELSE indexQueue
                       /\ nacked' = IF ~late THEN nacked
                                    ELSE nacked \cup {<<msg.delta.struct, msg.delta.key>> :
                                             msg \in {p \in ToSet(Payload(q)) : p.delta.struct \in failed}}
    /\ UNCHANGED <<setup, script, handled, emitIdx, permissions, collections, unnamed, redelivered>>

\* Index requests of the delta route: one document for a row of a block.
DeltaRoute ==
    \E i \in 1 .. setup.queues :
        LET q == <<"deltas", i>>
        IN  /\ indexQueue[q] # <<>>
            /\ indexQueue' = Drop(q, Cargo(q))
            /\ deltaIndex' = deltaIndex \cup {<<msg.block, msg.delta.key>> : msg \in ToSet(Payload(q))}
    /\ UNCHANGED <<setup, script, handled, emitIdx, resources, permissions, collections, unnamed,
                   nacked, redelivered, bulkErrors>>

\* A permission keeps its links when it is set, a link makes its permission's
\* document if there is none.  A link that changes its permission is not removed
\* from the one it had.
Linked(perm, d) ==
    IF d.present THEN [auth |-> IF perm = Absent THEN 0 ELSE perm.auth, links |-> perm.links \cup {d.key}]
    ELSE [perm EXCEPT !.links = @ \ {d.key}]
WritePermission_Replaces(perms, msg) ==  \* mutant: the document is replaced
    LET d == msg.delta
    IN  IF d.struct = "permission_link" THEN [perms EXCEPT ![d.to] = Linked(@, d)]
        ELSE [perms EXCEPT ![d.key] = IF d.present THEN [auth |-> msg.block, links |-> {}] ELSE Absent]
WritePermission(perms, msg) ==
    LET d == msg.delta
    IN  IF d.struct = "permission_link" THEN [perms EXCEPT ![d.to] = Linked(@, d)]
        ELSE [perms EXCEPT ![d.key] = IF d.present THEN [auth |-> msg.block, links |-> @.links] ELSE Absent]

\* The 'state' route, unordered.  With a permission in the payload every message of
\* it becomes an operation on permissions: a link one without account and name.
StateRoute ==
    \E i \in 1 .. setup.queues :
        LET q == <<"state", i>>
            mixed == \E msg \in ToSet(Payload(q)) : msg.delta.struct = "permission"
            strays == {msg \in ToSet(Payload(q)) : mixed /\ msg.delta.struct = "permission_link"}
        IN  /\ indexQueue[q] # <<>>
            /\ indexQueue' = Drop(q, Cargo(q))
            /\ \E order \in SetToSeqs(DOMAIN Payload(q)) :
                  permissions' = FoldLeft(LAMBDA perms, k : WritePermission(perms, Payload(q)[k]),
                                          permissions, order)
            /\ \/ strays = {} /\ UNCHANGED unnamed
               \/ \E msg \in strays : unnamed' = msg.delta.present
    /\ UNCHANGED <<setup, script, handled, emitIdx, resources, deltaIndex, collections, nacked,
                   redelivered, bulkErrors>>

\* Proposals and voters are upserted whether the row is there or not; accounts and
\* dynamic tables lose the row.
WriteDoc(rows, route, msg) ==
    [rows EXCEPT ![<<msg.delta.table, msg.delta.key>>] =
        IF msg.delta.present \/ route \in {"proposals", "voters"} THEN msg.block ELSE 0]

TableRoute ==
    \E route \in {"proposals", "voters", "accounts", "dynamic"}, i \in 1 .. setup.queues :
        LET q == <<route, i>>
        IN  /\ indexQueue[q] # <<>>
            /\ indexQueue' = Drop(q, Cargo(q))
            /\ \E order \in SetToSeqs(DOMAIN Payload(q)) :
                  collections' = FoldLeft(LAMBDA rows, k : WriteDoc(rows, route, Payload(q)[k]),
                                          collections, order)
    /\ UNCHANGED <<setup, script, handled, emitIdx, resources, deltaIndex, permissions, unnamed, nacked,
                   redelivered, bulkErrors>>

DeltaNext == HandleBlock \/ HandleAgain \/ GenericRoute \/ DeltaRoute \/ StateRoute \/ TableRoute

DeltaSpec == DeltaInit /\ [][DeltaNext]_deltaVars

-----------------------------------------------------------------------------
\* Types.
DeltaTypeOK ==
    /\ \A w \in Deserializers : handled[w] \subseteq BlocksOf(w) /\ \A c \in Counters : emitIdx[w][c] \in 1 .. setup.queues
    /\ \A p \in DOMAIN permissions : permissions[p].auth \in -1 .. Len(script)
    /\ unnamed \in BOOLEAN /\ redelivered \in 0 .. MaxRedelivered /\ bulkErrors \in 0 .. MaxBulkErrors

Drained ==
    /\ \A w \in Deserializers : handled[w] = BlocksOf(w)
    /\ \A q \in DOMAIN indexQueue : indexQueue[q] = <<>>

LastOf(blocks) == IF blocks = {} THEN 0 ELSE CHOOSE b \in blocks : \A a \in blocks : a <= b
Touching(P(_)) == {b \in DOMAIN script : \E d \in DeltasIn(b) : P(d)}

\* Whatever order workers, queues and redeliveries bring the deltas in, a document
\* of the generic indices ends with the values of the last block that changed it,
\* unless it was in a bulk request that failed next to one that did not.
Indexed(k) == Touching(LAMBDA d : d.struct = k[1] /\ d.key = k[2] /\ ResourceWanted(d))
ResourcesFollowChain ==
    Drained => \A k \in DOMAIN resources : k \notin nacked => resources[k] = LastOf(Indexed(k))

\* With one worker, one queue per table and batches of one, and no block handled
\* twice, the permissions of MongoDB and their links are the chain's, but for a link
\* that was moved from one permission to another.
LastPermission(p) == LastOf(Touching(LAMBDA d : d.struct = "permission" /\ d.key = p))
PermissionIs(p) ==
    \E d \in DeltasIn(LastPermission(p)) : d.struct = "permission" /\ d.key = p /\ d.present
LastLink(k) == LastOf(Touching(LAMBDA d : d.struct = "permission_link" /\ d.key = k))
LinkedTo(k, p) ==
    LastLink(k) # 0 /\ \E d \in DeltasIn(LastLink(k)) :
        d.struct = "permission_link" /\ d.key = k /\ d.to = p /\ d.present
Moved(k) == \E d, e \in {l \in AllDeltas : l.struct = "permission_link" /\ l.key = k} : d.to # e.to

InOrder == setup.queues = 1 /\ setup.workers = 1 /\ setup.batch = 1 /\ redelivered = 0
PermissionsFollowChain ==
    Drained /\ InOrder /\ setup.deltas =>
        /\ ~unnamed
        /\ \A p \in DOMAIN permissions :
            /\ LastPermission(p) # 0 =>
                 permissions[p].auth = (IF PermissionIs(p) THEN LastPermission(p) ELSE -1)
            /\ \A k \in KeysOf({"permission_link"}) : ~Moved(k) => (k \in permissions[p].links <=> LinkedTo(k, p))
=============================================================================
