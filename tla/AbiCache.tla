------------------------------ MODULE AbiCache ------------------------------
(***************************************************************************)
(* How a worker finds an ABI for the data of a contract: the deserializer  *)
(* for table rows (src/indexer/workers/deserializer.ts), the pool worker   *)
(* for actions (src/indexer/workers/ds-pool.ts), both on the cache of      *)
(* hyperionWorker.ts.  The native library holds one ABI of a contract at a *)
(* time, without its range of blocks; an ABI that lacks the type sends the *)
(* worker to the ABI index, then to the node's current ABI, then to the    *)
(* JSON form of either; tables that failed are skipped while the ABI that  *)
(* failed is in force.                                                     *)
(*                                                                         *)
(* One contract.  Workers take blocks in any order: several readers, one   *)
(* queue.  The ABI index and the node answer; a read of the index may lag  *)
(* behind the chain.                                                       *)
(***************************************************************************)
EXTENDS Integers, Sequences, FiniteSets

CONSTANTS
    Types,      \* names of actions and tables
    Histories,  \* the contract's ABIs explored, in order of their blocks
    MaxBlock    \* bound: head block

\* An ABI: the block that set it, its types with the layout of their data, whether
\* the native library and the JSON parser accept it.
AbiRecord == [block : 1 .. MaxBlock, layout : [Types -> 0 .. 2], native : BOOLEAN, json : BOOLEAN]

ASSUME AbiAssumption ==
    /\ MaxBlock \in Nat \ {0}
    /\ \A h \in Histories : h \in Seq(AbiRecord) /\ \A i, j \in DOMAIN h : i < j => h[i].block < h[j].block

VARIABLES
    abis,       \* the contract's history, or <<>>
    height,     \* head block of the node
    savedAbis,  \* ABIs the index has, as positions in abis
    loaded,     \* ABI in the native library of each worker, 0 if none
    failedAbis, \* failedAbiMap: blocks of ABIs that did not load, -1 for the current one
    contracts,  \* the pool worker's contracts map, 0 if none
    blacklist,  \* autoBlacklist of the deserializer
    item        \* history: type of the last item, how it was decoded, whether the index had its ABI

abiVars == <<abis, height, savedAbis, loaded, failedAbis, contracts, blacklist, item>>

Workers == {"rows", "actions"}
NoItem == [type |-> CHOOSE t \in Types : TRUE, how |-> "none", stored |-> FALSE]
Forever == 0

AbiInit ==
    /\ abis = <<>> /\ height = 0 /\ savedAbis = {}
    /\ loaded = [w \in Workers |-> 0] /\ failedAbis = [w \in Workers |-> {}]
    /\ contracts = 0 /\ blacklist = {} /\ item = NoItem

Has(v, t) == v # 0 /\ abis[v].layout[t] # 0

Latest(S, n) ==
    LET before == {v \in S : abis[v].block <= n}
    IN  IF before = {} THEN 0 ELSE CHOOSE v \in before : \A u \in before : u <= v
InForce(n) == Latest(DOMAIN abis, n)

\* fetchAbiHexAtBlockElastic: the last ABI saved up to n, and for the deserializer
\* the block of the next one from n on.
SavedAt(n) == Latest(savedAbis, n)
NextSaved(n) ==
    LET after == {v \in savedAbis : abis[v].block >= n}
    IN  IF after = {} THEN Forever ELSE abis[CHOOSE v \in after : \A u \in after : v <= u].block

Current == InForce(height)
CurrentKey == -1

-----------------------------------------------------------------------------
(* hyperionWorker.ts, on c = [loaded, failed] of a worker *)

\* loadAbiHex and loadCurrentAbiHex: what failed before is not tried again, a
\* success clears what failed.
LoadAbi(c, v, key) ==
    IF v = 0 \/ key \in c.failed THEN [c EXCEPT !.ok = FALSE]
    ELSE IF abis[v].native THEN [loaded |-> v, failed |-> {}, ok |-> TRUE]
    ELSE [c EXCEPT !.failed = @ \cup {key}, !.ok = FALSE]

LoadSaved(c, v) == LoadAbi(c, v, IF v = 0 THEN 0 ELSE abis[v].block)
LoadCurrent(c) == LoadAbi(c, Current, CurrentKey)

\* The saved ABI if it has the type, else the current one.
Resolve(c, t, n) ==
    LET first == IF Has(SavedAt(n), t) THEN LoadSaved(c, SavedAt(n)) ELSE [c EXCEPT !.ok = FALSE]
    IN  IF Has(c.loaded, t) THEN [c EXCEPT !.ok = TRUE]
        ELSE IF first.ok THEN first
        ELSE LoadCurrent(first)

\* Data of block n decoded with ABI v: another layout of its type is refused.
Decodes(v, t, n) == Has(v, t) /\ abis[v].layout[t] = abis[InForce(n)].layout[t]

-----------------------------------------------------------------------------
(* deserializer.ts: rows *)

Blacklisted(t, n) ==
    \E e \in blacklist : e.type = t /\ e.from <= n /\ (e.until > n \/ e.until = Forever)

\* registerAutoBlacklist.
Register(t, from, until) == {[type |-> t, from |-> from, until |-> until]}

\* verifyLocalType's range: of the saved ABI, of the row alone if its type was
\* known, none if the saved ABI was loaded for it.
ValidRange(c, t, n) ==
    IF Has(c.loaded, t) THEN [from |-> n, until |-> Forever, known |-> TRUE]
    ELSE IF Has(SavedAt(n), t) /\ LoadSaved(c, SavedAt(n)).ok
    THEN [from |-> n, until |-> Forever, known |-> FALSE]
    ELSE IF SavedAt(n) = 0 THEN [from |-> n, until |-> Forever, known |-> TRUE]
    ELSE [from |-> abis[SavedAt(n)].block, until |-> NextSaved(n), known |-> TRUE]

\* deserializeContractRowAntelope: the JSON of the saved ABI or of the current one.
JsonAbi(n) == IF SavedAt(n) # 0 THEN SavedAt(n) ELSE Current

\* processContractRowNative(row, n) of data of block m, on the state
\* s = [cache, listed, how].
Row(s, t, m, n) ==
    LET c == Resolve(s.cache, t, n)
        range == ValidRange(s.cache, t, n)
        unloaded == IF ~c.ok /\ ~Has(s.cache.loaded, t) /\ SavedAt(n) # 0
                    THEN Register(t, range.from, range.until) ELSE {}
        json == JsonAbi(n)
        decoded == json # 0 /\ abis[json].json /\ Decodes(json, t, m)
        throws == json = 0 \/ ~abis[json].json \/ (Has(json, t) /\ ~Decodes(json, t, m))
    IN  IF Blacklisted(t, n) THEN [s EXCEPT !.how = "blacklisted"]
        ELSE IF c.ok /\ Decodes(c.loaded, t, m) THEN [cache |-> c, listed |-> unloaded, how |-> "native"]
        ELSE [cache |-> c,
              listed |-> unloaded \cup (IF throws \/ ~range.known THEN {}
                                        ELSE Register(t, range.from, range.until)),
              how |-> IF decoded THEN "antelope" ELSE "raw"]

\* contract_row: a row that is not decoded is tried again as of the block before.
Cache(w) == [loaded |-> loaded[w], failed |-> failedAbis[w], ok |-> FALSE]

ProcessRow(t, n) ==
    LET one == Row([cache |-> Cache("rows"), listed |-> {}, how |-> "none"], t, n, n)
        two == Row([one EXCEPT !.how = "none"], t, n, n - 1)
        end == IF one.how = "raw" THEN [two EXCEPT !.listed = @ \cup one.listed] ELSE one
    IN  /\ loaded' = [loaded EXCEPT !["rows"] = end.cache.loaded]
        /\ failedAbis' = [failedAbis EXCEPT !["rows"] = end.cache.failed]
        /\ blacklist' = blacklist \cup end.listed
        /\ item' = [type |-> t, how |-> end.how, stored |-> InForce(n) \in savedAbis]
        /\ UNCHANGED <<abis, height, savedAbis, contracts>>

RowArrives == \E t \in Types, n \in 1 .. height : Has(InForce(n), t) /\ ProcessRow(t, n)

-----------------------------------------------------------------------------
(* ds-pool.ts: actions *)

\* getContractAtBlock: the cached contract is valid for every block, since no ABI
\* of the index carries a range; then the saved ABI, then the current one.
CachedContract_AnyType(t) == contracts
CachedContract(t) == IF Has(contracts, t) THEN contracts ELSE 0
ContractAt(t, n) ==
    IF CachedContract(t) # 0 THEN CachedContract(t)
    ELSE IF Has(SavedAt(n), t) THEN SavedAt(n) ELSE Current

ProcessAction(t, n) ==
    LET c == Resolve(Cache("actions"), t, n)
        native == c.ok /\ Decodes(c.loaded, t, n)
        v == ContractAt(t, n)
        parsed == v # 0 /\ (v = CachedContract(t) \/ abis[v].json)
        keeps == ~native /\ parsed /\ v # CachedContract(t) /\ Has(v, t)
        reload == keeps /\ CurrentKey \notin c.failed /\ abis[v].native
    IN  /\ loaded' = [loaded EXCEPT !["actions"] = IF reload THEN v ELSE c.loaded]
        /\ failedAbis' = [failedAbis EXCEPT !["actions"] = c.failed]
        /\ contracts' = IF keeps THEN v ELSE contracts
        /\ item' = [type |-> t,
                    how |-> IF native THEN "native"
                            ELSE IF parsed /\ Decodes(v, t, n) THEN "antelope" ELSE "raw",
                    stored |-> InForce(n) \in savedAbis]
        /\ UNCHANGED <<abis, height, savedAbis, blacklist>>

ActionArrives == \E t \in Types, n \in 1 .. height : Has(InForce(n), t) /\ ProcessAction(t, n)

\* remove_contract of the master: the native library forgets the contract.
RemoveContract ==
    /\ loaded["actions"] # 0
    /\ loaded' = [loaded EXCEPT !["actions"] = 0]
    /\ UNCHANGED <<abis, height, savedAbis, failedAbis, contracts, blacklist, item>>

-----------------------------------------------------------------------------
(* the chain and the index *)

Deploy ==
    /\ abis = <<>>
    /\ \E h \in Histories : abis' = h
    /\ UNCHANGED <<height, savedAbis, loaded, failedAbis, contracts, blacklist, item>>

NewBlock ==
    /\ abis # <<>> /\ height < MaxBlock
    /\ height' = height + 1
    /\ UNCHANGED <<abis, savedAbis, loaded, failedAbis, contracts, blacklist, item>>

\* The account delta that sets ABI v, seen by the deserializer: it clears the
\* contract's blacklist and, on a live block, loads the ABI; the index has it later.
\* The update_abi that the master sends to other deserializers has no effect:
\* it carries the ABI as "abi" and they read "shipABI".
AbiDelta ==
    \E v \in DOMAIN abis, live \in BOOLEAN :
        /\ abis[v].block <= height /\ v \notin savedAbis
        /\ abis[v].json
        /\ savedAbis' = savedAbis \cup {v}
        /\ blacklist' = {}
        /\ loaded' = IF live /\ abis[v].native THEN [loaded EXCEPT !["rows"] = v] ELSE loaded
        /\ UNCHANGED <<abis, height, failedAbis, contracts, item>>

AbiNext ==
    \/ Deploy \/ NewBlock \/ AbiDelta
    \/ RowArrives \/ ActionArrives \/ RemoveContract

AbiSpec == AbiInit /\ [][AbiNext]_abiVars

-----------------------------------------------------------------------------
\* Types.
AbiTypeOK ==
    /\ height \in 0 .. MaxBlock /\ savedAbis \subseteq DOMAIN abis
    /\ loaded \in [Workers -> {0} \cup DOMAIN abis] /\ contracts \in {0} \cup DOMAIN abis

Stable(t) == \A u, v \in DOMAIN abis : Has(u, t) /\ Has(v, t) => abis[u].layout[t] = abis[v].layout[t]

\* Data whose ABI is in the index is decoded, whatever was loaded, refused or
\* cached before for other blocks, as long as the layout of its type never changed
\* and the row's table is not blacklisted: the fallbacks cover each other.
StoredAbiDecodes ==
    item.stored /\ Stable(item.type) => item.how # "raw"

=============================================================================
